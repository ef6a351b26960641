-------------------------- MODULE DirectPathProofs --------------------------
(***************************************************************************)
(* The direct link never returns a frame twice or out of order, and returns*)
(* exactly what was written as long as no read goes past a frame, for every*)
(* frame size, chunk size and content of misread headers; for every number *)
(* of relays their loads differ only by what was scheduled again or refused*)
(* by the direct link; and the scheduler keeps the requested split for     *)
(* every precision and all bandwidths wherever its floats are exact.       *)
(***************************************************************************)
EXTENDS DirectPath, SchedulerProofs

-----------------------------------------------------------------------------
(* Frames and positions. *)

\* A frame is not empty.
LEMMA FrameSizeType == FrameSize \in Nat \ {0}
BY LinkAssumption DEF FrameSize

\* Ends are positions; no frame ends where the stream begins.
LEMMA EndType == EndOf(0) = 0 /\ \A n \in Nat : EndOf(n) \in Nat
BY FrameSizeType DEF EndOf

\* One frame more.
LEMMA EndNext == \A n \in Nat : EndOf(n + 1) = EndOf(n) + FrameSize
BY FrameSizeType DEF EndOf

\* Frames are ordered as their ends are.
LEMMA EndOrder == \A m, n \in Nat : EndOf(m) <= EndOf(n) => m <= n
BY FrameSizeType DEF EndOf

\* The end of a frame is the start of the next one.
LEMMA EndAligned == \A n \in Nat : EndOf(n) % FrameSize = 0 /\ EndOf(n) \div FrameSize = n
BY FrameSizeType DEF EndOf

\* A position at the start of a frame is the end of those before it.
LEMMA AlignedEnd ==
    \A p \in Nat : p % FrameSize = 0 => p \div FrameSize \in Nat /\ p = EndOf(p \div FrameSize)
BY FrameSizeType DEF EndOf

-----------------------------------------------------------------------------
(* The invariant of the link. *)

\* A header read at the start of a frame is the true one.
HeaderTrue == header # NoHeader /\ Aligned => header = PayloadSize

\* A frame that was returned lies before the buffer.
Behind == \A k \in DOMAIN delivered : delivered[k] # Garbage => EndOf(delivered[k]) <= base

LinkInv == LinkTypeOK /\ FramesSound /\ HeaderTrue /\ Behind

\* A fresh connection satisfies it.
LEMMA LinkInitInv == LinkInit => LinkInv
<1> SUFFICES ASSUME LinkInit PROVE LinkInv
  OBVIOUS
<1>1. LinkTypeOK
  <2>1. alive \in BOOLEAN /\ dropped \in BOOLEAN /\ overread \in BOOLEAN
    BY Zenon DEF LinkInit
  <2>2. /\ queue \in 0 .. LinkDepth /\ taken \in Nat /\ wpos \in Nat /\ rpos \in Nat /\ base \in Nat
        /\ base <= rpos /\ rpos <= wpos /\ wpos <= EndOf(taken)
    BY LinkAssumption, EndType DEF LinkInit
  <2>3. /\ writer \in {"on", "ended"} /\ reader \in {"on", "ended"}
        /\ conn \in {"up", "broken", "closed"} /\ transport \in Transports
        /\ header \in Nat \cup {NoHeader} /\ delivered \in Seq(Nat)
    BY DEF LinkInit
  <2> QED
    BY <2>1, <2>2, <2>3 DEF LinkTypeOK
<1>2. FramesSound /\ HeaderTrue /\ Behind
  BY EndType DEF LinkInit, FramesSound, FramesExact, InOrder, HeaderTrue, Behind
<1> QED
  BY <1>1, <1>2 DEF LinkInv

\* Steps that leave the reader's side alone.
LEMMA ReaderUntouched ==
    ASSUME LinkInv, LinkTypeOK', UNCHANGED <<base, header, delivered, overread>>
    PROVE  LinkInv'
BY DEF LinkInv, FramesSound, FramesExact, InOrder, HeaderTrue, Behind, Aligned

\* The writer's side keeps the types, and a dead link stays dead.
LEMMA WriterType ==
    ASSUME LinkTypeOK, TrySend \/ Drop \/ WriterStep \/ WriterKilled \/ ReadEnds \/ Break
    PROVE  /\ LinkTypeOK' /\ UNCHANGED <<base, header, delivered, overread>>
           /\ alive' => alive
<1> USE LinkAssumption, FrameSizeType DEF LinkTypeOK
<1>1. CASE TrySend
  BY <1>1 DEF TrySend, CanQueue
<1>2. CASE Drop
  BY <1>2 DEF Drop
<1>3. CASE WriterTakes
  <2>1. EndOf(taken + 1) = EndOf(taken) + FrameSize
    BY EndNext
  <2>2. EndOf(taken) \in Nat
    BY EndType
  <2>3. wpos' <= EndOf(taken')
    BY <1>3, <2>1, <2>2 DEF WriterTakes
  <2> QED
    BY <1>3, <2>3 DEF WriterTakes
<1>4. ASSUME NEW n \in 1 .. FrameSize, WriterWrites(n)
      PROVE  LinkTypeOK' /\ UNCHANGED <<base, header, delivered, overread, alive>>
  BY <1>4 DEF WriterWrites
<1>5. ConnAfterTask \in {"up", "broken", "closed"}
  BY DEF ConnAfterTask
<1>6. CASE WriterFails
  <2>1. /\ writer' = "ended" /\ alive' = FALSE /\ queue' = 0 /\ conn' = ConnAfterTask
        /\ UNCHANGED <<transport, taken, dropped, wpos, rpos, base, header, reader, delivered,
                       overread>>
    BY <1>6 DEF WriterFails
  <2>2. queue' \in 0 .. LinkDepth
    BY <2>1
  <2> QED
    BY <1>5, <2>1, <2>2, Zenon
<1>7. CASE WriterEnds
  BY <1>5, <1>7 DEF WriterEnds
<1>8. CASE WriterKilled
  BY <1>8 DEF WriterKilled
<1>9. CASE ReadEnds
  BY <1>9 DEF ReadEnds
<1>10. CASE Break
  BY <1>10 DEF Break
<1> QED
  BY <1>1, <1>2, <1>3, <1>4, <1>6, <1>7, <1>8, <1>9, <1>10 DEF WriterStep

\* The length parse_frame works with.
LEMMA LengthType ==
    ASSUME LinkInv, NEW have \in Nat, NEW len \in Lengths(have)
    PROVE  /\ len \in Nat \cup {NoHeader}
           /\ len # NoHeader /\ Aligned => len = PayloadSize
<1>1. CASE have < HeaderSize
  BY <1>1, LinkAssumption DEF Lengths
<1>2. CASE have >= HeaderSize /\ header # NoHeader
  BY <1>2, LinkAssumption DEF Lengths, LinkInv, LinkTypeOK, HeaderTrue
<1>3. CASE have >= HeaderSize /\ header = NoHeader /\ Aligned
  BY <1>3, LinkAssumption DEF Lengths
<1>4. CASE have >= HeaderSize /\ header = NoHeader /\ ~Aligned
  BY <1>4, LinkAssumption DEF Lengths
<1> QED
  BY <1>1, <1>2, <1>3, <1>4, LinkAssumption

\* Frames in order, all of them before position b.
Ordered(s, b) ==
    /\ \A j, k \in DOMAIN s : j < k /\ s[j] # Garbage /\ s[k] # Garbage => s[j] < s[k]
    /\ \A k \in DOMAIN s : s[k] # Garbage => EndOf(s[k]) <= b

\* What a sequence and one more element are made of.
LEMMA Appended ==
    ASSUME NEW s \in Seq(Nat), NEW m \in Nat
    PROVE  /\ Append(s, m) \in Seq(Nat)
           /\ Len(s) \in Nat /\ Len(Append(s, m)) = Len(s) + 1
           /\ DOMAIN s = 1 .. Len(s) /\ DOMAIN Append(s, m) = 1 .. (Len(s) + 1)
           /\ \A k \in DOMAIN s : Append(s, m)[k] = s[k]
           /\ Append(s, m)[Len(s) + 1] = m
OBVIOUS

\* A later position has the same frames before it.
LEMMA OrderedLater ==
    ASSUME NEW s \in Seq(Nat), NEW b \in Nat, NEW c \in Nat, b <= c, Ordered(s, b)
    PROVE  Ordered(s, c)
<1>1. \A k \in DOMAIN s : s[k] # Garbage => EndOf(s[k]) <= c
  <2>1. SUFFICES ASSUME NEW k \in DOMAIN s, s[k] # Garbage PROVE EndOf(s[k]) <= c
    OBVIOUS
  <2>2. EndOf(s[k]) <= b /\ s[k] \in Nat
    BY <2>1 DEF Ordered
  <2>3. EndOf(s[k]) \in Nat
    BY <2>2, EndType
  <2> QED
    BY <2>2, <2>3
<1> QED
  BY <1>1 DEF Ordered

\* The frame at the position is the next in order.
LEMMA OrderedNext ==
    ASSUME NEW s \in Seq(Nat), NEW b \in Nat, NEW f \in Nat \ {0}, b = EndOf(f - 1), Ordered(s, b)
    PROVE  Ordered(Append(s, f), b + FrameSize)
<1> DEFINE t == Append(s, f)
           c == b + FrameSize
<1>1. /\ t \in Seq(Nat) /\ Len(s) \in Nat
      /\ DOMAIN s = 1 .. Len(s) /\ DOMAIN t = 1 .. (Len(s) + 1)
      /\ \A k \in DOMAIN s : t[k] = s[k]
      /\ t[Len(s) + 1] = f
  BY Appended
<1>2. EndOf(f) = c /\ c \in Nat /\ b <= c
  <2>1. f - 1 \in Nat /\ (f - 1) + 1 = f
    OBVIOUS
  <2>2. EndOf((f - 1) + 1) = EndOf(f - 1) + FrameSize
    BY <2>1, EndNext
  <2> QED
    BY <2>1, <2>2, FrameSizeType
<1>3. Ordered(s, c)
  BY <1>2, OrderedLater
<1>4. ASSUME NEW k \in DOMAIN s, s[k] # Garbage PROVE s[k] < f
  <2>1. s[k] \in Nat /\ EndOf(s[k]) <= EndOf(f - 1) /\ f - 1 \in Nat
    BY <1>4 DEF Ordered
  <2>2. s[k] <= f - 1
    BY <2>1, EndOrder
  <2> QED
    BY <2>1, <2>2
<1> HIDE DEF t, c
<1>5. ASSUME NEW k \in DOMAIN t, t[k] # Garbage PROVE EndOf(t[k]) <= c
  <2>1. CASE k \in DOMAIN s
    BY <1>1, <1>3, <1>5, <2>1 DEF Ordered
  <2>2. CASE k = Len(s) + 1
    <3>1. EndOf(t[k]) = c
      BY <1>1, <1>2, <2>2, Zenon
    <3> QED
      BY <1>2, <3>1
  <2> QED
    BY <1>1, <2>1, <2>2
<1>6. ASSUME NEW j \in DOMAIN t, NEW k \in DOMAIN t, j < k, t[j] # Garbage, t[k] # Garbage
      PROVE  t[j] < t[k]
  <2>1. j \in DOMAIN s
    BY <1>1, <1>6
  <2>2. CASE k \in DOMAIN s
    BY <1>1, <1>6, <2>1, <2>2 DEF Ordered
  <2>3. CASE k = Len(s) + 1
    BY <1>1, <1>4, <1>6, <2>1, <2>3
  <2> QED
    BY <1>1, <2>2, <2>3
<1>7. Ordered(t, c)
  BY <1>5, <1>6 DEF Ordered
<1> QED
  BY <1>7 DEF t, c

\* Garbage is not a frame.
LEMMA OrderedGarbage ==
    ASSUME NEW s \in Seq(Nat), NEW b \in Nat, Ordered(s, b)
    PROVE  Ordered(Append(s, Garbage), b) /\ Append(s, Garbage) \in Seq(Nat)
<1> DEFINE t == Append(s, Garbage)
<1>0. Garbage \in Nat
  BY DEF Garbage
<1>1. /\ t \in Seq(Nat) /\ Len(s) \in Nat
      /\ DOMAIN s = 1 .. Len(s) /\ DOMAIN t = 1 .. (Len(s) + 1)
      /\ \A k \in DOMAIN s : t[k] = s[k]
      /\ t[Len(s) + 1] = Garbage
  BY <1>0, Appended
<1> HIDE DEF t
<1>2. \A k \in DOMAIN t : t[k] # Garbage => k \in DOMAIN s /\ t[k] = s[k]
  BY <1>1
<1>3. Ordered(t, b)
  BY <1>2 DEF Ordered
<1> QED
  BY <1>1, <1>3 DEF t

\* The first frames, all of them, and the next one.
LEMMA ExactNext ==
    ASSUME NEW s \in Seq(Nat), \A k \in DOMAIN s : s[k] = k,
           NEW f \in Nat, f = Len(s) + 1
    PROVE  \A k \in DOMAIN Append(s, f) : Append(s, f)[k] = k
BY Appended

\* A frame is returned at the start of a frame: it is that frame.
LEMMA ReturnAligned ==
    ASSUME LinkInv, NEW have \in Nat, rpos' = base + have, have >= FrameSize, Aligned,
           base' = rpos', header' = NoHeader,
           overread' = (overread \/ have > FrameSize),
           delivered' = Append(delivered, base \div FrameSize + 1)
    PROVE  FramesSound' /\ HeaderTrue' /\ Behind' /\ delivered' \in Seq(Nat)
<1> DEFINE f == base \div FrameSize + 1
<1>1. base \in Nat /\ delivered \in Seq(Nat) /\ overread \in BOOLEAN /\ Len(delivered) \in Nat
  BY DEF LinkInv, LinkTypeOK
<1>2. f \in Nat \ {0} /\ base = EndOf(f - 1)
  <2>1. base \div FrameSize \in Nat /\ base = EndOf(base \div FrameSize)
    BY <1>1, AlignedEnd DEF Aligned
  <2>2. f - 1 = base \div FrameSize /\ f \in Nat \ {0}
    BY <2>1
  <2> QED
    BY <2>1, <2>2
<1>3. delivered' = Append(delivered, f)
  OBVIOUS
<1>4. ~overread => /\ base = EndOf(Len(delivered)) /\ f = Len(delivered) + 1
                   /\ \A k \in DOMAIN delivered : delivered[k] = k
  <2>1. EndOf(Len(delivered)) \div FrameSize = Len(delivered)
    BY <1>1, EndAligned
  <2> QED
    BY <2>1 DEF LinkInv, FramesSound, FramesExact
<1> HIDE DEF f
<1>5. base' \in Nat /\ base + FrameSize <= base' /\ base + FrameSize \in Nat
  BY <1>1, FrameSizeType
<1>6. Ordered(delivered, base)
  BY DEF LinkInv, FramesSound, InOrder, Behind, Ordered
<1>7. Ordered(Append(delivered, f), base + FrameSize) /\ Append(delivered, f) \in Seq(Nat)
  BY <1>1, <1>2, <1>6, OrderedNext, Appended
<1>8. Ordered(delivered', base') /\ delivered' \in Seq(Nat)
  BY <1>3, <1>5, <1>7, OrderedLater
<1>9. InOrder' /\ Behind'
  BY <1>8 DEF Ordered, InOrder, Behind
<1>10. ASSUME ~overread'
       PROVE  /\ base' = EndOf(Len(delivered'))
              /\ \A k \in DOMAIN delivered' : delivered'[k] = k
  <2>1. ~overread /\ base' = base + FrameSize
    <3>1. ~overread /\ ~(have > FrameSize)
      BY <1>10, Zenon
    <3> QED
      BY <1>1, <3>1, FrameSizeType
  <2>2. \A k \in DOMAIN Append(delivered, f) : Append(delivered, f)[k] = k
    BY <1>1, <1>2, <1>4, <2>1, ExactNext
  <2>3. EndOf(Len(delivered) + 1) = base + FrameSize
    BY <1>1, <1>4, <2>1, EndNext
  <2>4. Len(Append(delivered, f)) = Len(delivered) + 1
    BY <1>1, <1>2, Appended
  <2> QED
    BY <1>3, <2>1, <2>2, <2>3, <2>4
<1>11. HeaderTrue'
  BY DEF HeaderTrue
<1> QED
  BY <1>8, <1>9, <1>10, <1>11 DEF FramesSound, FramesExact

\* Anywhere else something was lost before, and no frame is returned.
LEMMA ReturnMisaligned ==
    ASSUME LinkInv, ~Aligned, base' \in Nat, base <= base', header' = NoHeader, overread => overread',
           delivered' = delivered \/ delivered' = Append(delivered, Garbage)
    PROVE  FramesSound' /\ HeaderTrue' /\ Behind' /\ delivered' \in Seq(Nat)
<1>1. base \in Nat /\ delivered \in Seq(Nat) /\ overread \in BOOLEAN /\ Len(delivered) \in Nat
  BY DEF LinkInv, LinkTypeOK
<1>2. overread'
  <2>1. EndOf(Len(delivered)) % FrameSize = 0
    BY <1>1, EndAligned
  <2> QED
    BY <2>1 DEF LinkInv, FramesSound, FramesExact, Aligned
<1>3. Ordered(delivered, base)
  BY DEF LinkInv, FramesSound, InOrder, Behind, Ordered
<1>4. Ordered(delivered, base')
  BY <1>1, <1>3, OrderedLater
<1>5. Ordered(Append(delivered, Garbage), base') /\ Append(delivered, Garbage) \in Seq(Nat)
  BY <1>1, <1>4, OrderedGarbage
<1>6. Ordered(delivered', base') /\ delivered' \in Seq(Nat)
  BY <1>1, <1>4, <1>5
<1>7. InOrder' /\ Behind'
  BY <1>6 DEF Ordered, InOrder, Behind
<1>8. HeaderTrue'
  BY DEF HeaderTrue
<1> QED
  BY <1>2, <1>6, <1>7, <1>8 DEF FramesSound, FramesExact

\* A read keeps the invariant.
LEMMA ReadInv ==
    ASSUME LinkInv, NEW n \in 1 .. ChunkSize, Read(n)
    PROVE  LinkInv' /\ UNCHANGED alive
<1> USE LinkAssumption, FrameSizeType
<1> DEFINE have == rpos + n - base
<1>1. /\ n \in Nat /\ rpos + n <= wpos /\ rpos' = rpos + n
      /\ UNCHANGED <<transport, queue, taken, writer, alive, dropped, conn, wpos>>
  BY DEF Read
<1>2. /\ base \in Nat /\ rpos \in Nat /\ wpos \in Nat /\ base <= rpos
      /\ have \in Nat
  BY <1>1 DEF LinkInv, LinkTypeOK
<1>3. PICK len \in Lengths(have) :
         \/ /\ TooLarge(len)
            /\ reader' = "ended" /\ UNCHANGED <<base, header, delivered, overread>>
         \/ /\ ~TooLarge(len) /\ Incomplete(have, len)
            /\ header' = len /\ UNCHANGED <<base, reader, delivered, overread>>
         \/ /\ ~TooLarge(len) /\ ~Incomplete(have, len)
            /\ base' = BufferStart(len) /\ header' = NoHeader
            /\ overread' = (overread \/ have > HeaderSize + len)
            /\ \E ok \in Decodes(len) :
                 IF ok THEN /\ \E m \in Decoded : delivered' = Append(delivered, m)
                            /\ UNCHANGED reader
                       ELSE reader' = "ended" /\ UNCHANGED delivered
  BY Zenon DEF Read
<1>4. /\ len \in Nat \cup {NoHeader}
      /\ len # NoHeader /\ Aligned => len = PayloadSize
  BY <1>2, LengthType
<1>5. CASE UNCHANGED <<base, header, delivered, overread>> /\ reader' = "ended"
  <2>1. LinkTypeOK'
    BY <1>1, <1>2, <1>5 DEF LinkInv, LinkTypeOK
  <2> QED
    BY <1>1, <1>5, <2>1, ReaderUntouched
<1>6. CASE header' = len /\ UNCHANGED <<base, reader, delivered, overread>>
  <2>1. LinkTypeOK'
    BY <1>1, <1>2, <1>4, <1>6 DEF LinkInv, LinkTypeOK
  <2>2. HeaderTrue'
    BY <1>4, <1>6 DEF HeaderTrue, Aligned
  <2>3. FramesSound' /\ Behind'
    BY <1>6 DEF LinkInv, FramesSound, FramesExact, InOrder, Behind
  <2> QED
    BY <1>1, <2>1, <2>2, <2>3 DEF LinkInv
<1>7. CASE /\ ~Incomplete(have, len)
           /\ base' = BufferStart(len) /\ header' = NoHeader
           /\ overread' = (overread \/ have > HeaderSize + len)
           /\ \E ok \in Decodes(len) :
                IF ok THEN /\ \E m \in Decoded : delivered' = Append(delivered, m)
                           /\ UNCHANGED reader
                      ELSE reader' = "ended" /\ UNCHANGED delivered
  <2>1. len \in Nat /\ have >= HeaderSize + len
    BY <1>2, <1>4, <1>7 DEF Incomplete
  <2>2. base' = rpos'
    BY <1>7 DEF BufferStart
  <2>3. reader' \in {"ended", reader}
    BY <1>7
  <2>4. Aligned => delivered' = Append(delivered, base \div FrameSize + 1)
    BY <1>7 DEF Decodes, Decoded
  <2>5. ~Aligned => delivered' = delivered \/ delivered' = Append(delivered, Garbage)
    BY <1>7 DEF Decodes, Decoded
  <2>6. FramesSound' /\ HeaderTrue' /\ Behind' /\ delivered' \in Seq(Nat)
    <3>1. rpos' = base + have /\ base' \in Nat /\ base <= base'
      BY <1>1, <1>2, <2>2
    <3>2. CASE Aligned
      <4>1. HeaderSize + len = FrameSize
        BY <1>4, <2>1, <3>2 DEF FrameSize, NoHeader
      <4> QED
        BY <1>2, <1>7, <2>1, <2>2, <2>4, <3>1, <3>2, <4>1, ReturnAligned
    <3>3. CASE ~Aligned
      <4>1. overread => overread'
        BY <1>7
      <4> QED
        BY <1>7, <2>5, <3>1, <3>3, <4>1, ReturnMisaligned
    <3> QED
      BY <3>2, <3>3
  <2>7. LinkTypeOK'
    BY <1>1, <1>2, <1>7, <2>2, <2>3, <2>6 DEF LinkInv, LinkTypeOK
  <2> QED
    BY <1>1, <2>6, <2>7 DEF LinkInv
<1> QED
  BY <1>1, <1>3, <1>5, <1>6, <1>7

-----------------------------------------------------------------------------
(* The emission loop. *)

\* There is at least one relay.
LEMMA RelayCountType == RelayCount \in Nat \ {0}
BY SchedulerAssumption DEF RelayCount

\* The relays are numbered from 0.
LEMMA RelaysType == 0 \in Relays /\ \A i \in Relays : i \in Nat /\ i < RelayCount
BY RelayCountType DEF Relays

\* The turn that follows one is the next, or the first after the last.
LEMMA NextTurn ==
    ASSUME NEW r \in Relays, NEW s
    PROVE  NextRelay(r, s) = IF r = RelayCount - 1 THEN 0 ELSE r + 1
<1> USE DEF Relays
<1>1. CASE r = RelayCount - 1
  BY <1>1, RelayCountType DEF NextRelay
<1>2. CASE r # RelayCount - 1
  <2>1. r + 1 \in 0 .. (RelayCount - 1)
    BY <1>2, RelayCountType
  <2>2. (r + 1) % RelayCount = r + 1
    BY <2>1, RelayCountType
  <2> QED
    BY <1>2, <2>2 DEF NextRelay
<1> QED
  BY <1>1, <1>2

\* The relays before the next one have had one turn more than those from it on.
Turns ==
    \A i, j \in Relays :
        picks[i] = picks[j] + (IF i < nextRelay THEN 1 ELSE 0) - (IF j < nextRelay THEN 1 ELSE 0)

\* A relay has carried the symbols it was named for, but for those it or another
\* one refused; the first relay also what the direct link did not take.
Loads ==
    \A i \in Relays :
        /\ carried[i] <= picks[i] + refusals + (IF i = 0 THEN fallbacks ELSE 0)
        /\ picks[i] <= carried[i] + refusals

\* Every symbol emitted went one way or the other.
Counted == esi = viaDirect + viaRelay

\* The symbols of the direct link are those the scheduler did not give to a relay.
Shares == viaDirect + fallbacks = esi - Relayed(esi, Equal)

\* Between try_send and is_alive the symbol is one of the direct link's.
Refused == step = "refused" => esi < MaxEsi /\ ~GoesToRelay(esi, Equal)

\* The link is given up only when it is dead.
LinkKept == direct \/ ~alive

LoopType ==
    /\ step \in {"next", "refused"}
    /\ esi \in 0 .. MaxEsi /\ refusals \in 0 .. MaxRefusals
    /\ nextRelay \in Relays
    /\ picks \in [Relays -> Nat] /\ carried \in [Relays -> Nat]
    /\ direct \in BOOLEAN
    /\ viaDirect \in Nat /\ viaRelay \in Nat /\ fallbacks \in 0 .. viaRelay

LoopInv == LoopType /\ Turns /\ Loads /\ Counted /\ Shares /\ Refused

IInv == LinkInv /\ LoopInv /\ LinkKept

\* Turns and loads bound the differences between the relays.
LEMMA LoadsEnough == LoopInv => RelaysBalanced
<1> SUFFICES ASSUME LoopInv, NEW i \in Relays, NEW j \in Relays
             PROVE  carried[i] <= carried[j] + 1 + 2 * refusals + (IF i = 0 THEN fallbacks ELSE 0)
  BY DEF RelaysBalanced
<1>1. /\ picks[i] \in Nat /\ picks[j] \in Nat /\ carried[i] \in Nat /\ carried[j] \in Nat
      /\ refusals \in Nat /\ fallbacks \in Nat
  BY PathAssumption DEF LoopInv, LoopType
<1>2. picks[i] = picks[j] + (IF i < nextRelay THEN 1 ELSE 0) - (IF j < nextRelay THEN 1 ELSE 0)
  BY DEF LoopInv, Turns
<1>3. picks[i] <= picks[j] + 1
  BY <1>1, <1>2
<1>4. carried[i] <= picks[i] + refusals + (IF i = 0 THEN fallbacks ELSE 0)
  BY DEF LoopInv, Loads
<1>5. picks[j] <= carried[j] + refusals
  BY DEF LoopInv, Loads
<1> QED
  BY <1>1, <1>3, <1>4, <1>5

\* It is enough for the properties.
LEMMA InvEnough == IInv => TypeOK /\ FramesSound /\ RelaysBalanced /\ SplitKept
<1> SUFFICES ASSUME IInv PROVE TypeOK /\ FramesSound /\ RelaysBalanced /\ SplitKept
  OBVIOUS
<1>1. viaDirect \in 0 .. MaxEsi /\ viaRelay \in 0 .. MaxEsi
  BY PathAssumption DEF IInv, LoopInv, LoopType, Counted
<1>2. TypeOK /\ FramesSound
  BY <1>1 DEF IInv, LoopInv, LoopType, LinkInv, TypeOK
<1>3. SplitKept
  <2>1. esi \in Nat /\ \A bw \in Bandwidths : bw[1] \in Nat /\ bw[2] \in Nat
    BY PathAssumption DEF IInv, LoopInv, LoopType
  <2>2. HalfSplit(esi)
    BY <2>1, SplitIsHalf
  <2>3. esi <= 2 ^ Precision => viaDirect + fallbacks = esi \div 2
    BY <2>2 DEF HalfSplit, IInv, LoopInv, Shares, Equal
  <2>4. \A bw \in Bandwidths : SplitExact(esi, bw[1], bw[2])
    BY <2>1, SplitIsExact
  <2> QED
    BY <2>3, <2>4 DEF SplitKept, IInv, LinkKept
<1> QED
  BY <1>2, <1>3, LoadsEnough DEF IInv

\* The loop starts with the first relay's turn.
LEMMA InitInv == Init => IInv
<1> SUFFICES ASSUME Init PROVE IInv
  OBVIOUS
<1>1. LinkInv
  BY LinkInitInv DEF Init
<1>2. direct \in BOOLEAN /\ LinkKept
  BY Zenon DEF Init, LinkKept
<1>3. LoopType
  <2>1. picks \in [Relays -> Nat] /\ carried \in [Relays -> Nat]
    BY DEF Init
  <2>2. /\ esi \in 0 .. MaxEsi /\ refusals \in 0 .. MaxRefusals /\ fallbacks \in 0 .. viaRelay
        /\ nextRelay \in Relays /\ viaDirect \in Nat /\ viaRelay \in Nat
    BY RelaysType, PathAssumption DEF Init
  <2>3. step \in {"next", "refused"}
    BY DEF Init
  <2> QED
    BY <1>2, <2>1, <2>2, <2>3 DEF LoopType
<1>4. Counted /\ Refused
  BY DEF Init, Counted, Refused
<1>5. Turns /\ Loads
  BY RelaysType DEF Init, Turns, Loads
<1>6. Shares
  <2>1. Relayed(0, Equal) = 0
    BY RelayedNext
  <2> QED
    BY <2>1 DEF Init, Shares
<1> QED
  BY <1>1, <1>2, <1>3, <1>4, <1>5, <1>6 DEF IInv, LoopInv

\* The relay whose turn it is is named, and the turn passes on.
LEMMA TurnTaken ==
    ASSUME LoopInv, nextRelay' = NextRelay(nextRelay, esi),
           picks' = [picks EXCEPT ![nextRelay] = @ + 1]
    PROVE  /\ nextRelay' \in Relays
           /\ picks' \in [Relays -> Nat]
           /\ \A i \in Relays : picks'[i] = picks[i] + (IF i = nextRelay THEN 1 ELSE 0)
           /\ Turns'
<1> USE DEF Relays
<1>1. nextRelay \in Relays /\ picks \in [Relays -> Nat]
  BY DEF LoopInv, LoopType
<1>2. nextRelay' = IF nextRelay = RelayCount - 1 THEN 0 ELSE nextRelay + 1
  BY <1>1, NextTurn
<1>3. nextRelay' \in Relays
  BY <1>1, <1>2, RelayCountType
<1>4. picks' \in [Relays -> Nat]
  BY <1>1
<1>5. \A i \in Relays : picks'[i] = picks[i] + (IF i = nextRelay THEN 1 ELSE 0)
  BY <1>1
<1>6. Turns'
  <2>1. SUFFICES ASSUME NEW i \in Relays, NEW j \in Relays
                 PROVE  picks'[i] = picks'[j] + (IF i < nextRelay' THEN 1 ELSE 0)
                                              - (IF j < nextRelay' THEN 1 ELSE 0)
    BY DEF Turns
  <2>2. picks[i] = picks[j] + (IF i < nextRelay THEN 1 ELSE 0) - (IF j < nextRelay THEN 1 ELSE 0)
    BY DEF LoopInv, Turns
  <2>3. /\ picks[i] \in Nat /\ picks[j] \in Nat
        /\ picks'[i] = picks[i] + (IF i = nextRelay THEN 1 ELSE 0)
        /\ picks'[j] = picks[j] + (IF j = nextRelay THEN 1 ELSE 0)
    BY <1>1, <1>5
  <2>4. CASE nextRelay = RelayCount - 1
    <3>1. /\ nextRelay' = 0
          /\ (i < nextRelay) = (i # nextRelay) /\ (j < nextRelay) = (j # nextRelay)
          /\ ~(i < nextRelay') /\ ~(j < nextRelay')
      BY <1>1, <1>2, <2>4, RelayCountType
    <3> QED
      BY <2>2, <2>3, <3>1
  <2>5. CASE nextRelay # RelayCount - 1
    <3>1. /\ nextRelay' = nextRelay + 1
          /\ (i < nextRelay') = (i < nextRelay \/ i = nextRelay)
          /\ (j < nextRelay') = (j < nextRelay \/ j = nextRelay)
          /\ ~(i < nextRelay /\ i = nextRelay) /\ ~(j < nextRelay /\ j = nextRelay)
      BY <1>1, <1>2, <2>5, RelayCountType
    <3> QED
      BY <2>2, <2>3, <3>1
  <2> QED
    BY <2>4, <2>5
<1> QED
  BY <1>3, <1>4, <1>5, <1>6

\* What a relay that takes a symbol does to the counters.
LEMMA DispatchType ==
    ASSUME LoopType, Counted, esi < MaxEsi, NEW first, NEW r \in Relays, Dispatched(first, r),
           UNCHANGED viaDirect
    PROVE  /\ esi' \in 0 .. MaxEsi /\ esi' = esi + 1
           /\ refusals' \in 0 .. MaxRefusals
           /\ refusals' = refusals + (IF r = first THEN 0 ELSE 1)
           /\ carried' \in [Relays -> Nat]
           /\ \A i \in Relays : carried'[i] = carried[i] + (IF i = r THEN 1 ELSE 0)
           /\ viaRelay' = viaRelay + 1 /\ viaRelay' \in Nat /\ viaDirect' \in Nat /\ Counted'
<1>1. /\ carried' \in [Relays -> Nat]
      /\ \A i \in Relays : carried'[i] = carried[i] + (IF i = r THEN 1 ELSE 0)
  BY DEF Dispatched, LoopType
<1>2. refusals' \in 0 .. MaxRefusals /\ refusals' = refusals + (IF r = first THEN 0 ELSE 1)
  BY PathAssumption DEF Dispatched, LoopType
<1>3. /\ esi' \in 0 .. MaxEsi /\ esi' = esi + 1
      /\ viaRelay' = viaRelay + 1 /\ viaRelay' \in Nat /\ viaDirect' \in Nat /\ Counted'
  BY PathAssumption DEF Dispatched, LoopType, Counted
<1> QED
  BY <1>1, <1>2, <1>3

\* What a round in which every relay refuses does to them.
LEMMA WaitType ==
    ASSUME LoopType, Waited
    PROVE  refusals' \in 0 .. MaxRefusals /\ refusals' = refusals + 1
BY PathAssumption DEF LoopType, Waited

\* A symbol of a relay's keeps the invariant of the loop.
LEMMA EmitRelayInv == LoopInv /\ EmitRelay => LoopInv'
<1> SUFFICES ASSUME LoopInv, EmitRelay PROVE LoopInv'
  OBVIOUS
<1>1. /\ LoopType /\ Counted /\ esi < MaxEsi /\ UNCHANGED <<step, direct, viaDirect>>
      /\ step = "next" /\ GoesToRelay(esi, Equal)
  BY DEF EmitRelay, LoopInv
<1>2. /\ nextRelay' \in Relays /\ picks' \in [Relays -> Nat] /\ Turns'
      /\ \A i \in Relays : picks'[i] = picks[i] + (IF i = nextRelay THEN 1 ELSE 0)
  BY TurnTaken DEF EmitRelay
<1>3. /\ \A i \in Relays : picks[i] \in Nat /\ carried[i] \in Nat
      /\ refusals \in Nat /\ fallbacks \in Nat /\ esi \in Nat
      /\ viaDirect \in Nat /\ viaRelay \in Nat
      /\ fallbacks <= viaRelay /\ nextRelay \in Relays
  BY <1>1, PathAssumption DEF LoopType
<1>4. Refused'
  BY <1>1 DEF Refused
<1>5. ASSUME NEW r \in Relays, Dispatched(nextRelay, r), UNCHANGED fallbacks PROVE LoopInv'
  <2>1. /\ esi' \in 0 .. MaxEsi /\ esi' = esi + 1
        /\ refusals' \in 0 .. MaxRefusals
        /\ refusals' = refusals + (IF r = nextRelay THEN 0 ELSE 1)
        /\ carried' \in [Relays -> Nat]
        /\ \A i \in Relays : carried'[i] = carried[i] + (IF i = r THEN 1 ELSE 0)
        /\ viaRelay' = viaRelay + 1 /\ viaRelay' \in Nat /\ viaDirect' \in Nat /\ Counted'
    BY <1>1, <1>5, DispatchType
  <2>2. LoopType'
    <3>1. fallbacks' \in 0 .. viaRelay'
      BY <1>3, <1>5, <2>1
    <3> QED
      BY <1>1, <1>2, <2>1, <3>1 DEF LoopType
  <2>3. Loads'
    <3>1. SUFFICES ASSUME NEW i \in Relays
                   PROVE  /\ carried'[i] <= picks'[i] + refusals'
                                             + (IF i = 0 THEN fallbacks' ELSE 0)
                          /\ picks'[i] <= carried'[i] + refusals'
      BY DEF Loads
    <3>2. /\ carried[i] <= picks[i] + refusals + (IF i = 0 THEN fallbacks ELSE 0)
          /\ picks[i] <= carried[i] + refusals
      BY DEF LoopInv, Loads
    <3>3. /\ carried'[i] = carried[i] + (IF i = r THEN 1 ELSE 0)
          /\ picks'[i] = picks[i] + (IF i = nextRelay THEN 1 ELSE 0)
          /\ picks[i] \in Nat /\ carried[i] \in Nat
      BY <1>2, <1>3, <2>1
    <3> QED
      BY <1>3, <1>5, <2>1, <3>2, <3>3
  <2>4. Shares'
    <3>1. Relayed(esi, Equal) \in Nat /\ Relayed(esi + 1, Equal) = Relayed(esi, Equal) + 1
      BY <1>1, <1>3, RelayedNext
    <3>2. viaDirect + fallbacks = esi - Relayed(esi, Equal)
      BY DEF LoopInv, Shares
    <3>3. viaDirect' + fallbacks' = esi' - Relayed(esi', Equal)
      BY <1>1, <1>3, <1>5, <2>1, <3>1, <3>2
    <3> QED
      BY <3>3 DEF Shares, Equal
  <2> QED
    BY <1>2, <1>4, <2>1, <2>2, <2>3, <2>4 DEF LoopInv
<1>6. ASSUME Waited PROVE LoopInv'
  <2>1. refusals' \in 0 .. MaxRefusals /\ refusals' = refusals + 1
    BY <1>1, <1>6, WaitType
  <2>2. UNCHANGED <<esi, carried, viaRelay, fallbacks>>
    BY <1>6 DEF Waited
  <2>3. LoopType'
    BY <1>1, <1>2, <2>1, <2>2 DEF LoopType
  <2>4. Loads'
    <3>1. SUFFICES ASSUME NEW i \in Relays
                   PROVE  /\ carried[i] <= picks'[i] + refusals' + (IF i = 0 THEN fallbacks ELSE 0)
                          /\ picks'[i] <= carried[i] + refusals'
      BY <2>2 DEF Loads
    <3>2. /\ carried[i] <= picks[i] + refusals + (IF i = 0 THEN fallbacks ELSE 0)
          /\ picks[i] <= carried[i] + refusals
      BY DEF LoopInv, Loads
    <3>3. /\ picks'[i] = picks[i] + (IF i = nextRelay THEN 1 ELSE 0)
          /\ picks[i] \in Nat /\ carried[i] \in Nat
      BY <1>2, <1>3
    <3> QED
      BY <1>3, <2>1, <3>2, <3>3
  <2>5. Counted' /\ Shares'
    BY <1>1, <2>2 DEF LoopInv, Counted, Shares
  <2> QED
    BY <1>2, <1>4, <2>3, <2>4, <2>5 DEF LoopInv
<1> QED
  BY <1>5, <1>6 DEF EmitRelay

\* A symbol the direct link takes keeps it.
LEMMA EmitDirectInv == LoopInv /\ EmitDirect => LoopInv'
<1> SUFFICES ASSUME LoopInv, EmitDirect PROVE LoopInv'
  OBVIOUS
<1>1. /\ esi < MaxEsi /\ ~GoesToRelay(esi, Equal)
      /\ esi' = esi + 1 /\ viaDirect' = viaDirect + 1 /\ step = "next"
      /\ UNCHANGED <<step, nextRelay, picks, carried, fallbacks, refusals, direct, viaRelay>>
  BY DEF EmitDirect, ForDirect
<1>2. esi \in Nat /\ viaDirect \in Nat /\ viaRelay \in Nat /\ fallbacks \in Nat
  BY PathAssumption DEF LoopInv, LoopType
<1>3. esi' \in 0 .. MaxEsi /\ viaDirect' \in Nat /\ Counted'
  BY <1>1, <1>2, PathAssumption DEF LoopInv, Counted
<1>4. LoopType' /\ Turns' /\ Loads' /\ Refused'
  BY <1>1, <1>3 DEF LoopInv, LoopType, Turns, Loads, Refused
<1>5. Shares'
  <2>1. Relayed(esi, Equal) \in Nat /\ Relayed(esi + 1, Equal) = Relayed(esi, Equal)
    BY <1>1, <1>2, RelayedNext
  <2>2. viaDirect + fallbacks = esi - Relayed(esi, Equal)
    BY DEF LoopInv, Shares
  <2>3. viaDirect' + fallbacks' = esi' - Relayed(esi', Equal)
    BY <1>1, <1>2, <2>1, <2>2
  <2> QED
    BY <2>3 DEF Shares, Equal
<1> QED
  BY <1>3, <1>4, <1>5 DEF LoopInv

\* A symbol the direct link refuses keeps it.
LEMMA DirectRefusesInv == LoopInv /\ DirectRefuses => LoopInv'
BY DEF DirectRefuses, ForDirect, LoopInv, LoopType, Turns, Loads, Counted, Shares, Refused

\* A symbol of the direct link that the relays are given keeps it.
LEMMA FallBackInv == LoopInv /\ FallBack => LoopInv'
<1> SUFFICES ASSUME LoopInv, FallBack PROVE LoopInv'
  OBVIOUS
<1>1. /\ LoopType /\ Counted /\ esi < MaxEsi /\ ~GoesToRelay(esi, Equal)
      /\ step' = "next" /\ UNCHANGED <<nextRelay, picks, viaDirect>>
  BY DEF FallBack, ForDirect, LoopInv, Refused
<1>2. direct' \in BOOLEAN
  <2>1. direct' = (direct /\ alive)
    BY DEF FallBack
  <2> QED
    BY <2>1, Zenon
<1>3. /\ \A i \in Relays : picks[i] \in Nat /\ carried[i] \in Nat
      /\ refusals \in Nat /\ fallbacks \in Nat /\ esi \in Nat
      /\ viaDirect \in Nat /\ viaRelay \in Nat
      /\ fallbacks <= viaRelay
  BY <1>1, PathAssumption DEF LoopType
<1>4. Refused' /\ Turns'
  BY <1>1 DEF Refused, Turns, LoopInv
<1>5. ASSUME NEW r \in Relays, Dispatched(0, r), fallbacks' = fallbacks + 1 PROVE LoopInv'
  <2>1. /\ esi' \in 0 .. MaxEsi /\ esi' = esi + 1
        /\ refusals' \in 0 .. MaxRefusals
        /\ refusals' = refusals + (IF r = 0 THEN 0 ELSE 1)
        /\ carried' \in [Relays -> Nat]
        /\ \A i \in Relays : carried'[i] = carried[i] + (IF i = r THEN 1 ELSE 0)
        /\ viaRelay' = viaRelay + 1 /\ viaRelay' \in Nat /\ viaDirect' \in Nat /\ Counted'
    BY <1>1, <1>5, DispatchType
  <2>2. LoopType'
    <3>1. fallbacks' \in 0 .. viaRelay'
      BY <1>3, <1>5, <2>1
    <3> QED
      BY <1>1, <1>2, <2>1, <3>1 DEF LoopType
  <2>3. Loads'
    <3>1. SUFFICES ASSUME NEW i \in Relays
                   PROVE  /\ carried'[i] <= picks[i] + refusals' + (IF i = 0 THEN fallbacks' ELSE 0)
                          /\ picks[i] <= carried'[i] + refusals'
      BY <1>1 DEF Loads
    <3>2. /\ carried[i] <= picks[i] + refusals + (IF i = 0 THEN fallbacks ELSE 0)
          /\ picks[i] <= carried[i] + refusals
      BY DEF LoopInv, Loads
    <3>3. /\ carried'[i] = carried[i] + (IF i = r THEN 1 ELSE 0)
          /\ picks[i] \in Nat /\ carried[i] \in Nat
      BY <1>3, <2>1
    <3> QED
      BY <1>3, <1>5, <2>1, <3>2, <3>3
  <2>4. Shares'
    <3>1. Relayed(esi, Equal) \in Nat /\ Relayed(esi + 1, Equal) = Relayed(esi, Equal)
      BY <1>1, <1>3, RelayedNext
    <3>2. viaDirect + fallbacks = esi - Relayed(esi, Equal)
      BY DEF LoopInv, Shares
    <3>3. viaDirect' + fallbacks' = esi' - Relayed(esi', Equal)
      BY <1>1, <1>3, <1>5, <2>1, <3>1, <3>2
    <3> QED
      BY <3>3 DEF Shares, Equal
  <2> QED
    BY <1>4, <2>1, <2>2, <2>3, <2>4 DEF LoopInv
<1>6. ASSUME Waited PROVE LoopInv'
  <2>1. refusals' \in 0 .. MaxRefusals /\ refusals' = refusals + 1
    BY <1>1, <1>6, WaitType
  <2>2. UNCHANGED <<esi, carried, viaRelay, fallbacks>>
    BY <1>6 DEF Waited
  <2>3. LoopType'
    BY <1>1, <1>2, <2>1, <2>2 DEF LoopType
  <2>4. Loads'
    <3>1. SUFFICES ASSUME NEW i \in Relays
                   PROVE  /\ carried[i] <= picks[i] + refusals' + (IF i = 0 THEN fallbacks ELSE 0)
                          /\ picks[i] <= carried[i] + refusals'
      BY <1>1, <2>2 DEF Loads
    <3>2. /\ carried[i] <= picks[i] + refusals + (IF i = 0 THEN fallbacks ELSE 0)
          /\ picks[i] <= carried[i] + refusals
      BY DEF LoopInv, Loads
    <3> QED
      BY <1>3, <2>1, <3>2
  <2>5. Counted' /\ Shares'
    BY <1>1, <2>2 DEF LoopInv, Counted, Shares
  <2> QED
    BY <1>4, <2>3, <2>4, <2>5 DEF LoopInv
<1> QED
  BY <1>5, <1>6 DEF FallBack

\* Every step of the loop, the tasks and the connection keeps the invariant.
LEMMA NextInv == IInv /\ [Next]_vars => IInv'
<1> SUFFICES ASSUME IInv, [Next]_vars PROVE IInv'
  OBVIOUS
<1> USE DEF IInv
<1>1. ASSUME UNCHANGED loopVars PROVE LoopInv' /\ direct' = direct
  BY <1>1 DEF loopVars, LoopInv, LoopType, Turns, Loads, Counted, Shares, Refused
<1>2. ASSUME UNCHANGED linkVars PROVE LinkInv' /\ alive' = alive
  <2>1. LinkTypeOK' /\ UNCHANGED <<base, header, delivered, overread, alive>>
    BY <1>2 DEF linkVars, LinkInv, LinkTypeOK
  <2> QED
    BY <2>1, ReaderUntouched
<1>3. ASSUME TrySend \/ Drop \/ WriterStep \/ WriterKilled \/ ReadEnds \/ Break
      PROVE  LinkInv' /\ (alive' => alive)
  <2>1. LinkTypeOK' /\ UNCHANGED <<base, header, delivered, overread>> /\ (alive' => alive)
    BY <1>3, WriterType DEF LinkInv
  <2> QED
    BY <2>1, ReaderUntouched
<1>4. ASSUME direct' = direct, alive' => alive PROVE LinkKept'
  BY <1>4, Zenon DEF LinkKept
<1>5. CASE EmitRelay
  <2>1. UNCHANGED linkVars /\ direct' = direct
    BY <1>5 DEF EmitRelay
  <2> QED
    BY <1>2, <1>4, <1>5, <2>1, EmitRelayInv
<1>6. CASE EmitDirect
  <2>1. TrySend /\ direct' = direct
    BY <1>6 DEF EmitDirect
  <2> QED
    BY <1>3, <1>4, <1>6, <2>1, EmitDirectInv
<1>7. CASE DirectRefuses
  <2>1. UNCHANGED linkVars /\ direct' = direct
    BY <1>7 DEF DirectRefuses
  <2> QED
    BY <1>2, <1>4, <1>7, <2>1, DirectRefusesInv
<1>8. CASE FallBack
  <2>1. UNCHANGED linkVars /\ direct' = (direct /\ alive)
    BY <1>8 DEF FallBack
  <2>2. LinkKept'
    BY <1>2, <2>1, Zenon DEF LinkKept
  <2> QED
    BY <1>2, <1>8, <2>1, <2>2, FallBackInv
<1>9. CASE Return
  BY <1>1, <1>3, <1>4, <1>9 DEF Return
<1>10. CASE Writer
  BY <1>1, <1>3, <1>4, <1>10 DEF Writer
<1>11. CASE Reader
  <2>1. LinkInv' /\ (alive' => alive)
    BY <1>3, <1>11, ReadInv DEF Reader, ReaderStep
  <2> QED
    BY <1>1, <1>4, <1>11, <2>1 DEF Reader
<1>12. CASE (WriterKilled \/ Break) /\ UNCHANGED loopVars
  BY <1>1, <1>3, <1>4, <1>12
<1>13. CASE UNCHANGED vars
  BY <1>1, <1>2, <1>4, <1>13 DEF vars
<1> QED
  BY <1>5, <1>6, <1>7, <1>8, <1>9, <1>10, <1>11, <1>12, <1>13 DEF Next

LEMMA Invariant == Spec => []IInv
BY InitInv, NextInv, PTL DEF Spec

\* Every variable of the emission loop and of the link keeps its type, for every
\* number of relays, queue depth and frame size.
THEOREM PathTypeCorrect == Spec => []TypeOK
BY Invariant, InvEnough, PTL

\* Whatever the sizes of frames and reads and whatever lengths payload bytes
\* spell: no frame is returned twice or out of order, and as long as no read goes
\* past a frame recv_frames returns exactly what was written (direct.rs:46-65).
THEOREM FramesAreSound == Spec => []FramesSound
BY Invariant, InvEnough, PTL

\* However many relays there are and however often a symbol is scheduled again, no
\* relay carries more than another but for one turn, the dispatches that met a
\* relay without room, and, the first relay only, the symbols the direct link did
\* not take (scheduler.rs:37-46, session.rs:296, 303, 310).
THEOREM RelaysTakeTurns == Spec => []RelaysBalanced
BY Invariant, InvEnough, PTL

\* Whatever the precision, the number of symbols and the bandwidths: every second
\* one of the first 2^Precision symbols is the direct link's, queued there or taken
\* over by a relay; the relays get the requested share up to one symbol as long as
\* every product is exact; and a link that is given up is dead (scheduler.rs:4-6,
\* 41-43, session.rs:290-303).
THEOREM SplitIsKept == Spec => []SplitKept
BY Invariant, InvEnough, PTL
=============================================================================
