-------------------------- MODULE RelayFlowProofs --------------------------
(***************************************************************************)
(* What becomes of the data frames a relay routes, for every number of     *)
(* connections, every capacity and every failure of the clients: no frame  *)
(* is duplicated, none is lost while its session is undisturbed, none is   *)
(* kept or forwarded after READY, and what a receiver gets is in order.    *)
(***************************************************************************)
EXTENDS RelayProofs

-----------------------------------------------------------------------------
(* Families of queues: one queue of frames per connection. *)

IsData(f) == f.type \in DataTypes
Families == [Conns -> Seq(Frames)]

\* The data frames in the queues of a family, and in one queue.
InQueue(q) == {f \in {q[i] : i \in DOMAIN q} : IsData(f)}
InFamily(F) == UNION {InQueue(F[c]) : c \in Conns}

\* No data frame is there twice.
Distinct(q) == \A i, j \in DOMAIN q : IsData(q[i]) /\ q[i] = q[j] => i = j
Once(F) ==
    /\ \A c \in Conns : Distinct(F[c])
    /\ \A c, d \in Conns : c # d => InQueue(F[c]) \cap InQueue(F[d]) = {}

-----------------------------------------------------------------------------
(* The invariant. *)

\* The frames of the sends the handlers still have to make.
FramesOf(ss) == [i \in DOMAIN ss |-> ss[i].frame]
Pending == [c \in Conns |-> FramesOf(todo[c])]

Held == InQueue(buffer) \cup InFamily(Pending) \cup InFamily(chan) \cup InFamily(got)

\* The data frames on c's wire q are in the order c wrote them, n so far.
Wire(c, q, n) ==
    \A i \in DOMAIN q : IsData(q[i]) =>
        /\ q[i].from = c /\ q[i].pos < n
        /\ \A j \in DOMAIN q : i < j /\ IsData(q[j]) => q[i].pos < q[j].pos

\* f was written before what is on the wire now.
Earlier(f, q, n) ==
    /\ IsData(f) /\ f.pos < n
    /\ \A i \in DOMAIN q : IsData(q[i]) => f.pos < q[i].pos

\* No data frame is routed twice: a wire has each once, and never again.
Fresh ==
    /\ \A c \in Conns : Wire(c, inq[c], sent[c])
    /\ \A k \in DOMAIN routed : Earlier(routed[k], inq[routed[k].from], sent[routed[k].from])
    /\ Distinct(routed)

\* Four places have nothing in common.
Apart(B, T, C, G) == /\ B \cap T = {} /\ B \cap C = {} /\ B \cap G = {}
                     /\ T \cap C = {} /\ T \cap G = {} /\ C \cap G = {}

\* Every copy of a frame is the only one.
Conserved ==
    /\ Held \subseteq InQueue(routed)
    /\ Distinct(buffer) /\ Once(Pending) /\ Once(chan) /\ Once(got)
    /\ Apart(InQueue(buffer), InFamily(Pending), InFamily(chan), InFamily(got))

\* A handler has sends to make only while it makes them, and sends data to
\* receivers only; what waits for the second lock is no data.
TidyHandler(h, ss) ==
    /\ h \notin {"sending", "direct"} => ss = <<>>
    /\ h = "direct" => InQueue(FramesOf(ss)) = {}
    /\ \A i \in DOMAIN ss : IsData(ss[i].frame) => ss[i].to \in Receivers
Lacks(q, types) == \A i \in DOMAIN q : q[i].type \notin types
Tidy ==
    /\ \A c \in Conns : TidyHandler(handler[c], todo[c])
    /\ \A c \in Conns \ Receivers : InQueue(chan[c]) = {}
    /\ pendingDirect # NoFrame => pendingDirect.type = "Direct"
    /\ Aborters = {} => \A c \in Conns : Lacks(inq[c], {"Done"})

\* The handler of a connection starts when its client connects.
Idle == \A c \in Conns : client[c] = "new" => handler[c] = "idle"

\* No receiver has finished or failed, and no sender may end the session.
Quiet == Aborters = {} /\ \A r \in Receivers : client[r] \in {"new", "up"}
ReceiversUp ==
    /\ ~receiverDone
    /\ \A r \in Receivers :
          /\ handler[r] \notin {"leaving", "left", "closed", "aborted"} /\ sink[r] = "run"
          /\ Lacks(inq[r], {"Ready", "Close", "Bad"})
Calm == Quiet /\ ReceiversUp
Lossless == Quiet => InQueue(routed) \subseteq evicted \cup Held

\* What was routed after READY is nowhere.
Barred == readyAt >= 0 => \A i \in (readyAt + 1) .. Len(routed) : routed[i] \notin Held

-----------------------------------------------------------------------------
(* Queues. *)

\* What is in a queue.
LEMMA QueueItems ==
    ASSUME NEW q \in Seq(Frames), NEW f
    PROVE  f \in InQueue(q) <=> IsData(f) /\ \E i \in 1 .. Len(q) : q[i] = f
BY DEF InQueue

\* An empty queue holds nothing.
LEMMA NothingQueued == InQueue(<<>>) = {} /\ Distinct(<<>>)
BY DEF InQueue, Distinct

\* Taking the head.
LEMMA QueueTail ==
    ASSUME NEW q \in Seq(Frames), q # <<>>, Distinct(q)
    PROVE  /\ Distinct(Tail(q)) /\ InQueue(Tail(q)) = InQueue(q) \ {Head(q)}
           /\ IsData(Head(q)) => Head(q) \in InQueue(q)
<1>1. /\ Len(q) \in Nat /\ Len(q) > 0 /\ Head(q) = q[1]
      /\ Tail(q) \in Seq(Frames) /\ Len(Tail(q)) = Len(q) - 1
      /\ \A i \in 1 .. (Len(q) - 1) : Tail(q)[i] = q[i + 1]
      /\ \A i \in 1 .. Len(q) : i # 1 => i - 1 \in 1 .. (Len(q) - 1) /\ Tail(q)[i - 1] = q[i]
  OBVIOUS
<1>2. \A i, j \in 1 .. Len(q) : IsData(q[i]) /\ q[i] = q[j] => i = j
  BY DEF Distinct
<1>3. \A i, j \in 1 .. (Len(q) - 1) : IsData(Tail(q)[i]) /\ Tail(q)[i] = Tail(q)[j] => i = j
  <2> SUFFICES ASSUME NEW i \in 1 .. (Len(q) - 1), NEW j \in 1 .. (Len(q) - 1),
                      IsData(Tail(q)[i]), Tail(q)[i] = Tail(q)[j]
               PROVE  i = j
    OBVIOUS
  <2>1. i + 1 \in 1 .. Len(q) /\ j + 1 \in 1 .. Len(q)
    BY <1>1
  <2>2. i + 1 = j + 1
    BY <1>1, <1>2, <2>1
  <2> QED
    BY <2>2
<1>4. ASSUME NEW f PROVE f \in InQueue(Tail(q)) <=> f \in InQueue(q) /\ f # Head(q)
  <2>1. ASSUME f \in InQueue(Tail(q)) PROVE f \in InQueue(q) /\ f # Head(q)
    <3>4. Tail(q) \in Seq(Frames) /\ Len(Tail(q)) = Len(q) - 1
      BY <1>1
    <3>1. PICK i \in 1 .. (Len(q) - 1) : Tail(q)[i] = f /\ IsData(f)
      BY <2>1, <3>4, QueueItems
    <3>2. i + 1 \in 1 .. Len(q) /\ i + 1 # 1 /\ q[i + 1] = f /\ 1 \in 1 .. Len(q)
      BY <1>1, <3>1
    <3>3. f # Head(q)
      <4> SUFFICES ASSUME q[1] = f PROVE FALSE
        BY <1>1
      <4>1. i + 1 = 1
        BY <1>2, <3>1, <3>2
      <4> QED
        BY <3>2, <4>1
    <3> QED
      BY <3>1, <3>2, <3>3, QueueItems
  <2>2. ASSUME f \in InQueue(q), f # Head(q) PROVE f \in InQueue(Tail(q))
    <3>1. PICK i \in 1 .. Len(q) : q[i] = f /\ IsData(f)
      BY <2>2, QueueItems
    <3>2. i - 1 \in 1 .. (Len(q) - 1) /\ Tail(q)[i - 1] = f
      BY <1>1, <2>2, <3>1
    <3> QED
      BY <1>1, <3>1, <3>2, QueueItems
  <2> QED
    BY <2>1, <2>2
<1>5. DOMAIN Tail(q) = 1 .. (Len(q) - 1)
  BY <1>1
<1>6. Distinct(Tail(q))
  BY <1>3, <1>5 DEF Distinct
<1>7. IsData(Head(q)) => Head(q) \in InQueue(q)
  BY <1>1 DEF InQueue
<1> QED
  BY <1>4, <1>6, <1>7

\* Appending a frame that is not there.
LEMMA QueueAppend ==
    ASSUME NEW q \in Seq(Frames), NEW f \in Frames, f \notin InQueue(q), Distinct(q)
    PROVE  /\ Distinct(Append(q, f))
           /\ InQueue(Append(q, f)) = InQueue(q) \cup {g \in {f} : IsData(g)}
<1> DEFINE t == Append(q, f)
           n == Len(q)
<1>1. /\ t \in Seq(Frames) /\ Len(t) = n + 1 /\ n \in Nat /\ t[n + 1] = f
      /\ \A i \in 1 .. n : t[i] = q[i]
  OBVIOUS
<1>2. \A i, j \in 1 .. n : IsData(q[i]) /\ q[i] = q[j] => i = j
  BY DEF Distinct
<1>3. \A i \in 1 .. n : IsData(q[i]) => q[i] # f
  BY QueueItems
<1> HIDE DEF t, n
<1>4. DOMAIN t = 1 .. (n + 1)
  BY <1>1
<1>5. \A i \in 1 .. (n + 1) : i \in 1 .. n \/ i = n + 1
  BY <1>1
<1>6. Distinct(t)
  <2> SUFFICES ASSUME NEW i \in 1 .. (n + 1), NEW j \in 1 .. (n + 1), IsData(t[i]), t[i] = t[j]
               PROVE  i = j
    BY <1>4 DEF Distinct
  <2>1. CASE i \in 1 .. n /\ j \in 1 .. n
    BY <1>1, <1>2, <2>1
  <2>2. CASE i = n + 1 /\ j \in 1 .. n
    BY <1>1, <1>3, <2>2
  <2>3. CASE i \in 1 .. n /\ j = n + 1
    BY <1>1, <1>3, <2>3
  <2> QED
    BY <1>5, <2>1, <2>2, <2>3
<1>7. ASSUME NEW g PROVE g \in InQueue(t) <=> g \in InQueue(q) \/ (g = f /\ IsData(g))
  <2>1. g \in InQueue(t) <=> IsData(g) /\ \E i \in 1 .. (n + 1) : t[i] = g
    BY <1>1, QueueItems
  <2>2. g \in InQueue(q) <=> IsData(g) /\ \E i \in 1 .. n : q[i] = g
    BY QueueItems DEF n
  <2>3. (\E i \in 1 .. (n + 1) : t[i] = g) <=> (\E i \in 1 .. n : q[i] = g) \/ g = f
    <3>1. n + 1 \in 1 .. (n + 1) /\ \A i \in 1 .. n : i \in 1 .. (n + 1)
      BY <1>1
    <3> QED
      BY <1>1, <1>5, <3>1
  <2> QED
    BY <2>1, <2>2, <2>3
<1> QED
  BY <1>6, <1>7 DEF t

\* Dropping the oldest frames.
LEMMA QueueSuffix ==
    ASSUME NEW q \in Seq(Frames), NEW k \in 0 .. Len(q), Distinct(q)
    PROVE  LET t == SubSeq(q, k + 1, Len(q)) IN
           /\ Distinct(t) /\ t \in Seq(Frames) /\ InQueue(t) \subseteq InQueue(q)
           /\ InQueue(q) \subseteq {q[i] : i \in 1 .. k} \cup InQueue(t)
<1> DEFINE t == SubSeq(q, k + 1, Len(q))
           n == Len(q)
<1>1. /\ t \in Seq(Frames) /\ n \in Nat /\ Len(t) = n - k /\ k \in Nat /\ k <= n
      /\ \A i \in 1 .. (n - k) : t[i] = q[k + i]
  OBVIOUS
<1>2. \A i, j \in 1 .. n : IsData(q[i]) /\ q[i] = q[j] => i = j
  BY DEF Distinct
<1>3. \A f : f \in InQueue(q) <=> IsData(f) /\ \E i \in 1 .. n : q[i] = f
  BY QueueItems
<1> HIDE DEF t, n
<1>4. \A f : f \in InQueue(t) <=> IsData(f) /\ \E i \in 1 .. (n - k) : t[i] = f
  BY <1>1, QueueItems
<1>5. DOMAIN t = 1 .. (n - k) /\ \A i \in 1 .. (n - k) : k + i \in 1 .. n
  BY <1>1
<1>6. Distinct(t)
  <2> SUFFICES ASSUME NEW i \in 1 .. (n - k), NEW j \in 1 .. (n - k), IsData(t[i]), t[i] = t[j]
               PROVE  i = j
    BY <1>5 DEF Distinct
  <2>1. k + i = k + j
    BY <1>1, <1>2, <1>5
  <2> QED
    BY <1>1, <2>1
<1>7. InQueue(t) \subseteq InQueue(q)
  BY <1>1, <1>3, <1>4, <1>5
<1>8. InQueue(q) \subseteq {q[i] : i \in 1 .. k} \cup InQueue(t)
  <2> SUFFICES ASSUME NEW i \in 1 .. n, IsData(q[i]), ~(i \in 1 .. k) PROVE q[i] \in InQueue(t)
    BY <1>3
  <2>1. i - k \in 1 .. (n - k) /\ k + (i - k) = i
    BY <1>1
  <2> QED
    BY <1>1, <1>4, <2>1
<1> QED
  BY <1>1, <1>6, <1>7, <1>8 DEF t, n

-----------------------------------------------------------------------------
(* Families. *)

\* Replacing one queue.
LEMMA FamilySet ==
    ASSUME NEW F \in Families, Once(F), NEW c \in Conns, NEW q \in Seq(Frames), Distinct(q),
           InQueue(q) \cap InFamily(F) \subseteq InQueue(F[c])
    PROVE  LET G == [F EXCEPT ![c] = q] IN
           /\ G \in Families /\ Once(G)
           /\ InFamily(G) = (InFamily(F) \ InQueue(F[c])) \cup InQueue(q)
<1> DEFINE G == [F EXCEPT ![c] = q]
<1>1. G \in Families /\ G[c] = q /\ \A d \in Conns \ {c} : G[d] = F[d]
  BY DEF Families
<1>2. \A d \in Conns : InQueue(F[d]) \subseteq InFamily(F)
  BY DEF InFamily
<1>3. \A d \in Conns \ {c} : InQueue(F[d]) \cap InQueue(F[c]) = {}
  BY DEF Once
<1>4. \A d \in Conns \ {c} : InQueue(F[d]) \cap InQueue(q) = {}
  BY <1>2, <1>3
<1> HIDE DEF G
<1>5. Once(G)
  <2>1. \A d \in Conns : Distinct(G[d])
    BY <1>1, Zenon DEF Once
  <2>2. ASSUME NEW a \in Conns, NEW b \in Conns, a # b
        PROVE  InQueue(G[a]) \cap InQueue(G[b]) = {}
    <3>1. CASE a = c
      BY <1>1, <1>4, <2>2, <3>1
    <3>2. CASE b = c
      BY <1>1, <1>4, <2>2, <3>2
    <3>3. CASE a # c /\ b # c
      BY <1>1, <2>2, <3>3 DEF Once
    <3> QED
      BY <3>1, <3>2, <3>3
  <2> QED
    BY <2>1, <2>2 DEF Once
<1>6. ASSUME NEW f PROVE f \in InFamily(G) <=> (f \in InFamily(F) /\ f \notin InQueue(F[c])) \/ f \in InQueue(q)
  <2>1. f \in InFamily(G) <=> \E d \in Conns : f \in InQueue(G[d])
    BY DEF InFamily
  <2>2. f \in InFamily(F) <=> \E d \in Conns : f \in InQueue(F[d])
    BY DEF InFamily
  <2> QED
    BY <1>1, <1>3, <2>1, <2>2
<1>7. InFamily(G) = (InFamily(F) \ InQueue(F[c])) \cup InQueue(q)
  BY <1>6
<1> QED
  BY <1>1, <1>5, <1>7 DEF G

\* Taking the head of one queue.
LEMMA FamilyTail ==
    ASSUME NEW F \in Families, Once(F), NEW c \in Conns, F[c] # <<>>
    PROVE  LET G == [F EXCEPT ![c] = Tail(F[c])] IN
           /\ G \in Families /\ Once(G)
           /\ InFamily(G) = InFamily(F) \ {Head(F[c])}
           /\ IsData(Head(F[c])) => Head(F[c]) \in InFamily(F)
<1>1. F[c] \in Seq(Frames) /\ Distinct(F[c]) /\ Tail(F[c]) \in Seq(Frames)
  BY DEF Families, Once
<1>2. /\ Distinct(Tail(F[c])) /\ InQueue(Tail(F[c])) = InQueue(F[c]) \ {Head(F[c])}
      /\ IsData(Head(F[c])) => Head(F[c]) \in InQueue(F[c])
  BY <1>1, QueueTail
<1>3. InQueue(F[c]) \subseteq InFamily(F)
  BY DEF InFamily
<1>4. \A f \in InFamily(F) : IsData(f)
  BY DEF InFamily, InQueue
<1> DEFINE G == [F EXCEPT ![c] = Tail(F[c])]
<1>5. /\ G \in Families /\ Once(G)
      /\ InFamily(G) = (InFamily(F) \ InQueue(F[c])) \cup InQueue(Tail(F[c]))
  BY <1>1, <1>2, <1>3, FamilySet
<1> HIDE DEF G
<1>6. Head(F[c]) \in InFamily(F) => Head(F[c]) \in InQueue(F[c])
  <2>1. 1 \in DOMAIN F[c] /\ F[c][1] = Head(F[c])
    BY <1>1
  <2> QED
    BY <1>4, <2>1 DEF InQueue
<1>7. InFamily(G) = InFamily(F) \ {Head(F[c])}
  BY <1>2, <1>3, <1>5, <1>6
<1> QED
  BY <1>2, <1>3, <1>5, <1>7 DEF G

\* Appending to one queue a frame that is in none.
LEMMA FamilyAppend ==
    ASSUME NEW F \in Families, Once(F), NEW c \in Conns, NEW f \in Frames, f \notin InFamily(F)
    PROVE  LET G == [F EXCEPT ![c] = Append(F[c], f)] IN
           /\ G \in Families /\ Once(G)
           /\ InFamily(G) = InFamily(F) \cup {g \in {f} : IsData(g)}
<1>6. F[c] \in Seq(Frames) /\ Distinct(F[c]) /\ InQueue(F[c]) \subseteq InFamily(F)
  BY DEF Families, Once, InFamily
<1>1. /\ F[c] \in Seq(Frames) /\ Distinct(F[c]) /\ Append(F[c], f) \in Seq(Frames)
      /\ InQueue(F[c]) \subseteq InFamily(F) /\ f \notin InQueue(F[c])
  BY <1>6, QueueTypes
<1>2. /\ Distinct(Append(F[c], f))
      /\ InQueue(Append(F[c], f)) = InQueue(F[c]) \cup {g \in {f} : IsData(g)}
  BY <1>1, QueueAppend
<1>5. InQueue(Append(F[c], f)) \cap InFamily(F) \subseteq InQueue(F[c])
  BY <1>2
<1> DEFINE G == [F EXCEPT ![c] = Append(F[c], f)]
<1>3. /\ G \in Families /\ Once(G)
      /\ InFamily(G) = (InFamily(F) \ InQueue(F[c])) \cup InQueue(Append(F[c], f))
  BY <1>1, <1>2, <1>5, FamilySet
<1> HIDE DEF G
<1>4. InFamily(G) = InFamily(F) \cup {g \in {f} : IsData(g)}
  BY <1>1, <1>2, <1>3
<1> QED
  BY <1>3, <1>4 DEF G

\* Emptying one queue.
LEMMA FamilyEmpty ==
    ASSUME NEW F \in Families, Once(F), NEW c \in Conns
    PROVE  LET G == [F EXCEPT ![c] = <<>>] IN
           G \in Families /\ Once(G) /\ InFamily(G) = InFamily(F) \ InQueue(F[c])
<1>1. <<>> \in Seq(Frames) /\ InQueue(<<>>) = {} /\ Distinct(<<>>)
  BY NothingQueued, EmptyQueue
<1>2. InQueue(<<>>) \cap InFamily(F) \subseteq InQueue(F[c])
  BY <1>1
<1> DEFINE G == [F EXCEPT ![c] = <<>>]
<1>3. /\ G \in Families /\ Once(G)
      /\ InFamily(G) = (InFamily(F) \ InQueue(F[c])) \cup InQueue(<<>>)
  BY <1>1, <1>2, FamilySet
<1> HIDE DEF G
<1> QED
  BY <1>1, <1>3 DEF G

-----------------------------------------------------------------------------
(* The wires. *)

\* How a wire may change: it stays in order, and after what was routed of it.
WireMoves(c, q, n, p, m) ==
    /\ Wire(c, q, n) => Wire(c, p, m)
    /\ \A f \in Frames : Earlier(f, q, n) => Earlier(f, p, m)

\* It may become empty.
LEMMA WireEmpty == \A c, q, n : WireMoves(c, q, n, <<>>, n)
BY DEF WireMoves, Wire, Earlier

\* Its head may be read; it was written before the rest.
LEMMA WireTail ==
    ASSUME NEW c, NEW q \in Seq(Frames), q # <<>>, NEW n \in Nat
    PROVE  /\ WireMoves(c, q, n, Tail(q), n)
           /\ Wire(c, q, n) /\ IsData(Head(q)) => Head(q).from = c /\ Earlier(Head(q), Tail(q), n)
           /\ \A f \in Frames : Earlier(f, q, n) /\ IsData(Head(q)) => f # Head(q)
<1> DEFINE t == Tail(q)
<1>1. /\ Len(q) \in Nat /\ Len(q) > 0 /\ Head(q) = q[1] /\ 1 \in DOMAIN q
      /\ \A i \in DOMAIN t : i + 1 \in DOMAIN q /\ t[i] = q[i + 1] /\ i \in Nat /\ i >= 1
      /\ \A i \in DOMAIN q : q[i] \in Frames
  OBVIOUS
<1> HIDE DEF t
<1>2. ASSUME Wire(c, q, n) PROVE Wire(c, t, n)
  <2> SUFFICES ASSUME NEW i \in DOMAIN t, IsData(t[i])
               PROVE  /\ t[i].from = c /\ t[i].pos < n
                      /\ \A j \in DOMAIN t : i < j /\ IsData(t[j]) => t[i].pos < t[j].pos
    BY DEF Wire
  <2>1. i + 1 \in DOMAIN q /\ t[i] = q[i + 1] /\ IsData(q[i + 1])
    BY <1>1
  <2>2. t[i].from = c /\ t[i].pos < n
    BY <1>2, <2>1 DEF Wire
  <2>3. ASSUME NEW j \in DOMAIN t, i < j, IsData(t[j]) PROVE t[i].pos < t[j].pos
    <3>1. j + 1 \in DOMAIN q /\ t[j] = q[j + 1] /\ IsData(q[j + 1]) /\ i + 1 < j + 1
      BY <1>1, <2>3
    <3> QED
      BY <1>2, <2>1, <3>1 DEF Wire
  <2> QED
    BY <2>2, <2>3
<1>3. ASSUME NEW f \in Frames, Earlier(f, q, n) PROVE Earlier(f, t, n)
  BY <1>1, <1>3 DEF Earlier
<1>4. ASSUME Wire(c, q, n), IsData(Head(q))
      PROVE  Head(q).from = c /\ Earlier(Head(q), t, n)
  <2>1. q[1].from = c /\ q[1].pos < n
    BY <1>1, <1>4 DEF Wire
  <2>2. ASSUME NEW i \in DOMAIN t, IsData(t[i]) PROVE q[1].pos < t[i].pos
    <3>1. i + 1 \in DOMAIN q /\ t[i] = q[i + 1] /\ 1 < i + 1
      BY <1>1
    <3> QED
      BY <1>1, <1>4, <2>2, <3>1 DEF Wire
  <2> QED
    BY <1>1, <1>4, <2>1, <2>2 DEF Earlier
<1>5. ASSUME NEW f \in Frames, Earlier(f, q, n), IsData(Head(q)) PROVE f # Head(q)
  <2>1. f.pos < q[1].pos /\ f.pos \in Nat
    BY <1>1, <1>5 DEF Earlier, Frames
  <2> QED
    BY <1>1, <2>1
<1> QED
  BY <1>2, <1>3, <1>4, <1>5 DEF WireMoves, t

\* A frame may be written: not a data frame, or the sender's next one.
LEMMA WireAppend ==
    ASSUME NEW c, NEW q \in Seq(Frames), NEW n \in Nat, NEW g \in Frames,
           NEW m \in {n, n + 1}, IsData(g) => g.from = c /\ g.pos = n /\ m = n + 1
    PROVE  WireMoves(c, q, n, Append(q, g), m)
<1> DEFINE t == Append(q, g)
           k == Len(q)
<1>1. /\ k \in Nat /\ DOMAIN q = 1 .. k /\ DOMAIN t = 1 .. (k + 1) /\ t[k + 1] = g
      /\ \A i \in 1 .. k : t[i] = q[i] /\ q[i] \in Frames
  OBVIOUS
<1> HIDE DEF t, k
<1>2. \A i \in 1 .. (k + 1) : i \in 1 .. k \/ i = k + 1
  BY <1>1
<1>3. n <= m /\ m \in Nat
  OBVIOUS
<1>4. ASSUME NEW f \in Frames, Earlier(f, q, n) PROVE Earlier(f, t, m)
  <2>1. IsData(f) /\ f.pos < n /\ f.pos \in Nat
    BY <1>4 DEF Earlier, Frames
  <2>2. ASSUME NEW i \in 1 .. (k + 1), IsData(t[i]) PROVE f.pos < t[i].pos
    <3>1. CASE i \in 1 .. k
      BY <1>1, <1>4, <2>2, <3>1 DEF Earlier
    <3>2. CASE i = k + 1
      BY <1>1, <2>1, <2>2, <3>2
    <3> QED
      BY <1>2, <3>1, <3>2
  <2> QED
    BY <1>1, <1>3, <2>1, <2>2 DEF Earlier
<1>5. ASSUME Wire(c, q, n) PROVE Wire(c, t, m)
  <2>1. ASSUME NEW i \in 1 .. k, IsData(q[i])
        PROVE  /\ q[i].from = c /\ q[i].pos < n /\ q[i].pos \in Nat
               /\ \A j \in 1 .. k : i < j /\ IsData(q[j]) => q[i].pos < q[j].pos
    BY <1>1, <1>5, <2>1 DEF Wire, Frames
  <2>2. ASSUME NEW i \in 1 .. (k + 1), IsData(t[i]) PROVE t[i].from = c /\ t[i].pos < m
    <3>1. CASE i \in 1 .. k
      BY <1>1, <1>3, <2>1, <2>2, <3>1
    <3>2. CASE i = k + 1
      BY <1>1, <2>2, <3>2
    <3> QED
      BY <1>2, <3>1, <3>2
  <2>3. ASSUME NEW i \in 1 .. (k + 1), NEW j \in 1 .. (k + 1), i < j, IsData(t[i]), IsData(t[j])
        PROVE  t[i].pos < t[j].pos
    <3>1. i \in 1 .. k /\ t[i] = q[i]
      BY <1>1, <2>3
    <3>2. CASE j \in 1 .. k
      BY <1>1, <2>1, <2>3, <3>1, <3>2
    <3>3. CASE j = k + 1
      BY <1>1, <2>1, <2>3, <3>1, <3>3
    <3> QED
      BY <1>2, <3>2, <3>3
  <2> QED
    BY <1>1, <2>2, <2>3 DEF Wire
<1> QED
  BY <1>4, <1>5 DEF WireMoves, t

\* A step that moves one wire, and routes nothing.
LEMMA FreshKept ==
    ASSUME TypeOK, Fresh, routed' = routed, NEW c \in Conns,
           \A d \in Conns \ {c} : inq'[d] = inq[d] /\ sent'[d] = sent[d],
           WireMoves(c, inq[c], sent[c], inq'[c], sent'[c])
    PROVE  Fresh'
<1>1. \A d \in Conns : Wire(d, inq'[d], sent'[d])
  <2> SUFFICES ASSUME NEW d \in Conns PROVE Wire(d, inq'[d], sent'[d])
    OBVIOUS
  <2>1. Wire(d, inq[d], sent[d])
    BY DEF Fresh
  <2>2. CASE d = c
    BY <2>1, <2>2 DEF WireMoves
  <2>3. CASE d # c
    BY <2>1, <2>3
  <2> QED
    BY <2>2, <2>3
<1>2. ASSUME NEW f \in Frames, Earlier(f, inq[f.from], sent[f.from])
      PROVE  Earlier(f, inq'[f.from], sent'[f.from])
  <2>1. f.from \in Conns
    BY DEF Frames
  <2>2. CASE f.from = c
    BY <1>2, <2>2 DEF WireMoves
  <2>3. CASE f.from # c
    BY <1>2, <2>1, <2>3
  <2> QED
    BY <2>2, <2>3
<1>3. \A k \in DOMAIN routed : routed[k] \in Frames
  BY DEF TypeOK
<1>4. \A k \in DOMAIN routed' : Earlier(routed'[k], inq'[routed'[k].from], sent'[routed'[k].from])
  BY <1>2, <1>3 DEF Fresh
<1> QED
  BY <1>1, <1>4 DEF Fresh

\* The clients write their data frames in order, each once.
LEMMA FreshClient == ASSUME TypeOK, Fresh, ClientStep PROVE Fresh'
<1> USE DEF roomVars, connVars, histVars
<1>1. ASSUME NEW c \in Conns PROVE inq[c] \in Seq(Frames) /\ sent[c] \in Nat
  BY DEF TypeOK
<1>2. ASSUME NEW c \in Conns, NEW f \in Frames, inq' = [inq EXCEPT ![c] = Append(@, f)],
             routed' = routed,
             \/ ~IsData(f) /\ (sent' = sent \/ sent' = [sent EXCEPT ![c] = @ + 1])
             \/ f.from = c /\ f.pos = sent[c] /\ sent' = [sent EXCEPT ![c] = @ + 1]
      PROVE  Fresh'
  <2>1. \A d \in Conns \ {c} : inq'[d] = inq[d] /\ sent'[d] = sent[d]
    BY <1>2 DEF TypeOK
  <2>2. inq'[c] = Append(inq[c], f) /\ sent'[c] \in {sent[c], sent[c] + 1}
    BY <1>2 DEF TypeOK
  <2>3. IsData(f) => f.from = c /\ f.pos = sent[c] /\ sent'[c] = sent[c] + 1
    BY <1>2 DEF TypeOK
  <2>4. WireMoves(c, inq[c], sent[c], inq'[c], sent'[c])
    BY <1>1, <2>2, <2>3, WireAppend
  <2> QED
    BY <1>2, <2>1, <2>4, FreshKept
<1>3. ASSUME NEW c \in Conns, Vanish(c) PROVE Fresh'
  <2>1. PICK kept \in {inq[c], <<>>} : inq' = [inq EXCEPT ![c] = kept]
    BY <1>3, Zenon DEF Vanish
  <2>2. sent' = sent /\ routed' = routed
    BY <1>3, Zenon DEF Vanish
  <2>3. inq'[c] = kept /\ \A d \in Conns \ {c} : inq'[d] = inq[d] /\ sent'[d] = sent[d]
    BY <2>1, <2>2 DEF TypeOK
  <2>4. WireMoves(c, inq[c], sent[c], kept, sent[c])
    BY WireEmpty DEF WireMoves
  <2> QED
    BY <2>2, <2>3, <2>4, FreshKept
<1>4. ASSUME NEW c \in Conns, NEW t \in {"Hello", "Ready", "Close", "Done", "Bad"},
             inq' = [inq EXCEPT ![c] = Append(@, Frame(t, c, 0))], sent' = sent, routed' = routed
      PROVE  Fresh'
  <2>1. Frame(t, c, 0) \in Frames /\ ~IsData(Frame(t, c, 0))
    BY FrameType DEF Frame, IsData, DataTypes
  <2> QED
    BY <1>2, <1>4, <2>1
<1>5. ASSUME NEW s \in Senders, Emit(s) PROVE Fresh'
  <2> DEFINE t == IF sent[s] = 0 THEN "Meta" ELSE "Symbol"
  <2>1. s \in Conns /\ sent[s] \in Nat /\ t \in {"Meta", "Symbol"}
    BY DEF Conns, TypeOK
  <2>2. /\ inq' = [inq EXCEPT ![s] = Append(@, Frame(t, s, sent[s]))]
        /\ sent' = [sent EXCEPT ![s] = @ + 1] /\ routed' = routed
    BY <1>5 DEF Emit, Write
  <2> HIDE DEF t
  <2>3. /\ Frame(t, s, sent[s]) \in Frames
        /\ Frame(t, s, sent[s]).from = s /\ Frame(t, s, sent[s]).pos = sent[s]
    BY <2>1, FrameType DEF Frame
  <2> QED
    BY <1>2, <2>1, <2>2, <2>3
<1>6. ASSUME NEW r \in Receivers, Advertise(r) PROVE Fresh'
  <2>1. r \in Conns /\ sent[r] \in Nat
    BY DEF Conns, TypeOK
  <2>2. /\ inq' = [inq EXCEPT ![r] = Append(@, Frame("Direct", r, sent[r]))]
        /\ sent' = [sent EXCEPT ![r] = @ + 1] /\ routed' = routed
    BY <1>6 DEF Advertise, Write
  <2>3. Frame("Direct", r, sent[r]) \in Frames /\ ~IsData(Frame("Direct", r, sent[r]))
    BY <2>1, FrameType DEF Frame, IsData, DataTypes
  <2> QED
    BY <1>2, <2>1, <2>2, <2>3
<1>7. ASSUME NEW c \in Conns, Connect(c) \/ Acknowledge(c) \/ SendClose(c) \/ Abort(c) \/ SendBad(c)
      PROVE  Fresh'
  <2>1. \E t \in {"Hello", "Ready", "Close", "Done", "Bad"} :
            inq' = [inq EXCEPT ![c] = Append(@, Frame(t, c, 0))] /\ sent' = sent /\ routed' = routed
    BY <1>7, Zenon DEF Connect, Acknowledge, SendClose, Abort, SendBad, Write
  <2> QED
    BY <1>4, <2>1
<1>8. ASSUME NEW c \in Conns, Crash(c) \/ SenderExit(c) \/ Drained(c) PROVE Fresh'
  BY <1>3, <1>8, Zenon DEF Crash, SenderExit, Drained
<1> QED
  BY <1>5, <1>6, <1>7, <1>8, Zenon DEF ClientStep, Conns

\* The frame a handler reads was not routed before, and is routed in order.
LEMMA FreshRoute ==
    ASSUME TypeOK, Fresh, NEW s \in Senders, RouteData(s)
    PROVE  LET f == Head(inq[s]) IN
           /\ Fresh' /\ f \in Frames /\ IsData(f) /\ f.from = s /\ f \notin InQueue(routed)
           /\ routed' = Append(routed, f) /\ inq[s] # <<>> /\ handler[s] = "reading"
<1> DEFINE f == Head(inq[s])
<1>1. /\ s \in Conns /\ inq[s] \in Seq(Frames) /\ sent[s] \in Nat /\ routed \in Seq(Frames)
  BY DEF TypeOK, Conns
<1>2. /\ inq[s] # <<>> /\ f.type \in DataTypes /\ handler[s] = "reading"
      /\ inq' = [inq EXCEPT ![s] = Tail(@)] /\ sent' = sent /\ routed' = Append(routed, f)
  BY Zenon DEF RouteData, Read
<1>3. IsData(f) /\ f \in Frames
  BY <1>1, <1>2, QueueTypes DEF IsData
<1>4. /\ inq'[s] = Tail(inq[s]) /\ \A d \in Conns \ {s} : inq'[d] = inq[d]
  BY <1>1, <1>2 DEF TypeOK
<1>5. /\ WireMoves(s, inq[s], sent[s], Tail(inq[s]), sent[s])
      /\ f.from = s /\ Earlier(f, Tail(inq[s]), sent[s])
      /\ \A g \in Frames : Earlier(g, inq[s], sent[s]) => g # f
  <2>1. Wire(s, inq[s], sent[s])
    BY <1>1 DEF Fresh
  <2> QED
    BY <1>1, <1>2, <1>3, <2>1, WireTail
<1> HIDE DEF f
<1>6. \A d \in Conns : Wire(d, inq'[d], sent'[d])
  <2> SUFFICES ASSUME NEW d \in Conns PROVE Wire(d, inq'[d], sent'[d])
    OBVIOUS
  <2>1. Wire(d, inq[d], sent[d])
    BY DEF Fresh
  <2>2. CASE d = s
    BY <1>2, <1>4, <1>5, <2>1, <2>2 DEF WireMoves
  <2>3. CASE d # s
    BY <1>2, <1>4, <2>1, <2>3
  <2> QED
    BY <2>2, <2>3
<1>7. ASSUME NEW k \in DOMAIN routed
      PROVE  /\ routed[k] \in Frames /\ routed[k] # f
             /\ Earlier(routed[k], inq'[routed[k].from], sent'[routed[k].from])
  <2>5. routed[k] \in Frames
    BY <1>1
  <2>1. routed[k] \in Frames /\ routed[k].from \in Conns
    BY <2>5 DEF Frames
  <2>2. Earlier(routed[k], inq[routed[k].from], sent[routed[k].from])
    BY DEF Fresh
  <2>3. CASE routed[k].from = s
    BY <1>2, <1>4, <1>5, <2>1, <2>2, <2>3 DEF WireMoves
  <2>4. CASE routed[k].from # s
    BY <1>2, <1>4, <1>5, <2>1, <2>2, <2>4
  <2> QED
    BY <2>1, <2>3, <2>4
<1>8. f \notin InQueue(routed)
  BY <1>7 DEF InQueue
<1>9. Distinct(routed')
  BY <1>1, <1>2, <1>3, <1>8, QueueAppend DEF Fresh
<1>10. \A k \in DOMAIN routed' : routed'[k] = f \/ \E j \in DOMAIN routed : routed'[k] = routed[j]
  BY <1>1, <1>2, <1>3
<1>11. \A k \in DOMAIN routed' : Earlier(routed'[k], inq'[routed'[k].from], sent'[routed'[k].from])
  <2> SUFFICES ASSUME NEW k \in DOMAIN routed'
               PROVE  Earlier(routed'[k], inq'[routed'[k].from], sent'[routed'[k].from])
    OBVIOUS
  <2>1. CASE routed'[k] = f
    BY <1>2, <1>4, <1>5, <2>1
  <2>2. CASE \E j \in DOMAIN routed : routed'[k] = routed[j]
    BY <1>7, <2>2
  <2> QED
    BY <1>10, <2>1, <2>2
<1>12. Fresh'
  BY <1>6, <1>9, <1>11 DEF Fresh
<1> QED
  BY <1>2, <1>3, <1>5, <1>8, <1>12 DEF f

\* The other steps of the relay take frames off the wires, if at all.
LEMMA FreshRelay ==
    ASSUME TypeOK, Fresh, NEW c \in Conns, HandlerStep(c) \/ SinkStep(c)
    PROVE  Fresh'
<1> USE DEF roomVars, connVars, histVars
<1>1. CASE c \in Senders /\ RouteData(c)
  BY <1>1, FreshRoute
<1>2. CASE ~(c \in Senders /\ RouteData(c))
  <2>1. /\ sent' = sent /\ routed' = routed
        /\ inq' = inq \/ (inq[c] # <<>> /\ inq' = [inq EXCEPT ![c] = Tail(inq[c])])
    BY <1>2, Zenon
    DEF HandlerStep, SinkStep, RouteHelloSender, FlushDirect, RouteDone, RouteHelloReceiver, RouteReady,
        RouteDirect, RouteBad, SendNext, ReadClose, ReadEnd, LeaveRoom, AbortSink, Deliver,
        DeliverFails, SinkEnds, Read
  <2>2. inq[c] \in Seq(Frames) /\ sent[c] \in Nat
    BY DEF TypeOK
  <2>3. WireMoves(c, inq[c], sent[c], inq'[c], sent'[c])
    <3>1. CASE inq' = inq
      BY <2>1, <3>1 DEF WireMoves
    <3>2. CASE inq[c] # <<>> /\ inq' = [inq EXCEPT ![c] = Tail(inq[c])]
      <4>1. inq'[c] = Tail(inq[c]) /\ sent'[c] = sent[c]
        BY <2>1, <3>2 DEF TypeOK
      <4>2. WireMoves(c, inq[c], sent[c], Tail(inq[c]), sent[c])
        BY <2>2, <3>2, WireTail
      <4> QED
        BY <4>1, <4>2
    <3> QED
      BY <2>1, <3>1, <3>2
  <2>4. \A d \in Conns \ {c} : inq'[d] = inq[d] /\ sent'[d] = sent[d]
    BY <2>1 DEF TypeOK
  <2> QED
    BY <2>1, <2>3, <2>4, FreshKept
<1> QED
  BY <1>1, <1>2

LEMMA FreshStep == TypeOK /\ Fresh /\ [Next]_vars => Fresh'
<1> SUFFICES ASSUME TypeOK, Fresh, [Next]_vars PROVE Fresh'
  OBVIOUS
<1>1. CASE UNCHANGED vars
  BY <1>1, Zenon DEF vars, connVars, histVars, Fresh
<1> QED
  BY <1>1, FreshClient, FreshRelay, Zenon DEF Next

-----------------------------------------------------------------------------
(* The handlers' sends. *)

\* The frames of the sends, send by send.
LEMMA FramesOfSends ==
    /\ FramesOf(<<>>) = <<>>
    /\ \A d \in Conns \cup {NoConn} : \A f \in Frames : FramesOf(<<[to |-> d, frame |-> f]>>) = <<f>>
    /\ \A ss \in Seq(Sends) : FramesOf(ss) \in Seq(Frames) /\ (ss # <<>> => FramesOf(ss) # <<>>)
    /\ \A ss \in Seq(Sends) : ss # <<>> =>
          FramesOf(Tail(ss)) = Tail(FramesOf(ss)) /\ Head(FramesOf(ss)) = Head(ss).frame
<1>1. ASSUME NEW ss \in Seq(Sends)
      PROVE  /\ FramesOf(ss) \in Seq(Frames) /\ Len(FramesOf(ss)) = Len(ss)
             /\ \A i \in 1 .. Len(ss) : FramesOf(ss)[i] = ss[i].frame
  <2>1. DOMAIN ss = 1 .. Len(ss) /\ Len(ss) \in Nat /\ \A i \in 1 .. Len(ss) : ss[i] \in Sends
    OBVIOUS
  <2>2. \A i \in 1 .. Len(ss) : ss[i].frame \in Frames
    BY <2>1 DEF Sends
  <2>3. FramesOf(ss) = [i \in 1 .. Len(ss) |-> ss[i].frame]
    BY <2>1 DEF FramesOf
  <2> QED
    BY <2>1, <2>2, <2>3
<1>2. FramesOf(<<>>) = <<>>
  <2>1. <<>> \in Seq(Sends) /\ Len(<<>>) = 0
    OBVIOUS
  <2>2. FramesOf(<<>>) \in Seq(Frames) /\ Len(FramesOf(<<>>)) = 0
    BY <1>1, <2>1
  <2> QED
    BY <2>2
<1>3. ASSUME NEW d \in Conns \cup {NoConn}, NEW f \in Frames
      PROVE  FramesOf(<<[to |-> d, frame |-> f]>>) = <<f>>
  <2> DEFINE ss == <<[to |-> d, frame |-> f]>>
  <2>1. ss \in Seq(Sends) /\ Len(ss) = 1 /\ ss[1].frame = f
    BY SendType
  <2> HIDE DEF ss
  <2>2. FramesOf(ss) \in Seq(Frames) /\ Len(FramesOf(ss)) = 1 /\ FramesOf(ss)[1] = f
    BY <1>1, <2>1
  <2>3. FramesOf(ss) = <<f>>
    BY <2>2
  <2> QED
    BY <2>3 DEF ss
<1>4. ASSUME NEW ss \in Seq(Sends), ss # <<>>
      PROVE  /\ FramesOf(ss) # <<>>
             /\ FramesOf(Tail(ss)) = Tail(FramesOf(ss)) /\ Head(FramesOf(ss)) = Head(ss).frame
  <2> DEFINE t == Tail(ss)
  <2>1. /\ t \in Seq(Sends) /\ Len(t) = Len(ss) - 1 /\ Len(ss) \in Nat /\ Len(ss) > 0
        /\ \A i \in 1 .. (Len(ss) - 1) : t[i] = ss[i + 1] /\ i + 1 \in 1 .. Len(ss)
        /\ Head(ss) = ss[1]
    BY <1>4
  <2> HIDE DEF t
  <2>2. /\ FramesOf(t) \in Seq(Frames) /\ Len(FramesOf(t)) = Len(ss) - 1
        /\ \A i \in 1 .. (Len(ss) - 1) : FramesOf(t)[i] = t[i].frame
    BY <1>1, <2>1
  <2> DEFINE u == FramesOf(ss)
  <2>3. /\ u \in Seq(Frames) /\ Len(u) = Len(ss) /\ \A i \in 1 .. Len(ss) : u[i] = ss[i].frame
    BY <1>1
  <2> HIDE DEF u
  <2>4. u # <<>> /\ Head(u) = Head(ss).frame
    BY <2>1, <2>3
  <2>5. /\ Tail(u) \in Seq(Frames) /\ Len(Tail(u)) = Len(ss) - 1
        /\ \A i \in 1 .. (Len(ss) - 1) : Tail(u)[i] = u[i + 1]
    BY <2>1, <2>3
  <2>6. \A i \in 1 .. (Len(ss) - 1) : Tail(u)[i] = FramesOf(t)[i]
    BY <2>1, <2>2, <2>3, <2>5
  <2>7. FramesOf(t) = Tail(u)
    BY <2>1, <2>2, <2>5, <2>6
  <2> QED
    BY <2>4, <2>7 DEF t, u
<1> QED
  BY <1>1, <1>2, <1>3, <1>4

\* The flush is the buffer.
LEMMA FramesOfFlush == ASSUME TypeOK, NEW r \in Conns PROVE FramesOf(FlushSends(r)) = buffer
<1>1. buffer \in Seq(Frames) /\ DOMAIN buffer = 1 .. Len(buffer) /\ Len(buffer) \in Nat
  BY DEF TypeOK
<1>2. FramesOf(FlushSends(r)) = [i \in 1 .. Len(buffer) |-> buffer[i]]
  BY <1>1 DEF FramesOf, FlushSends
<1> QED
  BY <1>1, <1>2

\* The handlers' frames are a family of queues.
LEMMA PendingFamily ==
    ASSUME TypeOK
    PROVE  /\ Pending \in Families /\ chan \in Families /\ got \in Families
           /\ \A c \in Conns : Pending[c] = FramesOf(todo[c]) /\ todo[c] \in Seq(Sends)
<1>1. \A c \in Conns : todo[c] \in Seq(Sends)
  BY DEF TypeOK
<1>2. \A c \in Conns : FramesOf(todo[c]) \in Seq(Frames)
  BY <1>1, FramesOfSends
<1> QED
  BY <1>1, <1>2 DEF Pending, Families, TypeOK

\* Giving one handler other sends.
LEMMA PendingSet ==
    ASSUME TypeOK, NEW c \in Conns, NEW ss \in Seq(Sends), todo' = [todo EXCEPT ![c] = ss]
    PROVE  Pending' = [Pending EXCEPT ![c] = FramesOf(ss)]
<1>1. \A d \in Conns : FramesOf(todo'[d]) = IF d = c THEN FramesOf(ss) ELSE FramesOf(todo[d])
  BY DEF TypeOK
<1>2. Pending' = [d \in Conns |-> FramesOf(todo'[d])]
  BY DEF Pending
<1>3. [Pending EXCEPT ![c] = FramesOf(ss)]
        = [d \in Conns |-> IF d = c THEN FramesOf(ss) ELSE FramesOf(todo[d])]
  BY DEF Pending
<1> QED
  BY <1>1, <1>2, <1>3

-----------------------------------------------------------------------------
(* The clients' lives. *)

\* No client is new again, or up again.
LEMMA ClientLives ==
    ASSUME TypeOK, [Next]_vars, NEW c \in Conns
    PROVE  /\ client'[c] = "new" => client[c] = "new"
           /\ client'[c] \in {"new", "up"} => client[c] \in {"new", "up"}
<1> USE DEF roomVars, connVars, histVars
<1>1. CASE ~ClientStep
  <2>1. client' = client
    BY <1>1, Zenon
    DEF Next, vars, HandlerStep, SinkStep, RouteHelloSender, FlushDirect, RouteData, RouteDone,
        RouteHelloReceiver, RouteReady, RouteDirect, RouteBad, SendNext, ReadClose, ReadEnd, LeaveRoom,
        AbortSink, Deliver, DeliverFails, SinkEnds
  <2> QED
    BY <2>1
<1>2. ASSUME NEW d \in Conns,
             \/ Connect(d) \/ SendBad(d) \/ Crash(d) \/ Emit(d) \/ Abort(d) \/ SenderExit(d)
             \/ Acknowledge(d) \/ SendClose(d) \/ Drained(d)
      PROVE  /\ client'[c] = "new" => client[c] = "new"
             /\ client'[c] \in {"new", "up"} => client[c] \in {"new", "up"}
  <2>1. \E next \in {"up", "ready", "closing", "gone"} :
            client' = [client EXCEPT ![d] = next] /\ (next = "up" => client[d] \in {"new", "up"})
    BY <1>2, Zenon DEF Connect, SendBad, Crash, Emit, Abort, SenderExit, Acknowledge, SendClose,
                       Drained, Write, Vanish
  <2> QED
    BY <2>1 DEF TypeOK
<1>3. ASSUME NEW d \in Conns, Advertise(d) PROVE client' = client
  <2>1. client' = [client EXCEPT ![d] = client[d]]
    BY <1>3 DEF Advertise, Write
  <2> QED
    BY <2>1 DEF TypeOK
<1> QED
  BY <1>1, <1>2, <1>3, Zenon DEF ClientStep, Conns

\* Every step keeps the handlers of new clients idle.
LEMMA IdleStep == TypeOK /\ Idle /\ [Next]_vars => Idle'
<1> SUFFICES ASSUME TypeOK, Idle, [Next]_vars, NEW c \in Conns, client'[c] = "new"
             PROVE  handler'[c] = "idle"
  BY DEF Idle
<1> USE DEF roomVars, connVars, histVars
<1>1. client[c] = "new" /\ handler[c] = "idle"
  BY ClientLives DEF Idle
<1>2. CASE ClientStep
  <2>1. \/ handler' = handler
        \/ \E d \in Conns : /\ client' = [client EXCEPT ![d] = "up"]
                            /\ handler' = [handler EXCEPT ![d] = "reading"]
    BY <1>2, Zenon
    DEF ClientStep, Connect, SendBad, Crash, Emit, Abort, SenderExit, Advertise, Acknowledge, SendClose,
        Drained, Write, Vanish
  <2> QED
    BY <1>1, <2>1 DEF TypeOK
<1>3. ASSUME NEW d \in Conns, HandlerStep(d) PROVE handler'[c] = "idle"
  <2>1. handler[d] # "idle" /\ \E h : handler' = [handler EXCEPT ![d] = h]
    <3>1. handler[d] # "idle"
      BY <1>3 DEF HandlerStep, RouteHelloSender, FlushDirect, RouteData, RouteDone, RouteHelloReceiver,
          RouteReady, RouteDirect, RouteBad, SendNext, ReadClose, ReadEnd, LeaveRoom, AbortSink, Read
    <3>2. \E h : handler' = [handler EXCEPT ![d] = h]
      BY <1>3, Zenon DEF HandlerStep, RouteHelloSender, FlushDirect, RouteData, RouteDone,
          RouteHelloReceiver, RouteReady, RouteDirect, RouteBad, SendNext, ReadClose, ReadEnd,
          LeaveRoom, AbortSink, Then
    <3> QED
      BY <3>1, <3>2
  <2> QED
    BY <1>1, <2>1 DEF TypeOK
<1>4. ASSUME NEW d \in Conns, SinkStep(d) PROVE handler'[c] = "idle"
  BY <1>1, <1>4 DEF SinkStep, Deliver, DeliverFails, SinkEnds
<1>5. CASE UNCHANGED vars
  BY <1>1, <1>5 DEF vars
<1> QED
  BY <1>2, <1>3, <1>4, <1>5 DEF Next

-----------------------------------------------------------------------------
(* What a step may do to a wire. *)

\* Reading a wire leaves no frame of a type it lacked, and writing adds one.
LEMMA LacksMore ==
    ASSUME NEW q \in Seq(Frames), NEW types, Lacks(q, types)
    PROVE  /\ Lacks(<<>>, types) /\ (q # <<>> => Head(q).type \notin types /\ Lacks(Tail(q), types))
           /\ \A f \in Frames : f.type \notin types => Lacks(Append(q, f), types)
<1>1. Lacks(<<>>, types)
  BY DEF Lacks
<1>2. ASSUME q # <<>> PROVE Head(q).type \notin types /\ Lacks(Tail(q), types)
  <2>1. 1 \in DOMAIN q /\ Head(q) = q[1]
    BY <1>2
  <2>2. \A i \in DOMAIN Tail(q) : i + 1 \in DOMAIN q /\ Tail(q)[i] = q[i + 1]
    BY <1>2
  <2> QED
    BY <2>1, <2>2 DEF Lacks
<1>3. ASSUME NEW f \in Frames, f.type \notin types PROVE Lacks(Append(q, f), types)
  <2>1. \A i \in DOMAIN Append(q, f) : (i \in DOMAIN q /\ Append(q, f)[i] = q[i]) \/ Append(q, f)[i] = f
    OBVIOUS
  <2> QED
    BY <1>3, <2>1 DEF Lacks
<1> QED
  BY <1>1, <1>2, <1>3

\* A wire is read, purged or written to: a DONE by a connection that may abort,
\* READY, Close and what does not parse by one that then is no longer up.
WireStep(c) ==
    \/ inq'[c] \in {inq[c], <<>>}
    \/ inq[c] # <<>> /\ inq'[c] = Tail(inq[c])
    \/ \E f \in Frames : /\ inq'[c] = Append(inq[c], f)
                         /\ f.type = "Done" => Aborters # {}
                         /\ f.type \in {"Ready", "Close", "Bad"} => client'[c] \notin {"new", "up"}

\* Only the client of a connection writes its wire.
LEMMA ClientWires == ASSUME TypeOK, ClientStep, NEW c \in Conns PROVE WireStep(c)
<1> USE DEF roomVars, connVars, histVars
<1>1. ASSUME NEW d \in Conns, NEW f \in Frames, inq' = [inq EXCEPT ![d] = Append(@, f)],
             f.type = "Done" => Aborters # {},
             f.type \in {"Ready", "Close", "Bad"} => client'[d] \notin {"new", "up"}
      PROVE  WireStep(c)
  <2>1. inq'[c] = IF c = d THEN Append(inq[d], f) ELSE inq[c]
    BY <1>1 DEF TypeOK
  <2> QED
    BY <1>1, <2>1 DEF WireStep
<1>2. ASSUME NEW d \in Conns, Vanish(d) PROVE WireStep(c)
  <2>1. \E kept \in {inq[d], <<>>} : inq' = [inq EXCEPT ![d] = kept]
    BY <1>2, Zenon DEF Vanish
  <2>2. inq'[c] \in {inq[c], <<>>}
    BY <2>1 DEF TypeOK
  <2> QED
    BY <2>2 DEF WireStep
<1>3. ASSUME NEW d \in Conns, Crash(d) \/ SenderExit(d) \/ Drained(d) PROVE WireStep(c)
  BY <1>2, <1>3, Zenon DEF Crash, SenderExit, Drained
<1>4. ASSUME NEW d \in Conns, Connect(d) PROVE WireStep(c)
  <2>1. inq' = [inq EXCEPT ![d] = Append(@, Frame("Hello", d, 0))]
    BY <1>4 DEF Connect
  <2>2. Frame("Hello", d, 0) \in Frames /\ Frame("Hello", d, 0).type = "Hello"
    BY FrameType DEF Frame
  <2> QED
    BY <1>1, <2>1, <2>2
<1>5. ASSUME NEW d \in Conns, Acknowledge(d) \/ SendClose(d) \/ SendBad(d) PROVE WireStep(c)
  <2>1. \E t \in {"Ready", "Close", "Bad"} : \E next \in {"ready", "closing"} :
            inq' = [inq EXCEPT ![d] = Append(@, Frame(t, d, 0))] /\ client' = [client EXCEPT ![d] = next]
    BY <1>5, Zenon DEF Acknowledge, SendClose, SendBad, Write
  <2>2. PICK t \in {"Ready", "Close", "Bad"} : inq' = [inq EXCEPT ![d] = Append(@, Frame(t, d, 0))]
    BY <2>1, Zenon
  <2>3. client'[d] \notin {"new", "up"}
    BY <2>1 DEF TypeOK
  <2>4. Frame(t, d, 0) \in Frames /\ Frame(t, d, 0).type = t
    BY FrameType DEF Frame
  <2> QED
    BY <1>1, <2>2, <2>3, <2>4
<1>6. ASSUME NEW d \in Conns, Abort(d) PROVE WireStep(c)
  <2>1. inq' = [inq EXCEPT ![d] = Append(@, Frame("Done", d, 0))] /\ Aborters # {}
    BY <1>6, Zenon DEF Abort, Write
  <2>2. Frame("Done", d, 0) \in Frames /\ Frame("Done", d, 0).type = "Done"
    BY FrameType DEF Frame
  <2> QED
    BY <1>1, <2>1, <2>2
<1>7. ASSUME NEW d \in Conns, Emit(d) \/ Advertise(d) PROVE WireStep(c)
  <2>1. PICK t \in {"Meta", "Symbol", "Direct"} :
            inq' = [inq EXCEPT ![d] = Append(@, Frame(t, d, sent[d]))]
    <3>1. \E t \in {IF sent[d] = 0 THEN "Meta" ELSE "Symbol", "Direct"} :
              inq' = [inq EXCEPT ![d] = Append(@, Frame(t, d, sent[d]))]
      BY <1>7, Zenon DEF Emit, Advertise, Write
    <3> QED
      BY <3>1
  <2>2. sent[d] \in Nat
    BY DEF TypeOK
  <2>3. Frame(t, d, sent[d]) \in Frames /\ Frame(t, d, sent[d]).type = t
    BY <2>2, FrameType DEF Frame
  <2> QED
    BY <1>1, <2>1, <2>3
<1> QED
  BY <1>3, <1>4, <1>5, <1>6, <1>7, Zenon DEF ClientStep, Conns

LEMMA Wires == ASSUME TypeOK, Next, NEW c \in Conns PROVE WireStep(c)
<1> USE DEF roomVars, connVars, histVars
<1>1. ASSUME NEW d \in Conns, HandlerStep(d) \/ SinkStep(d) PROVE WireStep(c)
  <2>1. inq' = inq \/ (inq[d] # <<>> /\ inq' = [inq EXCEPT ![d] = Tail(inq[d])])
    BY <1>1, Zenon
    DEF HandlerStep, SinkStep, RouteHelloSender, FlushDirect, RouteData, RouteDone, RouteHelloReceiver,
        RouteReady, RouteDirect, RouteBad, SendNext, ReadClose, ReadEnd, LeaveRoom, AbortSink,
        Deliver, DeliverFails, SinkEnds, Read
  <2>2. inq'[c] = inq[c] \/ (inq[c] # <<>> /\ inq'[c] = Tail(inq[c]))
    BY <2>1 DEF TypeOK
  <2> QED
    BY <2>2 DEF WireStep
<1> QED
  BY <1>1, ClientWires, Zenon DEF Next

-----------------------------------------------------------------------------
(* The handlers are tidy. *)

\* A step of one handler, which puts no data in a sender's channel.
LEMMA TidyKept ==
    ASSUME TypeOK, Tidy, Next, NEW c \in Conns,
           \A d \in Conns \ {c} : handler'[d] = handler[d] /\ todo'[d] = todo[d],
           TidyHandler(handler'[c], todo'[c]),
           \A d \in Conns \ Receivers : InQueue(chan'[d]) \subseteq InQueue(chan[d]),
           pendingDirect' # NoFrame => pendingDirect' = pendingDirect \/ pendingDirect'.type = "Direct"
    PROVE  Tidy'
<1>1. \A d \in Conns : TidyHandler(handler'[d], todo'[d])
  <2> SUFFICES ASSUME NEW d \in Conns PROVE TidyHandler(handler'[d], todo'[d])
    OBVIOUS
  <2>1. CASE d = c
    BY <2>1
  <2>2. CASE d # c
    <3>1. handler'[d] = handler[d] /\ todo'[d] = todo[d]
      BY <2>2
    <3> QED
      BY <3>1 DEF Tidy
  <2> QED
    BY <2>1, <2>2
<1>2. \A d \in Conns \ Receivers : InQueue(chan'[d]) = {}
  BY DEF Tidy
<1>3. pendingDirect' # NoFrame => pendingDirect'.type = "Direct"
  BY DEF Tidy
<1>4. ASSUME Aborters = {}, NEW d \in Conns PROVE Lacks(inq'[d], {"Done"})
  <2>1. WireStep(d) /\ Lacks(inq[d], {"Done"}) /\ inq[d] \in Seq(Frames)
    BY <1>4, Wires DEF Tidy, TypeOK
  <2>2. /\ Lacks(<<>>, {"Done"}) /\ (inq[d] # <<>> => Lacks(Tail(inq[d]), {"Done"}))
        /\ \A f \in Frames : f.type # "Done" => Lacks(Append(inq[d], f), {"Done"})
    BY <2>1, LacksMore
  <2> QED
    BY <1>4, <2>1, <2>2 DEF WireStep
<1> QED
  BY <1>1, <1>2, <1>3, <1>4 DEF Tidy

\* Leaving the lock, or one send done.
LEMMA TidyThen ==
    ASSUME TypeOK, NEW c \in Conns, NEW ss, Then(c, ss),
           \A i \in DOMAIN ss : IsData(ss[i].frame) => ss[i].to \in Receivers
    PROVE  /\ \A d \in Conns \ {c} : handler'[d] = handler[d] /\ todo'[d] = todo[d]
           /\ TidyHandler(handler'[c], todo'[c]) /\ todo' = [todo EXCEPT ![c] = ss]
<1>1. /\ todo' = [todo EXCEPT ![c] = ss]
      /\ handler' = [handler EXCEPT ![c] = IF ss = <<>> THEN "reading" ELSE "sending"]
  BY DEF Then
<1>2. todo'[c] = ss /\ handler'[c] = IF ss = <<>> THEN "reading" ELSE "sending"
  BY <1>1 DEF TypeOK
<1>3. \A d \in Conns \ {c} : handler'[d] = handler[d] /\ todo'[d] = todo[d]
  BY <1>1 DEF TypeOK
<1>4. TidyHandler(handler'[c], todo'[c])
  BY <1>2 DEF TidyHandler
<1> QED
  BY <1>1, <1>3, <1>4

-----------------------------------------------------------------------------
(* The flow of the frames. *)

\* A step that routes nothing keeps every frame apart, brings none back, and
\* in a calm session loses none.
Moved == Tidy' /\ Conserved' /\ Held' \subseteq Held /\ (Calm => Held \subseteq Held')

\* Sends of frames that are no data.
Plain(ss) == \A i \in DOMAIN ss : ~IsData(ss[i].frame)

LEMMA PlainSends ==
    /\ <<>> \in Seq(Sends) /\ Plain(<<>>)
    /\ \A d \in Conns \cup {NoConn} : \A f \in Frames : ~IsData(f) =>
          <<[to |-> d, frame |-> f]>> \in Seq(Sends) /\ Plain(<<[to |-> d, frame |-> f]>>)
    /\ \A ss \in Seq(Sends) : Plain(ss) <=> InQueue(FramesOf(ss)) = {}
<1>1. <<>> \in Seq(Sends) /\ Plain(<<>>)
  BY DEF Plain
<1>2. ASSUME NEW d \in Conns \cup {NoConn}, NEW f \in Frames, ~IsData(f)
      PROVE  <<[to |-> d, frame |-> f]>> \in Seq(Sends) /\ Plain(<<[to |-> d, frame |-> f]>>)
  BY <1>2, SendType DEF Plain
<1>3. ASSUME NEW ss \in Seq(Sends) PROVE Plain(ss) <=> InQueue(FramesOf(ss)) = {}
  BY DEF Plain, InQueue, FramesOf
<1> QED
  BY <1>1, <1>2, <1>3

\* A handler that reads has nothing to send.
LEMMA NothingPending ==
    ASSUME TypeOK, Tidy, NEW c \in Conns, handler[c] \notin {"sending"}
    PROVE  InQueue(Pending[c]) = {} /\ (handler[c] # "direct" => todo[c] = <<>>)
<1>1. TidyHandler(handler[c], todo[c]) /\ Pending[c] = FramesOf(todo[c])
  BY PendingFamily DEF Tidy
<1>2. CASE handler[c] = "direct"
  BY <1>1, <1>2 DEF TidyHandler
<1>3. CASE handler[c] # "direct"
  <2>1. todo[c] = <<>>
    BY <1>1, <1>3 DEF TidyHandler
  <2> QED
    BY <1>1, <2>1, FramesOfSends, NothingQueued
<1> QED
  BY <1>2, <1>3

\* Giving it plain sends moves no data.
LEMMA PlainPending ==
    ASSUME TypeOK, Conserved, NEW c \in Conns, InQueue(Pending[c]) = {},
           NEW ss \in Seq(Sends), Plain(ss), todo' = [todo EXCEPT ![c] = ss]
    PROVE  Once(Pending') /\ InFamily(Pending') = InFamily(Pending)
<1> DEFINE q == FramesOf(ss)
           F == Pending
<1>1. q \in Seq(Frames) /\ InQueue(q) = {}
  BY FramesOfSends, PlainSends
<1>2. F \in Families /\ Once(F) /\ Pending' = [F EXCEPT ![c] = q] /\ InQueue(F[c]) = {}
  BY PendingFamily, PendingSet DEF Conserved
<1> HIDE DEF q, F
<1>3. Distinct(q)
  BY <1>1 DEF Distinct, InQueue
<1>4. InQueue(q) \cap InFamily(F) \subseteq InQueue(F[c])
  BY <1>1
<1> DEFINE G == [F EXCEPT ![c] = q]
<1>5. Once(G) /\ InFamily(G) = (InFamily(F) \ InQueue(F[c])) \cup InQueue(q)
  BY <1>1, <1>2, <1>3, <1>4, FamilySet
<1> HIDE DEF G
<1>6. InFamily(G) = InFamily(F)
  BY <1>1, <1>2, <1>5
<1> QED
  BY <1>2, <1>5, <1>6 DEF F, G

\* A step that moves no data, or forgets the buffer when nothing is in it or
\* the session is not quiet.
LEMMA Unmoved ==
    ASSUME Conserved, Tidy', routed' = routed,
           Once(Pending'), InFamily(Pending') = InFamily(Pending), chan' = chan, got' = got,
           buffer' = buffer \/ (buffer' = <<>> /\ (Calm => buffer = <<>>))
    PROVE  Moved
<1>1. Distinct(buffer') /\ InQueue(buffer') \subseteq InQueue(buffer)
  BY NothingQueued DEF Conserved
<1>2. Calm => InQueue(buffer') = InQueue(buffer)
  OBVIOUS
<1>3. Held' \subseteq Held /\ (Calm => Held \subseteq Held')
  BY <1>1, <1>2 DEF Held
<1>4. Apart(InQueue(buffer'), InFamily(Pending'), InFamily(chan'), InFamily(got'))
  BY <1>1 DEF Conserved, Apart
<1>5. Conserved'
  BY <1>1, <1>3, <1>4 DEF Conserved
<1> QED
  BY <1>3, <1>5 DEF Moved

\* A handler leaves the lock with plain sends.
LEMMA PlainStep ==
    ASSUME TypeOK, Tidy, Conserved, Next, NEW c \in Conns, InQueue(Pending[c]) = {},
           NEW ss \in Seq(Sends), Plain(ss), Then(c, ss),
           routed' = routed, chan' = chan, got' = got,
           buffer' = buffer \/ (buffer' = <<>> /\ (Calm => buffer = <<>>)),
           pendingDirect' \in {pendingDirect, NoFrame} \/ pendingDirect'.type = "Direct"
    PROVE  Moved
<1>1. \A i \in DOMAIN ss : IsData(ss[i].frame) => ss[i].to \in Receivers
  BY DEF Plain
<1>2. /\ \A d \in Conns \ {c} : handler'[d] = handler[d] /\ todo'[d] = todo[d]
      /\ TidyHandler(handler'[c], todo'[c]) /\ todo' = [todo EXCEPT ![c] = ss]
  BY <1>1, TidyThen
<1>3. Tidy'
  BY <1>2, TidyKept
<1>4. Once(Pending') /\ InFamily(Pending') = InFamily(Pending)
  BY <1>2, PlainPending
<1> QED
  BY <1>3, <1>4, Unmoved

\* A step that leaves the queues alone, of a handler with nothing to send.
LEMMA QuietStep ==
    ASSUME TypeOK, Tidy, Conserved, Next, NEW c \in Conns,
           UNCHANGED <<todo, chan, got, routed>>,
           pendingDirect' \in {pendingDirect, NoFrame},
           buffer' = buffer \/ (buffer' = <<>> /\ (Calm => buffer = <<>>)),
           \/ handler' = handler
           \/ /\ handler[c] \notin {"sending", "direct"}
              /\ \E h \in HandlerStates \ {"direct"} : handler' = [handler EXCEPT ![c] = h]
    PROVE  Moved
<1>1. \A d \in Conns \ {c} : handler'[d] = handler[d] /\ todo'[d] = todo[d]
  BY DEF TypeOK
<1>2. TidyHandler(handler'[c], todo'[c])
  <2>1. TidyHandler(handler[c], todo[c])
    BY DEF Tidy
  <2>2. handler'[c] = handler[c] \/ (todo[c] = <<>> /\ handler'[c] # "direct")
    BY <2>1 DEF TypeOK, TidyHandler
  <2> QED
    BY <2>1, <2>2 DEF TidyHandler
<1>3. Tidy'
  BY <1>1, <1>2, TidyKept
<1>4. Pending' = Pending
  BY DEF Pending
<1>5. Once(Pending') /\ InFamily(Pending') = InFamily(Pending)
  BY <1>4 DEF Conserved
<1> QED
  BY <1>3, <1>5, Unmoved

\* What a handler reads.
LEMMA ReadFacts ==
    ASSUME TypeOK, Tidy, NEW c \in Conns, NEW types, Read(c, types)
    PROVE  /\ Head(inq[c]) \in Frames /\ Head(inq[c]).type \in types /\ handler[c] = "reading"
           /\ todo[c] = <<>> /\ InQueue(Pending[c]) = {}
           /\ Aborters = {} => Head(inq[c]).type # "Done"
<1>1. /\ Head(inq[c]) \in Frames /\ Head(inq[c]).type \in types /\ handler[c] = "reading"
      /\ inq[c] # <<>> /\ inq[c] \in Seq(Frames)
  BY ReadType DEF Read, TypeOK
<1>2. Aborters = {} => Head(inq[c]).type \notin {"Done"}
  <2> SUFFICES ASSUME Aborters = {} PROVE Head(inq[c]).type \notin {"Done"}
    OBVIOUS
  <2>1. Lacks(inq[c], {"Done"})
    BY DEF Tidy
  <2> QED
    BY <1>1, <2>1, LacksMore
<1> QED
  BY <1>1, <1>2, NothingPending

\* The control frames: Hello of a sender, READY, DIRECT and DONE.
LEMMA ControlMoved ==
    ASSUME TypeOK, HasSends, Tidy, Conserved, Next, NEW c \in Conns,
           \/ c \in Senders /\ (RouteHelloSender(c) \/ FlushDirect(c) \/ RouteDone(c))
           \/ c \in Receivers /\ (RouteReady(c) \/ RouteDirect(c))
    PROVE  Moved
<1> USE DEF roomVars, connVars, histVars
<1> DEFINE Leave(ss) == /\ ss \in Seq(Sends) /\ Plain(ss) /\ Then(c, ss)
                        /\ InQueue(Pending[c]) = {}
                        /\ routed' = routed /\ chan' = chan /\ got' = got
                        /\ buffer' = buffer \/ (buffer' = <<>> /\ (Calm => buffer = <<>>))
                        /\ pendingDirect' \in {pendingDirect, NoFrame} \/ pendingDirect'.type = "Direct"
<1>1. ASSUME NEW ss, Leave(ss) PROVE Moved
  BY <1>1, PlainStep
<1>2. ASSUME NEW f \in Frames, f.type \in {"Ready", "Direct"} PROVE ~IsData(f)
  BY <1>2 DEF IsData, DataTypes
<1>3. \A d \in Conns \cup {NoConn} : \A f \in Frames : ~IsData(f) =>
          <<[to |-> d, frame |-> f]>> \in Seq(Sends) /\ Plain(<<[to |-> d, frame |-> f]>>)
  BY PlainSends
<1>4. <<>> \in Seq(Sends) /\ Plain(<<>>) /\ sender \in Conns \cup {NoConn}
  BY PlainSends DEF TypeOK, Conns
<1>5. CASE c \in Senders /\ RouteHelloSender(c)
  <2>1. /\ InQueue(Pending[c]) = {} /\ routed' = routed /\ chan' = chan /\ got' = got
        /\ buffer' = buffer /\ pendingDirect' = NoFrame
    BY <1>5, ReadFacts DEF RouteHelloSender
  <2>2. CASE pendingDirect = NoFrame
    <3>1. Then(c, <<>>)
      BY <1>5, <2>2 DEF RouteHelloSender
    <3> QED
      BY <1>1, <1>4, <2>1, <3>1
  <2>3. CASE pendingDirect # NoFrame
    <3> DEFINE ss == <<[to |-> NoConn, frame |-> pendingDirect]>>
    <3>1. todo' = [todo EXCEPT ![c] = ss] /\ handler' = [handler EXCEPT ![c] = "direct"]
      BY <1>5, <2>3, Zenon DEF RouteHelloSender
    <3>2. pendingDirect \in Frames /\ pendingDirect.type = "Direct"
      BY <2>3 DEF Tidy, TypeOK
    <3>3. ss \in Seq(Sends) /\ Plain(ss)
      BY <1>2, <1>3, <3>2
    <3> HIDE DEF ss
    <3>4. \A d \in Conns \ {c} : handler'[d] = handler[d] /\ todo'[d] = todo[d]
      BY <3>1 DEF TypeOK
    <3>5. handler'[c] = "direct" /\ todo'[c] = ss
      BY <3>1 DEF TypeOK
    <3>6. TidyHandler(handler'[c], todo'[c])
      BY <3>3, <3>5, PlainSends DEF TidyHandler, Plain
    <3>7. Tidy'
      BY <2>1, <3>4, <3>6, TidyKept
    <3>8. Once(Pending') /\ InFamily(Pending') = InFamily(Pending)
      BY <2>1, <3>1, <3>3, PlainPending
    <3> QED
      BY <2>1, <3>7, <3>8, Unmoved
  <2> QED
    BY <2>2, <2>3
<1>6. CASE c \in Senders /\ FlushDirect(c)
  <2> DEFINE f == todo[c][1].frame
             ss == IF sender = NoConn THEN <<>> ELSE <<[to |-> sender, frame |-> f]>>
  <2>1. /\ handler[c] = "direct" /\ Then(c, ss)
        /\ routed' = routed /\ chan' = chan /\ got' = got /\ buffer' = buffer
        /\ pendingDirect' = pendingDirect
    BY <1>6 DEF FlushDirect
  <2>2. InQueue(Pending[c]) = {} /\ InQueue(FramesOf(todo[c])) = {}
        /\ todo[c] \in Seq(Sends) /\ todo[c] # <<>>
    BY <2>1, NothingPending, PendingFamily DEF HasSends
  <2>3. todo[c][1] \in Sends /\ 1 \in DOMAIN todo[c]
    BY <2>2
  <2>4. f \in Frames /\ ~IsData(f)
    BY <2>2, <2>3, PlainSends DEF Plain, Sends
  <2> HIDE DEF f
  <2>5. ss \in Seq(Sends) /\ Plain(ss)
    BY <1>3, <1>4, <2>4
  <2> HIDE DEF ss
  <2> QED
    BY <1>1, <2>1, <2>2, <2>5
<1>7. CASE c \in Senders /\ RouteDone(c)
  <2>1. Read(c, {"Done"}) /\ Then(c, <<>>) /\ routed' = routed /\ chan' = chan /\ got' = got
        /\ buffer' = <<>> /\ pendingDirect' = NoFrame
    BY <1>7, Zenon DEF RouteDone, RemoveRoom
  <2>2. InQueue(Pending[c]) = {} /\ ~Calm
    BY <2>1, ReadFacts DEF Calm, Quiet
  <2> QED
    BY <1>1, <1>4, <2>1, <2>2
<1>8. CASE c \in Receivers /\ RouteReady(c)
  <2> DEFINE f == Head(inq[c])
             ss == IF sender = NoConn THEN <<>> ELSE <<[to |-> sender, frame |-> f]>>
  <2>1. /\ Then(c, ss) /\ routed' = routed /\ chan' = chan /\ got' = got
        /\ buffer' = buffer /\ pendingDirect' = pendingDirect /\ Read(c, {"Ready"})
    BY <1>8 DEF RouteReady
  <2>2. f \in Frames /\ f.type = "Ready" /\ InQueue(Pending[c]) = {}
    BY <2>1, ReadFacts
  <2> HIDE DEF f
  <2>3. ss \in Seq(Sends) /\ Plain(ss)
    BY <1>2, <1>3, <1>4, <2>2
  <2> HIDE DEF ss
  <2> QED
    BY <1>1, <2>1, <2>2, <2>3
<1>9. CASE c \in Receivers /\ RouteDirect(c)
  <2> DEFINE f == Head(inq[c])
             ss == IF sender = NoConn THEN <<>> ELSE <<[to |-> sender, frame |-> f]>>
  <2>1. /\ routed' = routed /\ chan' = chan /\ got' = got /\ buffer' = buffer
        /\ Read(c, {"Direct"})
        /\ IF sender = NoConn
             THEN pendingDirect' = f /\ Then(c, <<>>)
             ELSE pendingDirect' = pendingDirect /\ Then(c, <<[to |-> sender, frame |-> f]>>)
    BY <1>9, Zenon DEF RouteDirect
  <2>2. f \in Frames /\ f.type = "Direct" /\ InQueue(Pending[c]) = {}
    BY <2>1, ReadFacts
  <2> HIDE DEF f
  <2>3. ss \in Seq(Sends) /\ Plain(ss) /\ Then(c, ss)
    BY <1>2, <1>3, <1>4, <2>1, <2>2
  <2>4. pendingDirect' = pendingDirect \/ pendingDirect'.type = "Direct"
    BY <2>1, <2>2
  <2> HIDE DEF ss
  <2> QED
    BY <1>1, <2>1, <2>2, <2>3, <2>4
<1> QED
  BY <1>5, <1>6, <1>7, <1>8, <1>9

\* The clients, a handler that ends, and a sink that ends with it.
LEMMA OutsideMoved ==
    ASSUME TypeOK, Idle, Tidy, Conserved, Next,
           ClientStep \/ \E c \in Conns : RouteBad(c) \/ ReadEnd(c) \/ LeaveRoom(c) \/ SinkEnds(c)
    PROVE  Moved
<1> USE DEF roomVars, connVars, histVars
<1>1. UNCHANGED <<todo, chan, got, routed>>
  BY Zenon DEF ClientStep, Connect, SendBad, Crash, Emit, Abort, SenderExit, Advertise, Acknowledge,
               SendClose, Drained, Write, Vanish, RouteBad, ReadEnd, LeaveRoom, SinkEnds
<1>2. CASE ClientStep
  <2>1. UNCHANGED <<pendingDirect, buffer>>
    BY <1>2, Zenon DEF ClientStep, Connect, SendBad, Crash, Emit, Abort, SenderExit, Advertise,
                       Acknowledge, SendClose, Drained, Write, Vanish
  <2>2. CASE \E c \in Conns : Connect(c)
    <3>1. PICK c \in Conns : Connect(c)
      BY <2>2
    <3>2. handler[c] = "idle" /\ handler' = [handler EXCEPT ![c] = "reading"]
      BY <3>1 DEF Connect, Idle
    <3>3. "reading" \in HandlerStates \ {"direct"}
      BY DEF HandlerStates
    <3> QED
      BY <1>1, <2>1, <3>2, <3>3, QuietStep
  <2>3. CASE ~\E c \in Conns : Connect(c)
    <3>1. handler' = handler /\ \E c \in Conns : TRUE
      BY <1>2, <2>3, Zenon DEF ClientStep, SendBad, Crash, Emit, Abort, SenderExit, Advertise,
                               Acknowledge, SendClose, Drained, Write, Vanish, Conns
    <3> QED
      BY <1>1, <2>1, <3>1, QuietStep
  <2> QED
    BY <2>2, <2>3
<1>3. ASSUME NEW c \in Conns, RouteBad(c) \/ ReadEnd(c) \/ SinkEnds(c) PROVE Moved
  <2>1. UNCHANGED <<pendingDirect, buffer>>
    BY <1>3, Zenon DEF RouteBad, ReadEnd, SinkEnds
  <2>2. \/ handler' = handler
        \/ /\ handler[c] = "reading"
           /\ \E h \in {"aborted", "leaving"} : handler' = [handler EXCEPT ![c] = h]
    BY <1>3, Zenon DEF RouteBad, ReadEnd, SinkEnds
  <2>3. \A h \in {"aborted", "leaving"} : h \in HandlerStates \ {"direct"}
    BY DEF HandlerStates
  <2> QED
    BY <1>1, <2>1, <2>2, <2>3, QuietStep
<1>4. ASSUME NEW c \in Conns, LeaveRoom(c) PROVE Moved
  <2>1. pendingDirect' \in {pendingDirect, NoFrame} /\ (buffer' = buffer \/ (buffer' = <<>> /\ buffer = <<>>))
    BY <1>4, Zenon DEF LeaveRoom, RemoveRoom, RoomAbandoned
  <2>2. handler[c] = "leaving" /\ handler' = [handler EXCEPT ![c] = "left"]
    BY <1>4 DEF LeaveRoom
  <2>3. "left" \in HandlerStates \ {"direct"}
    BY DEF HandlerStates
  <2> QED
    BY <1>1, <2>1, <2>2, <2>3, QuietStep
<1> QED
  BY <1>2, <1>3, <1>4

\* A receiver's Hello: the whole buffer goes to its handler.
LEMMA FlushMoved ==
    ASSUME TypeOK, Tidy, Conserved, Next, NEW r \in Receivers, RouteHelloReceiver(r)
    PROVE  Moved
<1> DEFINE ss == FlushSends(r)
           F == Pending
           G == [F EXCEPT ![r] = buffer]
<1>1. r \in Conns /\ buffer \in Seq(Frames) /\ DOMAIN ss = DOMAIN buffer
  BY DEF Conns, TypeOK, FlushSends
<1>2. /\ Then(r, ss) /\ Read(r, {"Hello"})
      /\ buffer' = <<>> /\ routed' = routed /\ chan' = chan /\ got' = got
      /\ pendingDirect' = pendingDirect
  BY DEF RouteHelloReceiver, DrainBuffer
<1>3. ss \in Seq(Sends) /\ \A i \in DOMAIN ss : ss[i].to = r
  <2>1. \A i \in 1 .. Len(buffer) : [to |-> r, frame |-> buffer[i]] \in Sends
    BY <1>1 DEF Sends
  <2>2. ss = [i \in 1 .. Len(buffer) |-> [to |-> r, frame |-> buffer[i]]] /\ Len(buffer) \in Nat
    BY <1>1 DEF FlushSends
  <2> QED
    BY <1>1, <2>1, <2>2
<1>4. InQueue(F[r]) = {} /\ FramesOf(ss) = buffer
  BY <1>1, <1>2, ReadFacts, FramesOfFlush
<1> HIDE DEF ss
<1>5. /\ \A d \in Conns \ {r} : handler'[d] = handler[d] /\ todo'[d] = todo[d]
      /\ TidyHandler(handler'[r], todo'[r]) /\ todo' = [todo EXCEPT ![r] = ss]
  BY <1>1, <1>2, <1>3, TidyThen
<1>6. Tidy'
  BY <1>1, <1>2, <1>5, TidyKept
<1>7. F \in Families /\ Once(F) /\ Pending' = G
  BY <1>1, <1>3, <1>4, <1>5, PendingFamily, PendingSet DEF Conserved
<1>8. Distinct(buffer) /\ InQueue(buffer) \cap InFamily(F) = {}
  BY DEF Conserved, Apart
<1> HIDE DEF F
<1>9. InQueue(buffer) \cap InFamily(F) \subseteq InQueue(F[r])
  BY <1>8
<1>10. Once(G) /\ InFamily(G) = (InFamily(F) \ InQueue(F[r])) \cup InQueue(buffer)
  BY <1>1, <1>7, <1>8, <1>9, FamilySet
<1> HIDE DEF G
<1>11. /\ Once(Pending') /\ InFamily(Pending') = InFamily(Pending) \cup InQueue(buffer)
       /\ InQueue(buffer') = {} /\ Distinct(buffer')
  BY <1>2, <1>4, <1>7, <1>10, NothingQueued DEF F
<1>12. Held' = Held
  BY <1>2, <1>11 DEF Held
<1>13. Apart(InQueue(buffer'), InFamily(Pending'), InFamily(chan'), InFamily(got'))
  BY <1>2, <1>11 DEF Conserved, Apart
<1> QED
  BY <1>2, <1>6, <1>11, <1>12, <1>13 DEF Moved, Conserved

\* A channel that gets a frame that is no data, or none.
LEMMA ChannelPlain ==
    ASSUME TypeOK, Conserved, NEW c \in Conns, NEW f \in Frames, ~IsData(f),
           chan' = chan \/ chan' = [chan EXCEPT ![c] = Append(@, f)]
    PROVE  /\ Once(chan') /\ InFamily(chan') = InFamily(chan)
           /\ \A d \in Conns : InQueue(chan'[d]) = InQueue(chan[d])
<1> DEFINE F == chan
           G == [F EXCEPT ![c] = Append(F[c], f)]
<1>1. F \in Families /\ Once(F) /\ F[c] \in Seq(Frames) /\ Distinct(F[c])
  BY PendingFamily DEF Conserved, Once, TypeOK
<1>2. f \notin InFamily(F) /\ f \notin InQueue(F[c])
  BY DEF InFamily, InQueue
<1>3. chan' = F \/ chan' = G
  OBVIOUS
<1>4. \A d \in Conns : G[d] = F[d] \/ (d = c /\ G[d] = Append(F[c], f))
  BY <1>1 DEF Families
<1> HIDE DEF F
<1>5. Once(G) /\ InFamily(G) = InFamily(F) \cup {g \in {f} : IsData(g)}
  BY <1>1, <1>2, FamilyAppend
<1>6. InQueue(Append(F[c], f)) = InQueue(F[c]) \cup {g \in {f} : IsData(g)}
  BY <1>1, <1>2, QueueAppend
<1>7. \A d \in Conns : InQueue(G[d]) = InQueue(F[d])
  BY <1>4, <1>6
<1> HIDE DEF G
<1>8. Once(G) /\ InFamily(G) = InFamily(F)
  BY <1>5
<1> QED
  BY <1>1, <1>3, <1>7, <1>8 DEF F

\* A channel that loses its head, or everything.
LEMMA ChannelCut ==
    ASSUME TypeOK, Conserved, NEW c \in Conns,
           \/ chan[c] # <<>> /\ chan' = [chan EXCEPT ![c] = Tail(@)]
           \/ chan' = [chan EXCEPT ![c] = <<>>]
    PROVE  /\ Once(chan') /\ InFamily(chan') \subseteq InFamily(chan)
           /\ InFamily(chan) \subseteq InFamily(chan') \cup InQueue(chan[c])
           /\ \A d \in Conns : InQueue(chan'[d]) \subseteq InQueue(chan[d])
<1> DEFINE F == chan
<1>1. F \in Families /\ Once(F) /\ F[c] \in Seq(Frames) /\ Distinct(F[c])
  BY PendingFamily DEF Conserved, Once, TypeOK
<1>2. CASE chan[c] # <<>> /\ chan' = [chan EXCEPT ![c] = Tail(@)]
  <2> DEFINE G == [F EXCEPT ![c] = Tail(F[c])]
  <2>1. F[c] # <<>> /\ chan' = G /\ \A d \in Conns : G[d] = F[d] \/ (d = c /\ G[d] = Tail(F[c]))
    BY <1>1, <1>2 DEF Families
  <2> HIDE DEF F
  <2>2. Once(G) /\ InFamily(G) = InFamily(F) \ {Head(F[c])}
    BY <1>1, <2>1, FamilyTail
  <2>3. /\ InQueue(Tail(F[c])) = InQueue(F[c]) \ {Head(F[c])}
        /\ IsData(Head(F[c])) => Head(F[c]) \in InQueue(F[c])
    BY <1>1, <2>1, QueueTail
  <2>4. \A g \in InFamily(F) : IsData(g)
    BY DEF InFamily, InQueue
  <2>5. \A d \in Conns : InQueue(G[d]) \subseteq InQueue(F[d])
    BY <2>1, <2>3
  <2> HIDE DEF G
  <2> QED
    BY <2>1, <2>2, <2>3, <2>4, <2>5 DEF F
<1>3. CASE chan' = [chan EXCEPT ![c] = <<>>]
  <2> DEFINE G == [F EXCEPT ![c] = <<>>]
  <2>1. chan' = G /\ \A d \in Conns : G[d] = F[d] \/ (d = c /\ G[d] = <<>>)
    BY <1>1, <1>3 DEF Families
  <2> HIDE DEF F
  <2>2. Once(G) /\ InFamily(G) = InFamily(F) \ InQueue(F[c])
    BY <1>1, FamilyEmpty
  <2>3. \A d \in Conns : InQueue(G[d]) \subseteq InQueue(F[d])
    BY <2>1, NothingQueued
  <2> HIDE DEF G
  <2> QED
    BY <2>1, <2>2, <2>3 DEF F
<1> QED
  BY <1>2, <1>3

\* What was in a channel is gone with it, or what the channel carries is no data.
LEMMA CutMoved ==
    ASSUME TypeOK, Tidy, Conserved, Next, NEW c \in Conns,
           AbortSink(c) \/ DeliverFails(c) \/ ReadClose(c)
    PROVE  Moved
<1> USE DEF roomVars, connVars, histVars
<1>1. /\ UNCHANGED <<todo, got, routed, buffer, pendingDirect>>
      /\ \/ handler' = handler
         \/ /\ handler[c] \in {"left", "reading"}
            /\ handler' = [handler EXCEPT ![c] = "closed"] \/ handler' = [handler EXCEPT ![c] = "leaving"]
  BY Zenon DEF AbortSink, DeliverFails, ReadClose
<1>2. TidyHandler(handler'[c], todo'[c]) /\ \A d \in Conns \ {c} : handler'[d] = handler[d]
  <2>1. TidyHandler(handler[c], todo[c])
    BY DEF Tidy
  <2>2. handler'[c] = handler[c] \/ (handler[c] \in {"left", "reading"} /\ handler'[c] # "direct")
    BY <1>1 DEF TypeOK
  <2>3. \A d \in Conns \ {c} : handler'[d] = handler[d]
    BY <1>1 DEF TypeOK
  <2>4. todo' = todo
    BY <1>1
  <2> QED
    BY <2>1, <2>2, <2>3, <2>4 DEF TidyHandler
<1>3. /\ Once(chan') /\ InFamily(chan') \subseteq InFamily(chan)
      /\ Calm => InFamily(chan) \subseteq InFamily(chan')
      /\ \A d \in Conns : InQueue(chan'[d]) \subseteq InQueue(chan[d])
  <2>1. CASE AbortSink(c) \/ DeliverFails(c)
    <3>1. \/ chan[c] # <<>> /\ chan' = [chan EXCEPT ![c] = Tail(@)]
          \/ chan' = [chan EXCEPT ![c] = <<>>]
      BY <2>1, Zenon DEF AbortSink, DeliverFails
    <3>2. Calm => c \notin Receivers
      BY <2>1 DEF AbortSink, DeliverFails, Calm, Quiet, ReceiversUp
    <3>3. Calm => InQueue(chan[c]) = {}
      BY <3>2 DEF Tidy
    <3>4. /\ Once(chan') /\ InFamily(chan') \subseteq InFamily(chan)
          /\ InFamily(chan) \subseteq InFamily(chan') \cup InQueue(chan[c])
          /\ \A d \in Conns : InQueue(chan'[d]) \subseteq InQueue(chan[d])
      BY <3>1, ChannelCut
    <3> QED
      BY <3>3, <3>4
  <2>2. CASE ReadClose(c)
    <3>1. Frame("Close", c, 0) \in Frames /\ ~IsData(Frame("Close", c, 0))
      BY FrameType DEF Frame, IsData, DataTypes
    <3>2. chan' = chan \/ chan' = [chan EXCEPT ![c] = Append(@, Frame("Close", c, 0))]
      BY <2>2, Zenon DEF ReadClose
    <3> QED
      BY <3>1, <3>2, ChannelPlain
  <2> QED
    BY <2>1, <2>2
<1>4. Tidy'
  BY <1>1, <1>2, <1>3, TidyKept
<1>5. Pending' = Pending
  BY <1>1 DEF Pending
<1>6. Held' \subseteq Held /\ (Calm => Held \subseteq Held')
  BY <1>1, <1>3, <1>5 DEF Held
<1>7. Apart(InQueue(buffer'), InFamily(Pending'), InFamily(chan'), InFamily(got'))
  BY <1>1, <1>3, <1>5 DEF Conserved, Apart
<1> QED
  BY <1>1, <1>3, <1>4, <1>5, <1>6, <1>7 DEF Moved, Conserved

\* The sink task hands a frame to its client.
LEMMA DeliverMoved ==
    ASSUME TypeOK, Tidy, Conserved, Next, NEW c \in Conns, Deliver(c)
    PROVE  Moved
<1> DEFINE f == Head(chan[c])
<1>1. /\ UNCHANGED <<todo, handler, routed, buffer, pendingDirect>> /\ chan[c] # <<>>
      /\ chan' = [chan EXCEPT ![c] = Tail(@)] /\ got' = [got EXCEPT ![c] = Append(got[c], f)]
  BY Zenon DEF Deliver, roomVars
<1>2. /\ chan \in Families /\ got \in Families /\ Once(chan) /\ Once(got) /\ f \in Frames
      /\ chan' = [chan EXCEPT ![c] = Tail(chan[c])]
  <2>1. chan[c] \in Seq(Frames)
    BY DEF TypeOK
  <2> QED
    BY <1>1, <2>1, PendingFamily, QueueTypes DEF Conserved
<1>3. /\ Once(chan') /\ InFamily(chan') = InFamily(chan) \ {f}
      /\ IsData(f) => f \in InFamily(chan)
  <2> DEFINE F == chan
             G == [F EXCEPT ![c] = Tail(F[c])]
  <2>1. Once(G) /\ InFamily(G) = InFamily(F) \ {Head(F[c])} /\ (IsData(Head(F[c])) => Head(F[c]) \in InFamily(F))
    BY <1>1, <1>2, FamilyTail
  <2> QED
    BY <1>2, <2>1
<1> HIDE DEF f
<1>4. f \notin InFamily(got)
  BY <1>3 DEF Conserved, Apart, InFamily, InQueue
<1>5. Once(got') /\ InFamily(got') = InFamily(got) \cup {g \in {f} : IsData(g)}
  <2> DEFINE G == [got EXCEPT ![c] = Append(got[c], f)]
  <2>1. Once(G) /\ InFamily(G) = InFamily(got) \cup {g \in {f} : IsData(g)}
    BY <1>2, <1>4, FamilyAppend
  <2> QED
    BY <1>1, <2>1
<1>6. Pending' = Pending
  BY <1>1 DEF Pending
<1>7. \A g \in InFamily(chan) : IsData(g)
  BY DEF InFamily, InQueue
<1>8. Held' = Held
  BY <1>1, <1>3, <1>5, <1>6, <1>7 DEF Held
<1>9. Apart(InQueue(buffer'), InFamily(Pending'), InFamily(chan'), InFamily(got'))
  BY <1>1, <1>3, <1>4, <1>5, <1>6 DEF Conserved, Apart
<1>10. Tidy'
  <2>1. \A d \in Conns : InQueue(chan'[d]) \subseteq InQueue(chan[d])
    BY <1>1, ChannelCut
  <2>2. TidyHandler(handler'[c], todo'[c])
    BY <1>1 DEF Tidy
  <2> QED
    BY <1>1, <2>1, <2>2, TidyKept
<1> QED
  BY <1>1, <1>3, <1>5, <1>6, <1>8, <1>9, <1>10 DEF Moved, Conserved

\* A blocking send: the frame goes from the handler to the channel, unless the
\* channel's reader is gone.
LEMMA SendMoved ==
    ASSUME TypeOK, HasSends, Tidy, Conserved, Next, NEW c \in Conns, SendNext(c)
    PROVE  Moved
<1> DEFINE m == Head(todo[c])
           ss == Tail(todo[c])
           f == m.frame
           F == Pending
           G == [F EXCEPT ![c] = Tail(F[c])]
<1>1. /\ todo[c] \in Seq(Sends) /\ todo[c] # <<>> /\ handler[c] = "sending"
      /\ TidyHandler(handler[c], todo[c])
  BY DEF SendNext, HasSends, TypeOK, Tidy
<1>2. /\ CanSend(m.to) /\ Then(c, ss)
      /\ chan' = IF sink[m.to] = "run" /\ Len(chan[m.to]) < ChanCap
                   THEN [chan EXCEPT ![m.to] = Append(@, f)] ELSE chan
      /\ routed' = routed /\ buffer' = buffer /\ got' = got /\ pendingDirect' = pendingDirect
  BY Zenon DEF SendNext, roomVars, histVars
<1>3. /\ ss \in Seq(Sends) /\ m \in Sends /\ f \in Frames /\ m.to \in Conns \cup {NoConn}
      /\ IsData(f) => m.to \in Receivers
      /\ \A i \in DOMAIN ss : IsData(ss[i].frame) => ss[i].to \in Receivers
  <2>1. ss \in Seq(Sends) /\ m \in Sends
    BY <1>1, QueueTypes
  <2>2. /\ 1 \in DOMAIN todo[c] /\ m = todo[c][1]
        /\ \A i \in DOMAIN ss : i + 1 \in DOMAIN todo[c] /\ ss[i] = todo[c][i + 1]
    BY <1>1
  <2> HIDE DEF m, ss
  <2>3. f \in Frames /\ m.to \in Conns \cup {NoConn}
    BY <2>1 DEF Sends
  <2> QED
    BY <1>1, <2>1, <2>2, <2>3 DEF TidyHandler
<1>4. F \in Families /\ Once(F) /\ F[c] # <<>> /\ Head(F[c]) = f /\ FramesOf(ss) = Tail(F[c])
  <2>1. F \in Families /\ Once(F) /\ F[c] = FramesOf(todo[c])
    BY PendingFamily DEF Conserved
  <2> HIDE DEF F
  <2> QED
    BY <1>1, <2>1, FramesOfSends
<1> HIDE DEF m, ss
<1>5. /\ \A d \in Conns \ {c} : handler'[d] = handler[d] /\ todo'[d] = todo[d]
      /\ TidyHandler(handler'[c], todo'[c]) /\ todo' = [todo EXCEPT ![c] = ss]
  BY <1>2, <1>3, TidyThen
<1>6. Pending' = G
  BY <1>3, <1>4, <1>5, PendingSet
<1> HIDE DEF F
<1>7. Once(G) /\ InFamily(G) = InFamily(F) \ {f} /\ (IsData(f) => f \in InFamily(F))
  BY <1>4, FamilyTail
<1> HIDE DEF G
<1>8. Once(Pending') /\ InFamily(Pending') = InFamily(Pending) \ {f}
      /\ (IsData(f) => f \in InFamily(Pending))
  BY <1>6, <1>7 DEF F
<1>9. \A g \in InFamily(Pending) : IsData(g)
  BY DEF InFamily, InQueue
<1>10. CASE ~IsData(f)
  <2>1. /\ Once(chan') /\ InFamily(chan') = InFamily(chan)
        /\ \A d \in Conns : InQueue(chan'[d]) = InQueue(chan[d])
    <3>1. CASE m.to \in Conns
      BY <1>2, <1>3, <1>10, <3>1, ChannelPlain
    <3>2. CASE m.to \notin Conns
      <4>1. chan' = chan
        BY <1>2, <3>2 DEF TypeOK
      <4> QED
        BY <4>1 DEF Conserved
    <3> QED
      BY <3>1, <3>2
  <2>2. Tidy'
    BY <1>2, <1>5, <2>1, TidyKept
  <2>3. Once(Pending') /\ InFamily(Pending') = InFamily(Pending)
    BY <1>8, <1>9, <1>10
  <2>4. Held' = Held
    BY <1>2, <2>1, <2>3 DEF Held
  <2>5. Apart(InQueue(buffer'), InFamily(Pending'), InFamily(chan'), InFamily(got'))
    BY <1>2, <2>1, <2>3 DEF Conserved
  <2> QED
    BY <1>2, <2>1, <2>2, <2>3, <2>4, <2>5 DEF Moved, Conserved
<1>11. CASE IsData(f)
  <2> DEFINE r == m.to
             H == [chan EXCEPT ![r] = Append(chan[r], f)]
  <2>1. r \in Receivers /\ r \in Conns
    BY <1>3, <1>11 DEF Conns
  <2>2. /\ chan \in Families /\ Once(chan) /\ f \notin InFamily(chan)
    BY <1>8, <1>11, PendingFamily DEF Conserved, Apart
  <2>3. chan' = chan \/ chan' = H
    BY <1>2
  <2>4. Calm => chan' = H
    <3> SUFFICES ASSUME Calm PROVE chan' = H
      OBVIOUS
    <3>1. sink[r] = "run"
      BY <2>1 DEF Calm, ReceiversUp
    <3> QED
      BY <1>2, <3>1 DEF CanSend
  <2> HIDE DEF r
  <2>5. \A d \in Conns \ {r} : H[d] = chan[d]
    BY <2>1, <2>2 DEF Families
  <2>6. Once(H) /\ InFamily(H) = InFamily(chan) \cup {f}
    <3>1. Once(H) /\ InFamily(H) = InFamily(chan) \cup {g \in {f} : IsData(g)}
      BY <1>3, <2>1, <2>2, FamilyAppend
    <3> QED
      BY <1>11, <3>1
  <2> HIDE DEF H
  <2>7. \A d \in Conns \ Receivers : InQueue(chan'[d]) = InQueue(chan[d])
    BY <2>1, <2>3, <2>5
  <2>8. Tidy'
    BY <1>2, <1>5, <2>7, TidyKept
  <2>9. Once(chan') /\ (InFamily(chan') = InFamily(chan) \/ InFamily(chan') = InFamily(chan) \cup {f})
        /\ (Calm => InFamily(chan') = InFamily(chan) \cup {f})
    BY <2>2, <2>3, <2>4, <2>6
  <2>10. Held' \subseteq Held /\ (Calm => Held \subseteq Held')
    BY <1>2, <1>8, <1>11, <2>9 DEF Held
  <2>11. Apart(InQueue(buffer'), InFamily(Pending'), InFamily(chan'), InFamily(got'))
    BY <1>2, <1>8, <1>11, <2>9 DEF Conserved, Apart
  <2> QED
    BY <1>2, <1>8, <2>8, <2>9, <2>10, <2>11 DEF Moved, Conserved
<1> QED
  BY <1>10, <1>11

\* A data frame is routed: into the buffer, to the receiver, or nowhere.
LEMMA RouteMoved ==
    ASSUME TypeOK, Fresh, Tidy, Conserved, Next, NEW s \in Senders, RouteData(s)
    PROVE  LET f == Head(inq[s]) IN
           /\ Tidy' /\ Conserved' /\ f \notin Held
           /\ Held' \subseteq Held \cup {f} /\ (receiverDone => Held' \subseteq Held)
           /\ Held \subseteq Held' \cup evicted' /\ evicted \subseteq evicted'
           /\ Calm => f \in Held'
<1> DEFINE f == Head(inq[s])
           ss == DataTarget(f)
           F == Pending
           G == [F EXCEPT ![s] = FramesOf(ss)]
<1>1. /\ f \in Frames /\ IsData(f) /\ f \notin InQueue(routed) /\ routed' = Append(routed, f)
      /\ s \in Conns
  BY FreshRoute DEF Conns
<1>2. f \notin Held
  BY <1>1 DEF Conserved
<1>3. /\ Then(s, ss) /\ Read(s, DataTypes)
      /\ chan' = chan /\ got' = got /\ pendingDirect' = pendingDirect
      /\ IF DataBuffered THEN PushBuffer(f) ELSE buffer' = buffer /\ evicted' = evicted
  BY DEF RouteData
<1>4. todo[s] = <<>> /\ InQueue(F[s]) = {}
  BY <1>1, <1>3, ReadFacts
<1>5. F \in Families /\ Once(F)
  BY PendingFamily DEF Conserved
<1>6. InQueue(routed') = InQueue(routed) \cup {f}
  <2>1. routed \in Seq(Frames) /\ Distinct(routed)
    BY DEF TypeOK, Fresh
  <2>2. InQueue(Append(routed, f)) = InQueue(routed) \cup {g \in {f} : IsData(g)}
    BY <1>1, <2>1, QueueAppend
  <2> QED
    BY <1>1, <2>2
<1>7. buffer \in Seq(Frames) /\ Distinct(buffer) /\ InQueue(buffer) \subseteq Held
  BY DEF TypeOK, Conserved, Held
<1>8. receiver # NoConn => receiver \in Receivers /\ receiver \in Conns
  BY DEF TypeOK, Conns
<1>9. /\ ss \in Seq(Sends) /\ \A i \in DOMAIN ss : ss[i].to \in Receivers
      /\ FramesOf(ss) = IF receiverDone \/ receiver = NoConn THEN <<>> ELSE <<f>>
  <2>1. CASE receiverDone \/ receiver = NoConn
    BY <2>1, FramesOfSends, PlainSends DEF DataTarget
  <2>2. CASE ~(receiverDone \/ receiver = NoConn)
    <3>1. ss = <<[to |-> receiver, frame |-> f]>>
      BY <2>2 DEF DataTarget
    <3> HIDE DEF f
    <3> QED
      BY <1>1, <1>8, <2>2, <3>1, FramesOfSends, SendType
  <2> QED
    BY <2>1, <2>2
<1> HIDE DEF ss, f
<1>10. /\ \A d \in Conns \ {s} : handler'[d] = handler[d] /\ todo'[d] = todo[d]
       /\ TidyHandler(handler'[s], todo'[s]) /\ todo' = [todo EXCEPT ![s] = ss]
  BY <1>1, <1>3, <1>9, TidyThen
<1>11. Tidy'
  BY <1>1, <1>3, <1>10, TidyKept
<1>12. Pending' = G
  BY <1>1, <1>9, <1>10, PendingSet
<1> HIDE DEF F
<1>13. ASSUME NEW q \in Seq(Frames), Distinct(q), InQueue(q) \subseteq {f}, FramesOf(ss) = q
       PROVE  Once(Pending') /\ InFamily(Pending') = InFamily(Pending) \cup InQueue(q)
  <2>1. InQueue(q) \cap InFamily(F) \subseteq InQueue(F[s])
    BY <1>2, <1>13 DEF Held, F
  <2>2. Once(G) /\ InFamily(G) = (InFamily(F) \ InQueue(F[s])) \cup InQueue(q)
    BY <1>1, <1>5, <1>13, <2>1, FamilySet
  <2> HIDE DEF G
  <2> QED
    BY <1>4, <1>12, <2>2 DEF F
<1>14. /\ InQueue(<<>>) = {} /\ Distinct(<<>>) /\ <<>> \in Seq(Frames)
       /\ InQueue(<<f>>) = {f} /\ Distinct(<<f>>) /\ <<f>> \in Seq(Frames)
  <2>1. InQueue(<<f>>) = {f} /\ Distinct(<<f>>) /\ <<f>> \in Seq(Frames)
    <3>1. <<f>> \in Seq(Frames) /\ DOMAIN <<f>> = {1} /\ <<f>>[1] = f
      BY <1>1
    <3> QED
      BY <1>1, <3>1 DEF InQueue, Distinct
  <2> QED
    BY <2>1, NothingQueued, EmptyQueue
<1>15. CASE receiverDone
  <2>1. Once(Pending') /\ InFamily(Pending') = InFamily(Pending) /\ buffer' = buffer /\ evicted' = evicted
    BY <1>3, <1>9, <1>13, <1>14, <1>15 DEF DataBuffered
  <2>2. Held' = Held /\ ~Calm
    BY <1>3, <1>15, <2>1 DEF Held, Calm, ReceiversUp
  <2>3. Conserved'
    BY <1>3, <1>6, <2>1, <2>2 DEF Conserved
  <2> QED
    BY <1>2, <1>11, <2>1, <2>2, <2>3 DEF f
<1>16. CASE ~receiverDone /\ receiver # NoConn
  <2>1. /\ Once(Pending') /\ InFamily(Pending') = InFamily(Pending) \cup {f}
        /\ buffer' = buffer /\ evicted' = evicted
    BY <1>3, <1>9, <1>13, <1>14, <1>16 DEF DataBuffered
  <2>2. Held' = Held \cup {f}
    BY <1>3, <2>1 DEF Held
  <2>3. Apart(InQueue(buffer'), InFamily(Pending'), InFamily(chan'), InFamily(got'))
    BY <1>2, <1>3, <2>1 DEF Conserved, Apart, Held
  <2>4. Conserved'
    BY <1>3, <1>6, <2>1, <2>2, <2>3 DEF Conserved
  <2> QED
    BY <1>2, <1>11, <1>16, <2>1, <2>2, <2>4 DEF f
<1>17. CASE ~receiverDone /\ receiver = NoConn
  <2>1. Once(Pending') /\ InFamily(Pending') = InFamily(Pending) /\ PushBuffer(f)
    BY <1>3, <1>9, <1>13, <1>14, <1>17 DEF DataBuffered
  <2> DEFINE k == Evict(Size(f))
             t == SubSeq(buffer, k + 1, Len(buffer))
  <2>2. /\ k \in 0 .. Len(buffer) /\ buffer' = Append(t, f)
        /\ evicted' = evicted \cup {buffer[i] : i \in 1 .. k}
    BY <2>1, EvictType DEF PushBuffer
  <2> HIDE DEF k
  <2>3. /\ Distinct(t) /\ t \in Seq(Frames) /\ InQueue(t) \subseteq InQueue(buffer)
        /\ InQueue(buffer) \subseteq {buffer[i] : i \in 1 .. k} \cup InQueue(t)
    BY <1>7, <2>2, QueueSuffix
  <2> HIDE DEF t
  <2>4. f \notin InQueue(t)
    BY <1>2, <1>7, <2>3
  <2>5. Distinct(buffer') /\ InQueue(buffer') = InQueue(t) \cup {f}
    <3>1. Distinct(Append(t, f)) /\ InQueue(Append(t, f)) = InQueue(t) \cup {g \in {f} : IsData(g)}
      BY <1>1, <2>3, <2>4, QueueAppend
    <3> QED
      BY <1>1, <2>2, <3>1
  <2>6. Held' \subseteq Held \cup {f} /\ Held \cup {f} \subseteq Held' \cup evicted' /\ f \in Held'
    BY <1>3, <2>1, <2>2, <2>3, <2>5 DEF Held
  <2>7. Apart(InQueue(buffer'), InFamily(Pending'), InFamily(chan'), InFamily(got'))
    BY <1>2, <1>3, <2>1, <2>3, <2>5 DEF Conserved, Apart, Held
  <2>8. Held' \subseteq InQueue(routed')
    BY <1>6, <2>6 DEF Conserved
  <2>9. Conserved'
    BY <1>3, <2>1, <2>5, <2>7, <2>8 DEF Conserved
  <2> QED
    BY <1>2, <1>11, <1>17, <2>2, <2>6, <2>9 DEF f
<1> QED
  BY <1>15, <1>16, <1>17 DEF f

\* Only route() of a data frame adds a frame, and only it evicts one.
LEMMA NothingRouted ==
    ASSUME Next, ~\E s \in Senders : RouteData(s)
    PROVE  routed' = routed /\ evicted' = evicted /\ readyAt' \in {readyAt, -1, Len(routed)}
<1> USE DEF roomVars, histVars
<1>1. CASE ClientStep
  BY <1>1, Zenon DEF ClientStep, Connect, SendBad, Crash, Emit, Abort, SenderExit, Advertise,
                     Acknowledge, SendClose, Drained, Write, Vanish
<1>2. ASSUME NEW c \in Conns, HandlerStep(c) \/ SinkStep(c)
      PROVE  routed' = routed /\ evicted' = evicted /\ readyAt' \in {readyAt, -1, Len(routed)}
  <2>1. routed' = routed /\ evicted' = evicted
    BY <1>2, Zenon
    DEF HandlerStep, SinkStep, RouteHelloSender, FlushDirect, RouteDone, RouteHelloReceiver, RouteReady,
        RouteDirect, RouteBad, SendNext, ReadClose, ReadEnd, LeaveRoom, AbortSink, Deliver,
        DeliverFails, SinkEnds
  <2>2. readyAt' = readyAt \/ readyAt' = -1 \/ readyAt' = Len(routed)
    BY <1>2, Zenon
    DEF HandlerStep, SinkStep, RouteHelloSender, FlushDirect, RouteDone, RouteHelloReceiver, RouteReady,
        RouteDirect, RouteBad, SendNext, ReadClose, ReadEnd, LeaveRoom, AbortSink, Deliver,
        DeliverFails, SinkEnds, RemoveRoom
  <2> QED
    BY <2>1, <2>2
<1> QED
  BY <1>1, <1>2 DEF Next

\* Every step but the routing of a data frame only moves what there is.
LEMMA AllMoved ==
    ASSUME TypeOK, HasSends, Idle, Tidy, Conserved, Next, ~\E s \in Senders : RouteData(s)
    PROVE  Moved
<1>1. CASE ClientStep
  BY <1>1, OutsideMoved
<1>2. ASSUME NEW c \in Conns, HandlerStep(c) PROVE Moved
  <2>1. CASE \/ c \in Senders /\ (RouteHelloSender(c) \/ FlushDirect(c) \/ RouteDone(c))
             \/ c \in Receivers /\ (RouteReady(c) \/ RouteDirect(c))
    BY <2>1, ControlMoved
  <2>2. CASE c \in Receivers /\ RouteHelloReceiver(c)
    BY <2>2, FlushMoved
  <2>3. CASE RouteBad(c) \/ ReadEnd(c) \/ LeaveRoom(c)
    BY <2>3, OutsideMoved
  <2>4. CASE SendNext(c)
    BY <2>4, SendMoved
  <2>5. CASE ReadClose(c) \/ AbortSink(c)
    BY <2>5, CutMoved
  <2> QED
    BY <1>2, <2>1, <2>2, <2>3, <2>4, <2>5 DEF HandlerStep
<1>3. ASSUME NEW c \in Conns, SinkStep(c) PROVE Moved
  <2>1. CASE Deliver(c)
    BY <2>1, DeliverMoved
  <2>2. CASE DeliverFails(c)
    BY <2>2, CutMoved
  <2>3. CASE SinkEnds(c)
    BY <2>3, OutsideMoved
  <2> QED
    BY <1>3, <2>1, <2>2, <2>3 DEF SinkStep
<1> QED
  BY <1>1, <1>2, <1>3 DEF Next

\* A session that is still quiet keeps its receivers' handlers and sinks.
Up == Quiet => ReceiversUp

LEMMA StaysQuiet == ASSUME TypeOK, [Next]_vars, Quiet' PROVE Quiet
<1>1. \A r \in Receivers : client[r] \in {"new", "up"}
  BY ClientLives DEF Quiet, Conns
<1> QED
  BY <1>1 DEF Quiet

LEMMA UpStep ==
    ASSUME TypeOK, HasSends, Tidy, Up, Next
    PROVE  Up'
<1> SUFFICES ASSUME Quiet' PROVE ReceiversUp'
  BY DEF Up
<1> USE DEF roomVars, connVars, histVars
<1>1. /\ Quiet /\ ReceiversUp /\ \A r \in Receivers : client'[r] \in {"new", "up"}
      /\ \A r \in Receivers : r \in Conns /\ inq[r] \in Seq(Frames)
  BY StaysQuiet DEF Up, Quiet, TypeOK, Conns
<1>2. ASSUME NEW r \in Receivers PROVE Lacks(inq'[r], {"Ready", "Close", "Bad"})
  <2>1. WireStep(r) /\ Lacks(inq[r], {"Ready", "Close", "Bad"})
    BY <1>1, Wires DEF ReceiversUp
  <2>2. /\ Lacks(<<>>, {"Ready", "Close", "Bad"})
        /\ inq[r] # <<>> => Lacks(Tail(inq[r]), {"Ready", "Close", "Bad"})
        /\ \A f \in Frames : f.type \notin {"Ready", "Close", "Bad"}
                               => Lacks(Append(inq[r], f), {"Ready", "Close", "Bad"})
    BY <1>1, <2>1, LacksMore
  <2> QED
    BY <1>1, <2>1, <2>2 DEF WireStep
<1>3. ASSUME NEW r \in Receivers, inq[r] # <<>> PROVE Head(inq[r]).type \notin {"Ready", "Close", "Bad"}
  <2>1. Lacks(inq[r], {"Ready", "Close", "Bad"}) /\ inq[r] \in Seq(Frames)
    BY <1>1 DEF ReceiversUp
  <2> QED
    BY <1>3, <2>1, LacksMore
<1>4. ~receiverDone'
  <2>1. CASE \E r \in Receivers : RouteReady(r)
    BY <1>3, <2>1 DEF RouteReady, Read
  <2>2. CASE ~\E r \in Receivers : RouteReady(r)
    <3>1. receiverDone' = receiverDone \/ receiverDone' = FALSE
      BY <2>2, Zenon
      DEF Next, ClientStep, Connect, SendBad, Crash, Emit, Abort, SenderExit, Advertise, Acknowledge,
          SendClose, Drained, Write, Vanish, HandlerStep, SinkStep, RouteHelloSender, FlushDirect,
          RouteData, RouteDone, RouteHelloReceiver, RouteDirect, RouteBad, SendNext,
          ReadClose, ReadEnd, LeaveRoom, AbortSink, Deliver, DeliverFails, SinkEnds, RemoveRoom
    <3> QED
      BY <1>1, <3>1 DEF ReceiversUp
  <2> QED
    BY <2>1, <2>2
<1>5. ASSUME NEW r \in Receivers
      PROVE  handler'[r] \notin {"leaving", "left", "closed", "aborted"} /\ sink'[r] = "run"
  <2>1. /\ handler[r] \notin {"leaving", "left", "closed", "aborted"} /\ sink[r] = "run"
        /\ client[r] # "gone" /\ r \in Conns
    BY <1>1 DEF ReceiversUp, Quiet
  <2>2. CASE ClientStep
    <3>1. sink' = sink /\ (handler' = handler \/ \E c \in Conns : handler' = [handler EXCEPT ![c] = "reading"])
      BY <2>2, Zenon
      DEF ClientStep, Connect, SendBad, Crash, Emit, Abort, SenderExit, Advertise, Acknowledge, SendClose,
          Drained, Write, Vanish
    <3> QED
      BY <2>1, <3>1 DEF TypeOK
  <2>3. ASSUME NEW c \in Conns, HandlerStep(c)
        PROVE  handler'[r] \notin {"leaving", "left", "closed", "aborted"} /\ sink'[r] = "run"
    <3>1. CASE RouteBad(c) \/ ReadClose(c) \/ ReadEnd(c) \/ LeaveRoom(c) \/ AbortSink(c)
      <4>1. c # r
        <5>1. RouteBad(c) \/ ReadClose(c) => Head(inq[c]).type \in {"Bad", "Close"} /\ inq[c] # <<>>
          BY DEF RouteBad, ReadClose
        <5>2. ReadEnd(c) \/ LeaveRoom(c) \/ AbortSink(c)
                => client[c] = "gone" \/ handler[c] \in {"leaving", "left"}
          BY DEF ReadEnd, LeaveRoom, AbortSink
        <5> QED
          BY <1>3, <2>1, <3>1, <5>1, <5>2
      <4>2. /\ \E h : handler' = [handler EXCEPT ![c] = h]
            /\ sink' = sink \/ sink' = [sink EXCEPT ![c] = "dead"]
        BY <3>1, Zenon DEF RouteBad, ReadClose, ReadEnd, LeaveRoom, AbortSink
      <4> QED
        BY <2>1, <4>1, <4>2 DEF TypeOK
    <3>2. CASE ~(RouteBad(c) \/ ReadClose(c) \/ ReadEnd(c) \/ LeaveRoom(c) \/ AbortSink(c))
      <4>1. /\ sink' = sink
            /\ handler' = [handler EXCEPT ![c] = "direct"] \/ \E ss : Then(c, ss)
        BY <2>3, <3>2, Zenon
        DEF HandlerStep, RouteHelloSender, FlushDirect, RouteData, RouteDone, RouteHelloReceiver,
            RouteReady, RouteDirect, SendNext
      <4>2. \E h \in {"direct", "reading", "sending"} : handler' = [handler EXCEPT ![c] = h]
        BY <4>1 DEF Then
      <4> QED
        BY <2>1, <4>1, <4>2 DEF TypeOK
    <3> QED
      BY <3>1, <3>2
  <2>4. ASSUME NEW c \in Conns, SinkStep(c)
        PROVE  handler'[r] \notin {"leaving", "left", "closed", "aborted"} /\ sink'[r] = "run"
    <3>1. handler' = handler
      BY <2>4, Zenon DEF SinkStep, Deliver, DeliverFails, SinkEnds
    <3>2. sink' = sink \/ (sink' = [sink EXCEPT ![c] = "dead"] /\ c # r)
      BY <2>1, <2>4 DEF SinkStep, Deliver, DeliverFails, SinkEnds
    <3> QED
      BY <2>1, <3>1, <3>2 DEF TypeOK
  <2> QED
    BY <2>2, <2>3, <2>4 DEF Next
<1> QED
  BY <1>2, <1>4, <1>5 DEF ReceiversUp

-----------------------------------------------------------------------------
(* The invariant holds. *)

Flow == Idle /\ Fresh /\ Tidy /\ Conserved /\ Up /\ Lossless /\ Barred

LEMMA FlowInit == Init => Flow
<1> SUFFICES ASSUME Init PROVE Flow
  OBVIOUS
<1>1. /\ \A c \in Conns : /\ inq[c] = <<>> /\ todo[c] = <<>> /\ chan[c] = <<>> /\ got[c] = <<>>
                          /\ handler[c] = "idle" /\ client[c] = "new" /\ sink[c] = "run"
      /\ buffer = <<>> /\ routed = <<>> /\ readyAt = -1
  BY DEF Init
<1>2. pendingDirect = NoFrame /\ receiverDone = FALSE
  BY DEF Init
<1>3. \A c \in Conns : Pending[c] = <<>>
  BY <1>1, FramesOfSends DEF Pending
<1>4. InQueue(<<>>) = {} /\ Distinct(<<>>)
  BY NothingQueued
<1>5. ASSUME NEW F, \A c \in Conns : F[c] = <<>> PROVE Once(F) /\ InFamily(F) = {}
  BY <1>4, <1>5 DEF Once, InFamily
<1>6. /\ Once(Pending) /\ InFamily(Pending) = {} /\ Once(chan) /\ InFamily(chan) = {}
      /\ Once(got) /\ InFamily(got) = {} /\ InQueue(buffer) = {} /\ Distinct(buffer)
      /\ InQueue(routed) = {} /\ Distinct(routed)
  BY <1>1, <1>3, <1>4, <1>5
<1>7. Held = {} /\ Conserved
  BY <1>6 DEF Conserved, Apart, Held
<1>8. Fresh
  <2>1. \A c \in Conns : Wire(c, inq[c], sent[c])
    BY <1>1 DEF Wire
  <2> QED
    BY <1>1, <1>6, <2>1 DEF Fresh
<1>9. \A types : Lacks(<<>>, types)
  BY DEF Lacks
<1>10. Tidy
  BY <1>1, <1>2, <1>4, <1>9 DEF Tidy, TidyHandler
<1>11. Up
  BY <1>1, <1>2, <1>9 DEF Up, ReceiversUp, Conns
<1>12. Idle /\ Lossless /\ Barred
  BY <1>1, <1>6 DEF Idle, Lossless, Barred
<1> QED
  BY <1>7, <1>8, <1>10, <1>11, <1>12 DEF Flow

\* Routing a data frame keeps the invariant.
LEMMA FlowRoute ==
    ASSUME TypeOK, HasSends, BInv, Flow, Next, NEW s \in Senders, RouteData(s)
    PROVE  Flow'
<1> DEFINE f == Head(inq[s])
           n == Len(routed)
<1>1. Idle /\ Fresh /\ Tidy /\ Conserved /\ Up /\ Lossless /\ Barred
  BY DEF Flow
<1>2. /\ Fresh' /\ f \in Frames /\ IsData(f) /\ f \notin InQueue(routed)
      /\ routed' = Append(routed, f)
  BY <1>1, FreshRoute
<1>3. /\ Tidy' /\ Conserved' /\ f \notin Held
      /\ Held' \subseteq Held \cup {f} /\ (receiverDone => Held' \subseteq Held)
      /\ Held \subseteq Held' \cup evicted' /\ evicted \subseteq evicted'
      /\ Calm => f \in Held'
  BY <1>1, RouteMoved
<1>4. Idle' /\ Up'
  BY <1>1, IdleStep, UpStep
<1>5. routed \in Seq(Frames) /\ Distinct(routed) /\ n \in Nat
  BY <1>1 DEF TypeOK, Fresh
<1> HIDE DEF f
<1>6. InQueue(routed') = InQueue(routed) \cup {f}
  <2>1. InQueue(Append(routed, f)) = InQueue(routed) \cup {g \in {f} : IsData(g)}
    BY <1>2, <1>5, QueueAppend
  <2> QED
    BY <1>2, <2>1
<1>7. Lossless'
  <2> SUFFICES ASSUME Quiet' PROVE InQueue(routed') \subseteq evicted' \cup Held'
    BY DEF Lossless
  <2>1. Quiet /\ Calm
    BY <1>1, StaysQuiet DEF Calm, Up
  <2> QED
    BY <1>1, <1>3, <1>6, <2>1 DEF Lossless
<1>8. Barred'
  <2> SUFFICES ASSUME readyAt' >= 0, NEW i \in (readyAt' + 1) .. Len(routed')
               PROVE  routed'[i] \notin Held'
    BY DEF Barred
  <2>1. readyAt' = readyAt /\ receiverDone /\ readyAt \in 0 .. n
    <3>1. readyAt' = readyAt
      BY DEF RouteData
    <3> QED
      BY <1>5, <3>1 DEF BInv, ReadyFacts
  <2>2. Held' \subseteq Held
    BY <1>3, <2>1
  <2>3. /\ Len(routed') = n + 1 /\ routed'[n + 1] = f /\ \A j \in 1 .. n : routed'[j] = routed[j]
    BY <1>2, <1>5
  <2>4. CASE i = n + 1
    BY <1>3, <2>2, <2>3, <2>4
  <2>5. CASE i \in (readyAt + 1) .. n
    <3>1. routed[i] \notin Held /\ routed'[i] = routed[i]
      BY <1>1, <2>1, <2>3, <2>5 DEF Barred
    <3> QED
      BY <2>2, <3>1
  <2> QED
    BY <1>5, <2>1, <2>3, <2>4, <2>5
<1> QED
  BY <1>2, <1>3, <1>4, <1>7, <1>8 DEF Flow

LEMMA FlowStep == TypeOK /\ HasSends /\ BInv /\ Flow /\ [Next]_vars => Flow'
<1> SUFFICES ASSUME TypeOK, HasSends, BInv, Flow, [Next]_vars PROVE Flow'
  OBVIOUS
<1>1. CASE UNCHANGED vars
  <2>1. UNCHANGED <<buffer, pendingDirect, receiverDone, client, sent, inq, handler, todo, chan, sink,
                    got, routed, evicted, readyAt>>
    BY <1>1, Zenon DEF vars, roomVars, connVars, histVars
  <2>2. Pending' = Pending
    BY <2>1 DEF Pending
  <2>3. Held' = Held
    BY <2>1, <2>2 DEF Held
  <2>4. Idle' /\ Fresh'
    BY <2>1 DEF Flow, Idle, Fresh
  <2>5. Tidy'
    BY <2>1 DEF Flow, Tidy
  <2>6. Conserved'
    BY <2>1, <2>2, <2>3 DEF Flow, Conserved
  <2>7. Up' /\ Lossless' /\ Barred'
    <3>1. Quiet' = Quiet /\ ReceiversUp' = ReceiversUp
      BY <2>1 DEF Quiet, ReceiversUp
    <3> QED
      BY <2>1, <2>3, <3>1 DEF Flow, Up, Lossless, Barred
  <2> QED
    BY <2>4, <2>5, <2>6, <2>7 DEF Flow
<1>2. CASE Next /\ \E s \in Senders : RouteData(s)
  BY <1>2, FlowRoute
<1>3. CASE Next /\ ~\E s \in Senders : RouteData(s)
  <2>1. Idle /\ Fresh /\ Tidy /\ Conserved /\ Up /\ Lossless /\ Barred
    BY DEF Flow
  <2>2. Tidy' /\ Conserved' /\ Held' \subseteq Held /\ (Calm => Held \subseteq Held')
    BY <1>3, <2>1, AllMoved DEF Moved
  <2>3. Idle' /\ Fresh' /\ Up'
    BY <1>3, <2>1, IdleStep, FreshStep, UpStep
  <2>4. routed' = routed /\ evicted' = evicted /\ readyAt' \in {readyAt, -1, Len(routed)}
    BY <1>3, NothingRouted
  <2>5. Lossless'
    <3> SUFFICES ASSUME Quiet' PROVE InQueue(routed') \subseteq evicted' \cup Held'
      BY DEF Lossless
    <3>1. Quiet /\ Calm
      BY <2>1, StaysQuiet DEF Calm, Up
    <3> QED
      BY <2>1, <2>2, <2>4, <3>1 DEF Lossless
  <2>6. Barred'
    <3> SUFFICES ASSUME readyAt' >= 0, NEW i \in (readyAt' + 1) .. Len(routed')
                 PROVE  routed'[i] \notin Held'
      BY DEF Barred
    <3>1. Len(routed) \in Nat
      BY DEF TypeOK
    <3>2. readyAt' = readyAt
      BY <2>4, <3>1
    <3>3. routed[i] \notin Held
      BY <2>1, <2>4, <3>2 DEF Barred
    <3> QED
      BY <2>2, <2>4, <3>3
  <2> QED
    BY <2>2, <2>3, <2>5, <2>6 DEF Flow
<1> QED
  BY <1>1, <1>2, <1>3

LEMMA FlowInvariant == Spec => [](TypeOK /\ HasSends /\ Reg /\ BInv /\ Flow)
<1>1. Spec => [](TypeOK /\ HasSends /\ Reg /\ BInv)
  BY BufferInit, BufferNext, RegInvariant, PTL DEF Spec
<1>2. Spec => []Flow
  BY <1>1, FlowInit, FlowStep, PTL DEF Spec
<1> QED
  BY <1>1, <1>2, PTL

-----------------------------------------------------------------------------
(* Places. *)

\* A place of f in the buffer, or in the queue of one connection.
Place(x, kind, c, q, f) == \E i \in DOMAIN q : x = <<kind, c, i>> /\ q[i] = f

LEMMA PlaceKinds ==
    ASSUME TypeOK, NEW f, NEW x
    PROVE  x \in Places(f) <=>
             \/ Place(x, "buffer", NoConn, buffer, f)
             \/ \E c \in Conns : \/ Place(x, "todo", c, Pending[c], f)
                                 \/ Place(x, "chan", c, chan[c], f)
                                 \/ Place(x, "got", c, got[c], f)
<1>1. \A c \in Conns : /\ DOMAIN Pending[c] = DOMAIN todo[c]
                       /\ \A i \in DOMAIN todo[c] : Pending[c][i] = todo[c][i].frame
  BY DEF Pending, FramesOf
<1>2. \A c \in Conns : Place(x, "todo", c, Pending[c], f)
                         <=> \E i \in DOMAIN todo[c] : x = <<"todo", c, i>> /\ todo[c][i].frame = f
  BY <1>1 DEF Place
<1>3. x \in Places(f) <=>
        \/ \E i \in DOMAIN buffer : x = <<"buffer", NoConn, i>> /\ buffer[i] = f
        \/ \E c \in Conns :
             \/ \E i \in DOMAIN todo[c] : x = <<"todo", c, i>> /\ todo[c][i].frame = f
             \/ \E i \in DOMAIN chan[c] : x = <<"chan", c, i>> /\ chan[c][i] = f
             \/ \E i \in DOMAIN got[c] : x = <<"got", c, i>> /\ got[c][i] = f
  BY DEF Places
<1> QED
  BY <1>2, <1>3 DEF Place

\* A frame has a place exactly if it is held.
LEMMA PlacedIsHeld ==
    ASSUME TypeOK, NEW f, IsData(f)
    PROVE  Places(f) # {} <=> f \in Held
<1>1. \A kind, c, q : (\E x : Place(x, kind, c, q, f)) <=> f \in InQueue(q)
  BY DEF Place, InQueue
<1>2. Places(f) # {} <=> \/ f \in InQueue(buffer)
                         \/ \E c \in Conns : \/ f \in InQueue(Pending[c])
                                             \/ f \in InQueue(chan[c]) \/ f \in InQueue(got[c])
  <2>1. Places(f) # {} <=> \E x : x \in Places(f)
    OBVIOUS
  <2> QED
    BY <1>1, <2>1, PlaceKinds, Zenon
<1> QED
  BY <1>2 DEF Held, InFamily

\* Two places in one queue, or in one family, are the same.
LEMMA SamePlace ==
    ASSUME NEW F, Once(F), NEW f, IsData(f), NEW kind, NEW x, NEW y,
           \E c \in Conns : Place(x, kind, c, F[c], f), \E c \in Conns : Place(y, kind, c, F[c], f)
    PROVE  x = y /\ f \in InFamily(F)
<1>1. PICK c \in Conns : Place(x, kind, c, F[c], f)
  OBVIOUS
<1>2. PICK d \in Conns : Place(y, kind, d, F[d], f)
  OBVIOUS
<1>3. f \in InQueue(F[c]) /\ f \in InQueue(F[d])
  BY <1>1, <1>2 DEF Place, InQueue
<1>4. c = d
  BY <1>3 DEF Once
<1>5. Distinct(F[c])
  BY DEF Once
<1>6. x = y
  BY <1>1, <1>2, <1>4, <1>5 DEF Place, Distinct
<1> QED
  BY <1>3, <1>6 DEF InFamily

LEMMA OnePlace ==
    ASSUME TypeOK, Conserved, NEW f, IsData(f), NEW x \in Places(f), NEW y \in Places(f)
    PROVE  x = y
<1> DEFINE Is(z, kind) ==
             IF kind = "buffer" THEN Place(z, kind, NoConn, buffer, f)
             ELSE IF kind = "todo" THEN \E c \in Conns : Place(z, kind, c, Pending[c], f)
             ELSE IF kind = "chan" THEN \E c \in Conns : Place(z, kind, c, chan[c], f)
             ELSE \E c \in Conns : Place(z, kind, c, got[c], f)
           Kinds == {"buffer", "todo", "chan", "got"}
           Holds(kind) == CASE kind = "buffer" -> InQueue(buffer) [] kind = "todo" -> InFamily(Pending)
                            [] kind = "chan" -> InFamily(chan) [] kind = "got" -> InFamily(got)
<1>1. \A z \in Places(f) : \E kind \in Kinds : Is(z, kind)
  BY PlaceKinds
<1>2. ASSUME NEW u, NEW v, NEW kind \in Kinds, Is(u, kind), Is(v, kind)
      PROVE  u = v /\ f \in Holds(kind)
  <2>1. CASE kind = "buffer"
    BY <1>2, <2>1 DEF Conserved, Distinct, Place, InQueue
  <2>2. CASE kind = "todo"
    BY <1>2, <2>2, SamePlace DEF Conserved
  <2>3. CASE kind = "chan"
    BY <1>2, <2>3, SamePlace DEF Conserved
  <2>4. CASE kind = "got"
    BY <1>2, <2>4, SamePlace DEF Conserved
  <2> QED
    BY <2>1, <2>2, <2>3, <2>4
<1>3. \A j, k \in Kinds : f \in Holds(j) /\ f \in Holds(k) => j = k
  BY DEF Conserved, Apart
<1>4. PICK j \in Kinds : Is(x, j)
  BY <1>1
<1>5. PICK k \in Kinds : Is(y, k)
  BY <1>1
<1> HIDE DEF Is, Holds, Kinds
<1>6. f \in Holds(j) /\ f \in Holds(k)
  BY <1>2, <1>4, <1>5
<1>7. j = k
  BY <1>3, <1>6
<1> QED
  BY <1>2, <1>4, <1>5, <1>7

-----------------------------------------------------------------------------
(* The theorems. *)

LEMMA RoutedIsData == ASSUME TypeOK, Fresh, NEW f \in DataFrames PROVE IsData(f) /\ f \in InQueue(routed)
BY DEF DataFrames, Fresh, Earlier, InQueue

(***************************************************************************)
(* The relay never duplicates a data frame (lib.rs:262-266, 316-323): it   *)
(* is in the buffer, among the sends of one handler, in one channel or     *)
(* delivered once, for every interleaving of the handlers, of receivers    *)
(* that displace each other, and of the failures of the clients.           *)
(***************************************************************************)
THEOREM NeverTwice == Spec => []AtMostOnce
<1>1. TypeOK /\ Flow => AtMostOnce
  <2> SUFFICES ASSUME TypeOK, Flow, NEW f \in DataFrames PROVE Cardinality(Places(f)) <= 1
    BY DEF AtMostOnce
  <2>1. IsData(f) /\ Conserved
    BY RoutedIsData DEF Flow
  <2>2. CASE Places(f) = {}
    BY <2>2, FS_EmptySet
  <2>3. CASE Places(f) # {}
    <3>1. PICK x : x \in Places(f)
      BY <2>3
    <3>2. Places(f) = {x}
      BY <2>1, <3>1, OnePlace
    <3>3. Cardinality({x}) = 1
      BY FS_Singleton
    <3> QED
      BY <3>2, <3>3
  <2> QED
    BY <2>2, <2>3
<1> QED
  BY <1>1, FlowInvariant, PTL

(***************************************************************************)
(* Backpressure, not drop (lib.rs:317-322): while no receiver has finished *)
(* or failed and no sender may send DONE, every data frame route() has     *)
(* seen is buffered, queued or delivered, unless push_buffer evicted it.   *)
(***************************************************************************)
THEOREM Backpressure == Spec => []NothingLost
<1>1. TypeOK /\ Flow => NothingLost
  <2> SUFFICES ASSUME TypeOK, Flow, Quiet, NEW f \in DataFrames \ evicted PROVE Places(f) # {}
    BY DEF NothingLost, Quiet
  <2>1. IsData(f) /\ f \in InQueue(routed)
    BY RoutedIsData DEF Flow
  <2>2. f \in Held
    BY <2>1 DEF Flow, Lossless
  <2> QED
    BY <2>1, <2>2, PlacedIsHeld
<1> QED
  BY <1>1, FlowInvariant, PTL

(***************************************************************************)
(* After READY nothing is kept or forwarded (lib.rs:295, 554-560): what    *)
(* route() sees of data afterwards is in no buffer, handler or channel,    *)
(* and no client gets it.                                                  *)
(***************************************************************************)
THEOREM ReadyIsFinal == Spec => []NoForwardAfterReady
<1>1. TypeOK /\ BInv /\ Flow => NoForwardAfterReady
  <2> SUFFICES ASSUME TypeOK, BInv, Flow, readyAt >= 0, NEW i \in (readyAt + 1) .. Len(routed)
               PROVE  Places(routed[i]) = {}
    BY DEF NoForwardAfterReady
  <2>1. i \in DOMAIN routed
    BY DEF TypeOK, BInv, ReadyFacts
  <2>2. IsData(routed[i]) /\ routed[i] \notin Held
    BY <2>1 DEF Flow, Fresh, Earlier, Barred
  <2> QED
    BY <2>2, PlacedIsHeld
<1> QED
  BY <1>1, FlowInvariant, PTL

-----------------------------------------------------------------------------
(* Order. *)

\* Where f is in the routing order R.
Index(R, f) == CHOOSE i \in DOMAIN R : R[i] = f

\* f precedes g on their way to a receiver that registered after m frames, if
\* they are of one class: both were buffered when it came, or both came later
\* and from the same sender.
SameClass(R, m, f, g) ==
    \/ Index(R, f) <= m /\ Index(R, g) <= m
    \/ Index(R, f) > m /\ Index(R, g) > m /\ f.from = g.from
Precedes(R, m, f, g) == SameClass(R, m, f, g) => Index(R, f) < Index(R, g)

InOrder(R, m, q) ==
    \A i, j \in DOMAIN q : i < j /\ IsData(q[i]) /\ IsData(q[j]) => Precedes(R, m, q[i], q[j])

\* The data frames among the sends ss to r, and their order.
SendsData(ss, r, i) == ss[i].to = r /\ IsData(ss[i].frame)
Sending(ss, r) == {ss[i].frame : i \in {i \in DOMAIN ss : SendsData(ss, r, i)}}
SendsInOrder(R, m, ss, r) ==
    \A i, j \in DOMAIN ss : i < j /\ SendsData(ss, r, i) /\ SendsData(ss, r, j)
                               => Precedes(R, m, ss[i].frame, ss[j].frame)

\* What was delivered to r, what its channel holds and what the handlers
\* still have to send it are in order, in this order; what they still have to
\* send is the flush of r itself, or a frame its sender's handler hands over.
Delivering(R, m, g, ch) ==
    /\ InOrder(R, m, g) /\ InOrder(R, m, ch)
    /\ \A e \in InQueue(g) : \A f \in InQueue(ch) : Precedes(R, m, e, f)
Sent(R, m, g, ch, ss, r, c) ==
    /\ SendsInOrder(R, m, ss, r)
    /\ \A f \in Sending(ss, r) :
          /\ IF Index(R, f) <= m THEN c = r ELSE f.from = c
          /\ \A e \in InQueue(g) \cup InQueue(ch) : Precedes(R, m, e, f)

\* A receiver that has not registered is sent nothing.
Untouched(r) ==
    /\ InQueue(got[r]) = {} /\ InQueue(chan[r]) = {}
    /\ \A c \in Conns : Sending(todo[c], r) = {}
OrderTo(r) ==
    /\ mark[r] <= Len(routed)
    /\ ~joined[r] => Untouched(r)
    /\ Delivering(routed, mark[r], got[r], chan[r])
    /\ \A c \in Conns : Sent(routed, mark[r], got[r], chan[r], todo[c], r, c)
Ordered == \A r \in Receivers : OrderTo(r)

\* What is left of a queue, or of a queue and a frame that is no data, is in
\* order.
LEMMA OrderLeft ==
    ASSUME NEW R, NEW m, NEW q \in Seq(Frames), InOrder(R, m, q), NEW p,
           \/ p = q \/ p = <<>> \/ (q # <<>> /\ p = Tail(q))
           \/ \E f \in Frames : ~IsData(f) /\ p = Append(q, f)
    PROVE  InOrder(R, m, p) /\ InQueue(p) \subseteq InQueue(q)
<1>1. CASE p = q
  BY <1>1
<1>2. CASE p = <<>>
  BY <1>2, NothingQueued DEF InOrder
<1>3. CASE q # <<>> /\ p = Tail(q)
  <2>1. \A i \in DOMAIN p : i + 1 \in DOMAIN q /\ p[i] = q[i + 1] /\ i \in Nat
    BY <1>3
  <2>2. \A i, j \in DOMAIN p : i < j => i + 1 < j + 1
    BY <2>1
  <2> QED
    BY <2>1, <2>2 DEF InOrder, InQueue
<1>4. ASSUME NEW f \in Frames, ~IsData(f), p = Append(q, f) PROVE InOrder(R, m, p) /\ InQueue(p) \subseteq InQueue(q)
  <2>1. \A i \in DOMAIN p : (i \in DOMAIN q /\ p[i] = q[i]) \/ p[i] = f
    BY <1>4
  <2> QED
    BY <1>4, <2>1 DEF InOrder, InQueue
<1> QED
  BY <1>1, <1>2, <1>3, <1>4

\* A data frame appended to a queue it follows.
LEMMA OrderMore ==
    ASSUME NEW R, NEW m, NEW q \in Seq(Frames), InOrder(R, m, q), NEW f \in Frames,
           \A e \in InQueue(q) : Precedes(R, m, e, f)
    PROVE  /\ InOrder(R, m, Append(q, f))
           /\ InQueue(Append(q, f)) = InQueue(q) \cup {g \in {f} : IsData(g)}
<1> DEFINE p == Append(q, f)
<1>1. /\ DOMAIN q = 1 .. Len(q) /\ Len(q) \in Nat /\ DOMAIN p = 1 .. (Len(q) + 1)
      /\ p[Len(q) + 1] = f /\ \A i \in 1 .. Len(q) : p[i] = q[i]
  OBVIOUS
<1> HIDE DEF p
<1>2. \A i \in DOMAIN p : i = Len(q) + 1 \/ i \in DOMAIN q
  BY <1>1
<1>3. InOrder(R, m, p)
  <2> SUFFICES ASSUME NEW i \in DOMAIN p, NEW j \in DOMAIN p, i < j, IsData(p[i]), IsData(p[j])
               PROVE  Precedes(R, m, p[i], p[j])
    BY DEF InOrder
  <2>1. i \in DOMAIN q /\ p[i] = q[i]
    BY <1>1
  <2>2. CASE j = Len(q) + 1
    BY <1>1, <2>1, <2>2 DEF InQueue
  <2>3. CASE j \in DOMAIN q
    BY <1>1, <2>1, <2>3 DEF InOrder
  <2> QED
    BY <1>2, <2>2, <2>3
<1>4. InQueue(p) = InQueue(q) \cup {g \in {f} : IsData(g)}
  <2>1. \A g : (\E i \in DOMAIN p : p[i] = g) <=> (\E i \in DOMAIN q : q[i] = g) \/ g = f
    <3>1. Len(q) + 1 \in DOMAIN p /\ \A i \in DOMAIN q : i \in DOMAIN p
      BY <1>1
    <3> QED
      BY <1>1, <1>2, <3>1
  <2> QED
    BY <2>1 DEF InQueue
<1> QED
  BY <1>3, <1>4 DEF p

\* A queue's head precedes the rest of it.
LEMMA OrderHead ==
    ASSUME NEW R, NEW m, NEW q \in Seq(Frames), q # <<>>, InOrder(R, m, q)
    PROVE  /\ Head(q) \in Frames /\ (IsData(Head(q)) => Head(q) \in InQueue(q))
           /\ IsData(Head(q)) => \A f \in InQueue(Tail(q)) : Precedes(R, m, Head(q), f)
<1>1. /\ 1 \in DOMAIN q /\ Head(q) = q[1] /\ Head(q) \in Frames
      /\ \A i \in DOMAIN Tail(q) : i + 1 \in DOMAIN q /\ Tail(q)[i] = q[i + 1] /\ 1 < i + 1
  OBVIOUS
<1> QED
  BY <1>1 DEF InOrder, InQueue

\* Sends to other connections.
Elsewhere(ss, r) == \A i \in DOMAIN ss : ss[i].to # r

LEMMA SendsElsewhere ==
    ASSUME NEW R, NEW m, NEW ss, NEW r, Elsewhere(ss, r)
    PROVE  Sending(ss, r) = {} /\ SendsInOrder(R, m, ss, r)
BY DEF Elsewhere, Sending, SendsInOrder, SendsData

\* The first send precedes the rest, which stay in order.
LEMMA SendsTail ==
    ASSUME NEW R, NEW m, NEW ss \in Seq(Sends), ss # <<>>, NEW r, SendsInOrder(R, m, ss, r)
    PROVE  LET h == Head(ss) IN
           /\ SendsInOrder(R, m, Tail(ss), r) /\ Sending(Tail(ss), r) \subseteq Sending(ss, r)
           /\ h.to = r /\ IsData(h.frame) =>
                /\ h.frame \in Sending(ss, r)
                /\ \A f \in Sending(Tail(ss), r) : Precedes(R, m, h.frame, f)
<1> DEFINE t == Tail(ss)
<1>1. /\ 1 \in DOMAIN ss /\ Head(ss) = ss[1]
      /\ \A i \in DOMAIN t : i + 1 \in DOMAIN ss /\ t[i] = ss[i + 1] /\ 1 < i + 1 /\ i \in Nat
  OBVIOUS
<1> HIDE DEF t
<1>2. \A i, j \in DOMAIN t : i < j => i + 1 < j + 1
  BY <1>1
<1>3. SendsInOrder(R, m, t, r) /\ Sending(t, r) \subseteq Sending(ss, r)
  BY <1>1, <1>2 DEF SendsInOrder, SendsData, Sending
<1>4. ASSUME ss[1].to = r, IsData(ss[1].frame)
      PROVE  /\ ss[1].frame \in Sending(ss, r)
             /\ \A f \in Sending(t, r) : Precedes(R, m, ss[1].frame, f)
  BY <1>1, <1>4 DEF SendsInOrder, SendsData, Sending
<1> QED
  BY <1>1, <1>3, <1>4 DEF t

\* Each routed frame has its index, which later frames leave alone.
LEMMA IndexOf ==
    ASSUME NEW R \in Seq(Frames), Distinct(R), NEW k \in 1 .. Len(R), IsData(R[k])
    PROVE  Index(R, R[k]) = k
<1>1. \A i \in DOMAIN R : R[i] = R[k] => i = k
  BY DEF Distinct
<1> QED
  BY <1>1 DEF Index

LEMMA IndexType ==
    ASSUME NEW R \in Seq(Frames), Distinct(R), NEW f \in InQueue(R)
    PROVE  Index(R, f) \in 1 .. Len(R) /\ Index(R, f) \in Nat
<1>1. PICK i \in 1 .. Len(R) : R[i] = f /\ IsData(f)
  BY QueueItems
<1>2. Index(R, f) = i
  BY <1>1, IndexOf
<1> QED
  BY <1>2

LEMMA IndexMore ==
    ASSUME NEW R \in Seq(Frames), Distinct(R), NEW f \in Frames, IsData(f), f \notin InQueue(R)
    PROVE  /\ Index(Append(R, f), f) = Len(R) + 1
           /\ \A g \in InQueue(R) : /\ Index(Append(R, f), g) = Index(R, g)
                                    /\ Index(R, g) \in 1 .. Len(R)
<1> DEFINE S == Append(R, f)
<1>1. /\ S \in Seq(Frames) /\ Len(S) = Len(R) + 1 /\ Len(R) \in Nat /\ S[Len(R) + 1] = f
      /\ \A i \in 1 .. Len(R) : S[i] = R[i]
  OBVIOUS
<1>2. Distinct(S)
  BY QueueAppend
<1> HIDE DEF S
<1>3. Index(S, f) = Len(R) + 1
  <2>1. Len(R) + 1 \in 1 .. Len(S) /\ IsData(S[Len(R) + 1])
    BY <1>1
  <2> QED
    BY <1>1, <1>2, <2>1, IndexOf
<1>4. ASSUME NEW g \in InQueue(R) PROVE Index(S, g) = Index(R, g) /\ Index(R, g) \in 1 .. Len(R)
  <2>1. PICK i \in 1 .. Len(R) : R[i] = g /\ IsData(g)
    BY QueueItems
  <2>2. i \in 1 .. Len(S) /\ S[i] = g
    BY <1>1, <2>1
  <2>3. Index(S, g) = i
    BY <1>1, <1>2, <2>1, <2>2, IndexOf
  <2>4. Index(R, g) = i
    BY <2>1, IndexOf
  <2> QED
    BY <2>3, <2>4
<1> QED
  BY <1>3, <1>4 DEF S

\* Routing one more frame leaves the order of the earlier ones alone.
LEMMA PrecedesMore ==
    ASSUME NEW R \in Seq(Frames), Distinct(R), NEW f \in Frames, IsData(f), f \notin InQueue(R), NEW m,
           NEW g \in InQueue(R), NEW h \in InQueue(R), Precedes(R, m, g, h)
    PROVE  Precedes(Append(R, f), m, g, h)
<1>1. Index(Append(R, f), g) = Index(R, g) /\ Index(Append(R, f), h) = Index(R, h)
  BY IndexMore
<1> QED
  BY <1>1, Zenon DEF Precedes, SameClass

LEMMA OrderGrows ==
    ASSUME NEW R \in Seq(Frames), Distinct(R), NEW f \in Frames, IsData(f), f \notin InQueue(R), NEW m,
           NEW g \in Seq(Frames), NEW ch \in Seq(Frames), NEW ss \in Seq(Sends), NEW r, NEW c,
           InQueue(g) \subseteq InQueue(R), InQueue(ch) \subseteq InQueue(R),
           Sending(ss, r) \subseteq InQueue(R),
           Delivering(R, m, g, ch), Sent(R, m, g, ch, ss, r, c)
    PROVE  Delivering(Append(R, f), m, g, ch) /\ Sent(Append(R, f), m, g, ch, ss, r, c)
<1> DEFINE S == Append(R, f)
<1>1. \A a, b \in InQueue(R) : Precedes(R, m, a, b) => Precedes(S, m, a, b)
  BY PrecedesMore
<1>2. \A a \in InQueue(R) : Index(S, a) = Index(R, a)
  BY IndexMore
<1> HIDE DEF S
<1>3. \A q \in {g, ch} : \A i \in DOMAIN q : IsData(q[i]) => q[i] \in InQueue(R)
  BY DEF InQueue
<1>4. InOrder(S, m, g) /\ InOrder(S, m, ch)
  BY <1>1, <1>3 DEF InOrder, Delivering
<1>5. Delivering(S, m, g, ch)
  BY <1>1, <1>4 DEF Delivering
<1>6. \A i \in DOMAIN ss : SendsData(ss, r, i) => ss[i].frame \in InQueue(R)
  BY DEF Sending
<1>7. SendsInOrder(S, m, ss, r)
  BY <1>1, <1>6 DEF SendsInOrder, Sent
<1>8. Sent(S, m, g, ch, ss, r, c)
  BY <1>1, <1>2, <1>7 DEF Sent
<1> QED
  BY <1>5, <1>8 DEF S

\* What a handler has to send to r is pending.
LEMMA SendingIsPending ==
    ASSUME TypeOK, NEW r, NEW c \in Conns
    PROVE  Sending(todo[c], r) \subseteq InQueue(Pending[c])
<1>1. Pending[c] = FramesOf(todo[c])
  BY PendingFamily
<1> QED
  BY <1>1 DEF Sending, SendsData, FramesOf, InQueue

\* All that is on its way to r was routed.
LEMMA OrderHeld ==
    ASSUME TypeOK, Conserved, NEW r \in Receivers
    PROVE  /\ InQueue(got[r]) \subseteq InQueue(routed) /\ InQueue(chan[r]) \subseteq InQueue(routed)
           /\ \A c \in Conns : Sending(todo[c], r) \subseteq InQueue(routed)
BY SendingIsPending DEF Conserved, Held, InFamily, Conns

\* A step that only takes frames to r away, from its channel or its senders.
LEMMA OrderShrinks ==
    ASSUME NEW r, OrderTo(r), routed' = routed, mark'[r] = mark[r], joined[r] => joined'[r],
           got'[r] = got[r], InQueue(chan'[r]) \subseteq InQueue(chan[r]),
           InOrder(routed, mark[r], chan'[r]),
           \A c \in Conns : /\ Sending(todo'[c], r) \subseteq Sending(todo[c], r)
                            /\ SendsInOrder(routed, mark[r], todo'[c], r)
    PROVE  OrderTo(r)'
<1>1. ~joined'[r] => Untouched(r)'
  BY DEF OrderTo, Untouched
<1>2. Delivering(routed, mark[r], got[r], chan'[r])
  BY DEF OrderTo, Delivering
<1>3. \A c \in Conns : Sent(routed, mark[r], got[r], chan'[r], todo'[c], r, c)
  BY DEF OrderTo, Sent
<1> QED
  BY <1>1, <1>2, <1>3 DEF OrderTo

\* A handler that leaves the lock with sends to others.
LEMMA OrderElsewhere ==
    ASSUME TypeOK, NEW r \in Receivers, OrderTo(r), NEW c \in Conns, NEW ss,
           todo' = [todo EXCEPT ![c] = ss] \/ todo' = todo, Elsewhere(ss, r),
           routed' = routed, mark'[r] = mark[r], joined[r] => joined'[r], got'[r] = got[r],
           \/ chan'[r] = chan[r] \/ chan'[r] = <<>> \/ (chan[r] # <<>> /\ chan'[r] = Tail(chan[r]))
           \/ \E f \in Frames : ~IsData(f) /\ chan'[r] = Append(chan[r], f)
    PROVE  OrderTo(r)'
<1>1. r \in Conns /\ chan[r] \in Seq(Frames) /\ InOrder(routed, mark[r], chan[r])
  BY DEF TypeOK, Conns, OrderTo, Delivering
<1>2. InOrder(routed, mark[r], chan'[r]) /\ InQueue(chan'[r]) \subseteq InQueue(chan[r])
  BY <1>1, OrderLeft
<1>3. ASSUME NEW d \in Conns
      PROVE  /\ Sending(todo'[d], r) \subseteq Sending(todo[d], r)
             /\ SendsInOrder(routed, mark[r], todo'[d], r)
  <2>1. todo'[d] = todo[d] \/ todo'[d] = ss
    BY DEF TypeOK
  <2>2. SendsInOrder(routed, mark[r], todo[d], r)
    BY DEF OrderTo, Sent
  <2>3. Sending(ss, r) = {} /\ SendsInOrder(routed, mark[r], ss, r)
    BY SendsElsewhere
  <2> QED
    BY <2>1, <2>2, <2>3
<1> QED
  BY <1>2, <1>3, OrderShrinks

\* The clients, and the handlers outside route().
LEMMA OrderOutside ==
    ASSUME TypeOK, NEW r \in Receivers, OrderTo(r), NEW c \in Conns,
           ClientStep \/ RouteBad(c) \/ ReadClose(c) \/ ReadEnd(c) \/ LeaveRoom(c) \/ AbortSink(c)
           \/ DeliverFails(c) \/ SinkEnds(c)
    PROVE  OrderTo(r)'
<1> USE DEF connVars, histVars
<1>1. UNCHANGED <<todo, routed, mark, joined, got>>
  BY Zenon DEF ClientStep, Connect, SendBad, Crash, Emit, Abort, SenderExit, Advertise, Acknowledge,
               SendClose, Drained, Write, Vanish, RouteBad, ReadClose, ReadEnd, LeaveRoom, AbortSink,
               DeliverFails, SinkEnds
<1>2. \/ chan' = chan \/ chan' = [chan EXCEPT ![c] = <<>>]
      \/ chan[c] # <<>> /\ chan' = [chan EXCEPT ![c] = Tail(@)]
      \/ chan' = [chan EXCEPT ![c] = Append(@, Frame("Close", c, 0))]
  BY Zenon DEF ClientStep, Connect, SendBad, Crash, Emit, Abort, SenderExit, Advertise, Acknowledge,
               SendClose, Drained, Write, Vanish, RouteBad, ReadClose, ReadEnd, LeaveRoom, AbortSink,
               DeliverFails, SinkEnds
<1>3. Frame("Close", c, 0) \in Frames /\ ~IsData(Frame("Close", c, 0))
  BY DEF Frame, Frames, IsData, DataTypes
<1> DEFINE close == Frame("Close", c, 0)
<1> HIDE DEF close
<1>4. \/ chan'[r] = chan[r] \/ chan'[r] = <<>> \/ (chan[r] # <<>> /\ chan'[r] = Tail(chan[r]))
      \/ chan'[r] = Append(chan[r], close)
  BY <1>2 DEF TypeOK, Conns, close
<1>5. Elsewhere(<<>>, r)
  BY DEF Elsewhere
<1> QED
  BY <1>1, <1>3, <1>4, <1>5, OrderElsewhere DEF close

\* route() of a control frame, the second lock of a pending DIRECT, and the
\* flush to another receiver.
LEMMA OrderControl ==
    ASSUME TypeOK, NEW r \in Receivers, OrderTo(r), NEW c \in Conns,
           \/ c \in Senders /\ (RouteHelloSender(c) \/ FlushDirect(c) \/ RouteDone(c))
           \/ c \in Receivers /\ (RouteReady(c) \/ RouteDirect(c))
           \/ c \in Receivers \ {r} /\ RouteHelloReceiver(c)
    PROVE  OrderTo(r)'
<1> USE DEF connVars, histVars
<1>1. UNCHANGED <<routed, got, chan>> /\ mark'[r] = mark[r]
  <2>1. UNCHANGED <<routed, got, chan>>
        /\ (mark' = mark \/ (c # r /\ mark' = [mark EXCEPT ![c] = Len(routed)]))
    BY Zenon DEF RouteHelloSender, FlushDirect, RouteDone, RouteReady, RouteDirect, RouteHelloReceiver
  <2> QED
    BY <2>1 DEF TypeOK
<1>2. joined[r] => joined'[r]
  <2>1. joined' = joined \/ joined' = [joined EXCEPT ![c] = TRUE]
    BY Zenon DEF RouteHelloSender, FlushDirect, RouteDone, RouteReady, RouteDirect,
                 RouteHelloReceiver, Read
  <2> QED
    BY <2>1 DEF TypeOK, Conns
<1>3. \E ss : todo' = [todo EXCEPT ![c] = ss] /\ Elsewhere(ss, r)
  <2>1. NoConn # r /\ sender # r
    BY ConnsAssumption DEF TypeOK
  <2>2. Elsewhere(<<>>, r) /\ \A d, f : d # r => Elsewhere(<<[to |-> d, frame |-> f]>>, r)
    BY DEF Elsewhere
  <2>3. CASE c \in Receivers \ {r} /\ RouteHelloReceiver(c)
    <3>1. todo' = [todo EXCEPT ![c] = FlushSends(c)]
      BY <2>3 DEF RouteHelloReceiver, Then
    <3>2. Elsewhere(FlushSends(c), r)
      BY <2>3 DEF Elsewhere, FlushSends
    <3> QED
      BY <3>1, <3>2
  <2>4. CASE ~(c \in Receivers \ {r} /\ RouteHelloReceiver(c))
    <3>1. \/ todo' = [todo EXCEPT ![c] = <<>>]
          \/ \E d \in {NoConn, sender} : \E f : todo' = [todo EXCEPT ![c] = <<[to |-> d, frame |-> f]>>]
      BY <2>4, Zenon DEF RouteHelloSender, FlushDirect, RouteDone, RouteReady, RouteDirect, Then
    <3> QED
      BY <2>1, <2>2, <3>1
  <2> QED
    BY <2>3, <2>4
<1> QED
  BY <1>1, <1>2, <1>3, OrderElsewhere

\* The sink task writes the oldest frame of the channel.
LEMMA OrderDeliver ==
    ASSUME TypeOK, NEW r \in Receivers, OrderTo(r), NEW c \in Conns, Deliver(c)
    PROVE  OrderTo(r)'
<1> DEFINE f == Head(chan[c])
<1>1. /\ UNCHANGED <<todo, routed, mark, joined>> /\ chan[c] # <<>>
      /\ chan' = [chan EXCEPT ![c] = Tail(@)] /\ got' = [got EXCEPT ![c] = Append(@, f)]
  BY Zenon DEF Deliver, roomVars
<1>2. CASE c # r
  <2>1. chan'[r] = chan[r] /\ got'[r] = got[r]
    BY <1>1, <1>2 DEF TypeOK
  <2>2. Elsewhere(<<>>, r)
    BY DEF Elsewhere
  <2> QED
    BY <1>1, <2>1, <2>2, OrderElsewhere
<1>3. CASE c = r
  <2> DEFINE R == routed
             m == mark[r]
             g == got[r]
             q == chan[r]
  <2>1. g \in Seq(Frames) /\ q \in Seq(Frames) /\ q # <<>> /\ f = Head(q)
        /\ chan'[r] = Tail(q) /\ got'[r] = Append(g, f)
    BY <1>1, <1>3 DEF TypeOK
  <2>2. Delivering(R, m, g, q)
    BY DEF OrderTo
  <2> HIDE DEF f, g, q, R, m
  <2>3. /\ f \in Frames /\ (IsData(f) => f \in InQueue(q))
        /\ IsData(f) => \A h \in InQueue(Tail(q)) : Precedes(R, m, f, h)
    BY <2>1, <2>2, OrderHead DEF Delivering
  <2>4. InOrder(R, m, Tail(q)) /\ InQueue(Tail(q)) \subseteq InQueue(q)
    BY <2>1, <2>2, OrderLeft DEF Delivering
  <2>5. /\ InOrder(R, m, Append(g, f))
        /\ InQueue(Append(g, f)) = InQueue(g) \cup {h \in {f} : IsData(h)}
    <3>1. CASE IsData(f)
      BY <2>1, <2>2, <2>3, <3>1, OrderMore DEF Delivering
    <3>2. CASE ~IsData(f)
      <4>1. InOrder(R, m, Append(g, f)) /\ InQueue(Append(g, f)) \subseteq InQueue(g)
        BY <2>1, <2>2, <2>3, <3>2, OrderLeft DEF Delivering
      <4>2. InQueue(g) \subseteq InQueue(Append(g, f))
        <5>1. \A i \in DOMAIN g : i \in DOMAIN Append(g, f) /\ Append(g, f)[i] = g[i]
          BY <2>1, <2>3
        <5> QED
          BY <5>1 DEF InQueue
      <4> QED
        BY <3>2, <4>1, <4>2
    <3> QED
      BY <3>1, <3>2
  <2>6. Delivering(R, m, Append(g, f), Tail(q))
    BY <2>2, <2>3, <2>4, <2>5 DEF Delivering
  <2>7. InQueue(Append(g, f)) \cup InQueue(Tail(q)) \subseteq InQueue(g) \cup InQueue(q)
    BY <2>3, <2>4, <2>5
  <2>8. \A d \in Conns : Sent(R, m, Append(g, f), Tail(q), todo[d], r, d)
    <3>1. \A d \in Conns : Sent(R, m, g, q, todo[d], r, d)
      BY DEF OrderTo, R, m, g, q
    <3> QED
      BY <2>7, <3>1 DEF Sent
  <2>9. ~joined[r] => InQueue(Append(g, f)) = {} /\ InQueue(Tail(q)) = {}
    BY <2>3, <2>4, <2>5 DEF OrderTo, Untouched, g, q
  <2> QED
    BY <1>1, <2>1, <2>6, <2>8, <2>9 DEF OrderTo, Untouched, R, m
<1> QED
  BY <1>2, <1>3

\* A blocking send: the frame follows what its receiver was sent before, and
\* no other handler has a frame of its class.
LEMMA OrderSend ==
    ASSUME TypeOK, HasSends, Fresh, Conserved, NEW r \in Receivers, OrderTo(r),
           NEW c \in Conns, SendNext(c)
    PROVE  OrderTo(r)'
<1> DEFINE h == Head(todo[c])
           f == h.frame
           ss == Tail(todo[c])
           R == routed
           m == mark[r]
           q == chan[r]
           g == got[r]
<1>1. todo[c] \in Seq(Sends) /\ todo[c] # <<>> /\ r \in Conns
  BY DEF SendNext, HasSends, TypeOK, Conns
<1>2. /\ UNCHANGED <<routed, mark, joined, got>> /\ todo' = [todo EXCEPT ![c] = ss]
      /\ chan' = IF sink[h.to] = "run" /\ Len(chan[h.to]) < ChanCap
                   THEN [chan EXCEPT ![h.to] = Append(@, f)] ELSE chan
  BY Zenon DEF SendNext, Then, histVars
<1>3. h \in Sends /\ h.frame \in Frames
  <2>1. h \in Sends
    BY <1>1, QueueTypes
  <2> QED
    BY <2>1 DEF Sends
<1>4. /\ todo'[c] = ss /\ \A d \in Conns \ {c} : todo'[d] = todo[d]
  BY <1>2 DEF TypeOK
<1>5. \/ chan'[r] = q
      \/ h.to = r /\ chan'[r] = Append(q, f)
  BY <1>1, <1>2 DEF TypeOK
<1>6. q \in Seq(Frames) /\ g \in Seq(Frames) /\ InOrder(R, m, q)
  BY <1>1 DEF TypeOK, OrderTo, Delivering
<1>7. \A d \in Conns : Sent(R, m, g, q, todo[d], r, d)
  BY DEF OrderTo
<1>8. /\ SendsInOrder(R, m, ss, r) /\ Sending(ss, r) \subseteq Sending(todo[c], r)
      /\ h.to = r /\ IsData(f) =>
           /\ f \in Sending(todo[c], r) /\ \A e \in Sending(ss, r) : Precedes(R, m, f, e)
  <2>1. SendsInOrder(R, m, todo[c], r)
    BY <1>7 DEF Sent
  <2> QED
    BY <1>1, <2>1, SendsTail
<1> HIDE DEF f, h, ss, R, m, q, g
<1>9. \A d \in Conns : /\ Sending(todo'[d], r) \subseteq Sending(todo[d], r)
                       /\ SendsInOrder(R, m, todo'[d], r)
  BY <1>4, <1>7, <1>8 DEF Sent
<1>10. CASE chan'[r] = q \/ ~IsData(f)
  <2>1. chan'[r] = q \/ chan'[r] = Append(q, f)
    BY <1>5
  <2>2. InOrder(R, m, chan'[r]) /\ InQueue(chan'[r]) \subseteq InQueue(q)
    BY <1>3, <1>6, <1>10, <2>1, OrderLeft DEF f
  <2> QED
    BY <1>2, <1>9, <2>2, OrderShrinks DEF R, m, q
<1>11. CASE h.to = r /\ chan'[r] = Append(q, f) /\ IsData(f)
  <2>1. /\ f \in Sending(todo[c], r) /\ f \in Frames
        /\ \A e \in InQueue(g) \cup InQueue(q) : Precedes(R, m, e, f)
        /\ IF Index(R, f) <= m THEN c = r ELSE f.from = c
    BY <1>3, <1>7, <1>8, <1>11 DEF Sent, f
  <2>2. InOrder(R, m, Append(q, f)) /\ InQueue(Append(q, f)) = InQueue(q) \cup {f}
    BY <1>6, <1>11, <2>1, OrderMore
  <2>3. Delivering(R, m, g, Append(q, f))
    <3>1. Delivering(R, m, g, q)
      BY DEF OrderTo, R, m, g, q
    <3> QED
      BY <2>1, <2>2, <3>1 DEF Delivering
  <2>4. ASSUME NEW d \in Conns, NEW e \in Sending(todo'[d], r) PROVE Precedes(R, m, f, e)
    <3>1. CASE d = c
      BY <1>4, <1>8, <1>11, <2>4, <3>1
    <3>2. CASE d # c
      <4>1. IF Index(R, e) <= m THEN d = r ELSE e.from = d
        BY <1>7, <1>9, <2>4 DEF Sent
      <4>2. Index(R, f) \in Nat /\ Index(R, e) \in Nat /\ m \in Nat
        <5>1. f \in InQueue(R) /\ e \in InQueue(R)
          BY <1>9, <2>1, <2>4, OrderHeld DEF R
        <5> QED
          BY <5>1, IndexType DEF R, m, TypeOK, Fresh
      <4>3. ~SameClass(R, m, f, e)
        <5>1. CASE Index(R, f) <= m
          BY <2>1, <3>2, <4>1, <4>2, <5>1 DEF SameClass
        <5>2. CASE ~(Index(R, f) <= m)
          BY <2>1, <3>2, <4>1, <4>2, <5>2 DEF SameClass
        <5> QED
          BY <5>1, <5>2
      <4> QED
        BY <4>3 DEF Precedes
    <3> QED
      BY <3>1, <3>2
  <2>5. \A d \in Conns : Sent(R, m, g, Append(q, f), todo'[d], r, d)
    BY <1>7, <1>9, <2>2, <2>4 DEF Sent
  <2>6. joined[r]
    BY <2>1 DEF OrderTo, Untouched
  <2> QED
    BY <1>2, <1>11, <2>3, <2>5, <2>6 DEF OrderTo, R, m, g
<1> QED
  BY <1>5, <1>10, <1>11

\* A receiver's Hello: the whole buffer, in the order it was routed.
LEMMA OrderHello ==
    ASSUME TypeOK, Fresh, Conserved, BInv, HelloFirst, NEW r \in Receivers, OrderTo(r),
           RouteHelloReceiver(r)
    PROVE  OrderTo(r)'
<1> DEFINE ss == FlushSends(r)
           R == routed
           n == Len(routed)
<1>1. /\ r \in Conns /\ buffer \in Seq(Frames) /\ n \in Nat /\ R \in Seq(Frames) /\ Distinct(R)
  BY DEF Conns, TypeOK, Fresh
<1>2. /\ UNCHANGED <<routed, got, chan>> /\ mark'[r] = n /\ joined'[r]
      /\ todo' = [todo EXCEPT ![r] = ss] /\ inq[r] # <<>> /\ Head(inq[r]).type = "Hello"
  BY <1>1 DEF RouteHelloReceiver, Read, Then, TypeOK
<1>3. todo'[r] = ss /\ \A d \in Conns \ {r} : todo'[d] = todo[d]
  BY <1>1, <1>2 DEF TypeOK
<1>4. Untouched(r)
  <2>1. inq[r] \in Seq(Frames) /\ HelloIsFirst(client[r], inq[r], joined[r])
    BY <1>1 DEF TypeOK, HelloFirst
  <2>2. ~joined[r]
    BY <1>2, <2>1, HelloRead
  <2> QED
    BY <2>2 DEF OrderTo
<1>5. /\ DOMAIN ss = 1 .. Len(buffer) /\ \A i \in 1 .. Len(buffer) : ss[i].frame = buffer[i]
      /\ Len(buffer) \in Nat
  BY <1>1 DEF FlushSends
<1> DEFINE k == Until - Len(buffer)
<1>6. /\ Until \in Nat /\ Until <= n /\ k \in Nat /\ k + Len(buffer) <= n
      /\ \A i \in 1 .. Len(buffer) : buffer[i] = R[k + i]
  <2>1. Until \in Nat /\ Until <= n
    BY <1>1 DEF Until, BInv, ReadyFacts
  <2>2. Len(buffer) <= Until /\ \A i \in 1 .. Len(buffer) : buffer[i] = R[Until - Len(buffer) + i]
    BY DEF BInv, EndsAt
  <2> QED
    BY <1>5, <2>1, <2>2
<1> HIDE DEF k, ss, n
<1>7. ASSUME NEW i \in DOMAIN ss, IsData(ss[i].frame) PROVE Index(R, ss[i].frame) = k + i /\ k + i <= n
  <2>1. k + i \in 1 .. Len(R) /\ k + i <= n /\ ss[i].frame = R[k + i]
    BY <1>1, <1>5, <1>6 DEF n
  <2> QED
    BY <1>1, <1>7, <2>1, IndexOf
<1>8. SendsInOrder(R, n, ss, r)
  <2> SUFFICES ASSUME NEW i \in DOMAIN ss, NEW j \in DOMAIN ss, i < j,
                      IsData(ss[i].frame), IsData(ss[j].frame)
               PROVE  Precedes(R, n, ss[i].frame, ss[j].frame)
    BY DEF SendsInOrder, SendsData
  <2>1. Index(R, ss[i].frame) = k + i /\ Index(R, ss[j].frame) = k + j
    BY <1>7
  <2>2. k + i < k + j
    BY <1>5, <1>6
  <2> QED
    BY <2>1, <2>2 DEF Precedes
<1>9. \A f \in Sending(ss, r) : Index(R, f) <= n
  BY <1>7 DEF Sending, SendsData
<1>10. /\ InQueue(got[r]) = {} /\ InQueue(chan[r]) = {}
       /\ \A d \in Conns : d # r => Sending(todo'[d], r) = {}
  BY <1>3, <1>4 DEF Untouched
<1>11. \A d \in Conns : Sent(R, n, got[r], chan[r], todo'[d], r, d)
  <2> SUFFICES ASSUME NEW d \in Conns PROVE Sent(R, n, got[r], chan[r], todo'[d], r, d)
    OBVIOUS
  <2>1. CASE d = r
    BY <1>3, <1>8, <1>9, <1>10, <2>1 DEF Sent
  <2>2. CASE d # r
    <3>1. SendsInOrder(R, n, todo'[d], r)
      BY <1>10, <2>2 DEF SendsInOrder, Sending
    <3> QED
      BY <1>10, <2>2, <3>1 DEF Sent
  <2> QED
    BY <2>1, <2>2
<1>12. Delivering(R, n, got[r], chan[r])
  BY <1>10 DEF Delivering, InOrder, InQueue
<1> QED
  BY <1>1, <1>2, <1>11, <1>12 DEF OrderTo, n

\* route() of a data frame: it comes after everything its receiver was sent,
\* and it is its sender's handler that sends it.
LEMMA OrderData ==
    ASSUME TypeOK, Reg, Fresh, Tidy, Conserved, NEW r \in Receivers, OrderTo(r),
           NEW s \in Senders, RouteData(s)
    PROVE  OrderTo(r)'
<1> DEFINE f == Head(inq[s])
           ss == DataTarget(f)
           R == routed
           S == Append(R, f)
           m == mark[r]
<1>1. /\ f \in Frames /\ IsData(f) /\ f.from = s /\ f \notin InQueue(R) /\ routed' = S
      /\ handler[s] = "reading" /\ s \in Conns /\ r \in Conns /\ s # r
  BY FreshRoute, ConnsAssumption DEF Conns
<1>2. /\ UNCHANGED <<got, chan, mark>> /\ todo' = [todo EXCEPT ![s] = ss]
      /\ joined' = [joined EXCEPT ![s] = TRUE]
  BY DEF RouteData, Then, Read
<1>3. todo'[s] = ss /\ \A d \in Conns \ {s} : todo'[d] = todo[d]
  BY <1>1, <1>2 DEF TypeOK
<1>4. joined'[r] = joined[r]
  BY <1>1, <1>2 DEF TypeOK
<1>5. R \in Seq(Frames) /\ Distinct(R) /\ Len(R) \in Nat /\ Len(S) = Len(R) + 1 /\ m \in Nat
  BY <1>1 DEF TypeOK, Fresh
<1>6. /\ InQueue(got[r]) \subseteq InQueue(R) /\ InQueue(chan[r]) \subseteq InQueue(R)
      /\ \A d \in Conns : Sending(todo[d], r) \subseteq InQueue(R)
  BY OrderHeld
<1>7. /\ got[r] \in Seq(Frames) /\ chan[r] \in Seq(Frames) /\ \A d \in Conns : todo[d] \in Seq(Sends)
  BY <1>1 DEF TypeOK
<1>8. /\ m <= Len(R) /\ Delivering(R, m, got[r], chan[r])
      /\ \A d \in Conns : Sent(R, m, got[r], chan[r], todo[d], r, d)
  BY DEF OrderTo
<1>9. ss = <<>> \/ (receiver # NoConn /\ ss = <<[to |-> receiver, frame |-> f]>>)
  BY DEF DataTarget
<1> HIDE DEF f, ss, R, m
<1>10. ASSUME NEW d \in Conns
       PROVE  Delivering(S, m, got[r], chan[r]) /\ Sent(S, m, got[r], chan[r], todo[d], r, d)
  BY <1>1, <1>5, <1>6, <1>7, <1>8, OrderGrows
<1>11. /\ Index(S, f) = Len(R) + 1
       /\ \A g \in InQueue(R) : Index(S, g) \in 1 .. Len(R)
  <2>1. /\ Index(Append(R, f), f) = Len(R) + 1
        /\ \A g \in InQueue(R) : /\ Index(Append(R, f), g) = Index(R, g)
                                 /\ Index(R, g) \in 1 .. Len(R)
    BY <1>1, <1>5, IndexMore
  <2> QED
    BY <2>1
<1>12. \A g \in InQueue(R) : Index(S, g) < Index(S, f)
  BY <1>5, <1>11
<1>13. ~(Index(S, f) <= m)
  BY <1>5, <1>8, <1>11
<1> HIDE DEF S
<1>14. Sent(S, m, got[r], chan[r], ss, r, s) /\ (Sending(ss, r) # {} => receiver # NoConn /\ receiver = r)
  <2>1. CASE Elsewhere(ss, r)
    BY <2>1, SendsElsewhere DEF Sent
  <2>2. CASE ~Elsewhere(ss, r)
    <3>1. ss = <<[to |-> receiver, frame |-> f]>> /\ receiver # NoConn
      BY <1>9, <2>2 DEF Elsewhere
    <3>2. DOMAIN ss = {1} /\ ss[1].to = receiver /\ ss[1].frame = f
      BY <3>1
    <3>3. receiver = r
      BY <2>2, <3>2 DEF Elsewhere
    <3>4. Sending(ss, r) = {f} /\ SendsInOrder(S, m, ss, r)
      BY <1>1, <3>2, <3>3 DEF Sending, SendsInOrder, SendsData
    <3>5. \A e \in InQueue(got[r]) \cup InQueue(chan[r]) : Precedes(S, m, e, f)
      BY <1>6, <1>12 DEF Precedes
    <3> QED
      BY <1>1, <1>13, <3>1, <3>3, <3>4, <3>5 DEF Sent
  <2> QED
    BY <2>1, <2>2
<1>15. ~joined'[r] => Untouched(r)'
  <2> SUFFICES ASSUME ~joined[r] PROVE Untouched(r)'
    BY <1>4
  <2>1. Untouched(r)
    BY DEF OrderTo
  <2>2. receiver # r
    BY ConnsAssumption DEF Reg, RegistrationSound, Conns
  <2>3. \A d \in Conns : Sending(todo'[d], r) = {}
    BY <1>3, <1>14, <2>1, <2>2 DEF Untouched
  <2> QED
    BY <1>2, <2>1, <2>3 DEF Untouched
<1>16. \A d \in Conns : Sent(S, m, got[r], chan[r], todo'[d], r, d)
  BY <1>3, <1>10, <1>14
<1> QED
  BY <1>1, <1>2, <1>5, <1>8, <1>10, <1>15, <1>16 DEF OrderTo, m, R

\* Every step keeps the order.
LEMMA OrderStep ==
    TypeOK /\ HasSends /\ Reg /\ BInv /\ Flow /\ HelloFirst /\ Ordered /\ [Next]_vars => Ordered'
<1> SUFFICES ASSUME TypeOK, HasSends, Reg, BInv, Flow, HelloFirst, Ordered, [Next]_vars,
                    NEW r \in Receivers
             PROVE  OrderTo(r)'
  BY DEF Ordered
<1>1. OrderTo(r) /\ r \in Conns /\ Fresh /\ Tidy /\ Conserved
  BY DEF Ordered, Conns, Flow
<1>2. CASE UNCHANGED vars
  BY <1>1, <1>2 DEF vars, connVars, histVars, OrderTo, Untouched
<1>3. CASE ClientStep
  BY <1>1, <1>3, OrderOutside
<1>4. ASSUME NEW c \in Conns, SinkStep(c) PROVE OrderTo(r)'
  BY <1>1, <1>4, OrderOutside, OrderDeliver DEF SinkStep
<1>5. ASSUME NEW c \in Conns, HandlerStep(c) PROVE OrderTo(r)'
  <2>1. CASE \/ c \in Senders /\ (RouteHelloSender(c) \/ FlushDirect(c) \/ RouteDone(c))
             \/ c \in Receivers /\ (RouteReady(c) \/ RouteDirect(c))
             \/ c \in Receivers \ {r} /\ RouteHelloReceiver(c)
    BY <1>1, <2>1, OrderControl
  <2>2. CASE RouteBad(c) \/ ReadClose(c) \/ ReadEnd(c) \/ LeaveRoom(c) \/ AbortSink(c)
    BY <1>1, <2>2, OrderOutside
  <2>3. CASE SendNext(c)
    BY <1>1, <2>3, OrderSend
  <2>4. CASE c \in Senders /\ RouteData(c)
    BY <1>1, <2>4, OrderData
  <2>5. CASE c = r /\ RouteHelloReceiver(r)
    BY <1>1, <2>5, OrderHello
  <2> QED
    BY <1>5, <2>1, <2>2, <2>3, <2>4, <2>5 DEF HandlerStep
<1> QED
  BY <1>2, <1>3, <1>4, <1>5 DEF Next

\* Nothing was sent yet.
LEMMA OrderInit == Init => Ordered
<1> SUFFICES ASSUME Init, NEW r \in Receivers PROVE OrderTo(r)
  BY DEF Ordered
<1>1. /\ r \in Conns /\ got[r] = <<>> /\ chan[r] = <<>> /\ \A c \in Conns : todo[c] = <<>>
      /\ mark[r] = 0 /\ routed = <<>>
  BY DEF Init, Conns
<1>2. InQueue(<<>>) = {} /\ Sending(<<>>, r) = {}
  BY NothingQueued DEF Sending
<1>3. InOrder(routed, mark[r], <<>>) /\ SendsInOrder(routed, mark[r], <<>>, r)
  BY DEF InOrder, SendsInOrder
<1> QED
  BY <1>1, <1>2, <1>3 DEF OrderTo, Untouched, Delivering, Sent

(***************************************************************************)
(* "flushed in order" (lib.rs:497): of two frames a receiver gets, both    *)
(* buffered before it came, or both from one sender and routed later, the  *)
(* one routed first comes first, although each flush and each forwarded    *)
(* frame is sent outside the lock, by the handlers of different            *)
(* connections (lib.rs:262-266, 316-323).                                  *)
(***************************************************************************)
THEOREM ClassesInOrder == Spec => []OrderWithinClass
<1>1. TypeOK /\ Ordered => OrderWithinClass
  <2> SUFFICES ASSUME TypeOK, Ordered PROVE OrderWithinClass
    OBVIOUS
  <2>1. ASSUME NEW r \in Receivers, NEW i \in DOMAIN got[r], NEW j \in DOMAIN got[r],
               IsData(got[r][i]), IsData(got[r][j]), i < j
        PROVE  Precedes(routed, mark[r], got[r][i], got[r][j])
    BY <2>1 DEF Ordered, OrderTo, Delivering, InOrder
  <2> QED
    BY <2>1 DEF OrderWithinClass, Precedes, SameClass, Index, IsData
<1>2. Init => HelloFirst
  BY DEF Init, HelloFirst, HelloIsFirst
<1>3. Spec => [](TypeOK /\ HelloFirst)
  <2>1. Spec => []HelloFirst
    BY <1>2, TypeCorrect, HelloStep, PTL DEF Spec
  <2> QED
    BY <2>1, TypeCorrect, PTL
<1>4. Spec => []Ordered
  BY <1>3, FlowInvariant, OrderInit, OrderStep, PTL DEF Spec
<1> QED
  BY <1>1, <1>3, <1>4, PTL
=============================================================================
