------------------------- MODULE SHA1DownloadProofs -------------------------
(***************************************************************************)
(* Proofs about SHA1Download, for every chunk table, every number of peers *)
(* and transfers, and every limit and timeout.                             *)
(***************************************************************************)
EXTENDS SHA1Download, FiniteSetTheorems, SequenceTheorems, TLAPS
-----------------------------------------------------------------------------
(* The chunk table.                                                        *)

\* There are NumChunks chunks; the lookup of a hash yields at most one index,
\* and that index is a real one with that hash; every chunk has a block.
LEMMA ChunkFacts ==
    /\ IsFiniteSet(Chunks) /\ Cardinality(Chunks) = NumChunks
    /\ Chunks \subseteq Nat
    /\ RealIndices \subseteq Chunks
    /\ \A h : ChunkIndex(h) \subseteq RealIndices
    /\ \A h : \A i, j \in ChunkIndex(h) : i = j
    /\ \A i \in Chunks : /\ ChunkSize(i) \in 1 .. BlocksPerChunk
                         /\ Blocks(i) \subseteq 0 .. BlocksPerChunk - 1
                         /\ 0 \in Blocks(i)
<1>1. IsFiniteSet(Chunks) /\ Cardinality(Chunks) = NumChunks
  BY ChunkTableAssumption, FS_Interval DEF Chunks
<1>2. RealIndices \subseteq Chunks /\ Chunks \subseteq Nat
  BY ChunkTableAssumption DEF Chunks, RealIndices
<1>3. \A h : ChunkIndex(h) \subseteq RealIndices
  BY DEF ChunkIndex, RealIndices
<1>4. \A h : \A i, j \in ChunkIndex(h) : i = j
  BY <1>2 DEF ChunkIndex
<1>5. \A i \in Chunks : /\ ChunkSize(i) \in 1 .. BlocksPerChunk
                        /\ Blocks(i) \subseteq 0 .. BlocksPerChunk - 1
                        /\ 0 \in Blocks(i)
  BY ChunkTableAssumption DEF ChunkSize, Blocks
<1> QED  BY <1>1, <1>2, <1>3, <1>4, <1>5
-----------------------------------------------------------------------------
(* Queues.                                                                 *)

\* An arrangement of a finite set is a sequence of its elements that has them all.
LEMMA ArrangementFacts ==
    ASSUME NEW S, IsFiniteSet(S), NEW s \in Arrangements(S)
    PROVE  s \in Seq(S) /\ Len(s) = Cardinality(S) /\ Range(s) = S
<1>1. Cardinality(S) \in Nat
  BY FS_CardinalityType
<1> QED  BY <1>1 DEF Arrangements

\* Taking the head off a queue loses nothing but the head.
LEMMA HeadTailRange ==
    ASSUME NEW S, NEW q \in Seq(S), q # <<>>
    PROVE  /\ Head(q) \in S
           /\ Tail(q) \in Seq(S)
           /\ Range(q) = {Head(q)} \cup Range(Tail(q))
<1>1. Len(q) \in Nat \ {0}
  BY EmptySeq, LenProperties
<1>2. Head(q) \in S /\ Tail(q) \in Seq(S)
  BY HeadTailProperties
<1>3. Len(Tail(q)) = Len(q) - 1 /\ \A i \in 1 .. Len(Tail(q)) : Tail(q)[i] = q[i + 1]
  BY HeadTailProperties
<1>4. Range(q) = {q[i] : i \in 1 .. Len(q)}
  BY RangeEquality
<1>5. Range(Tail(q)) = {Tail(q)[i] : i \in 1 .. Len(Tail(q))}
  BY <1>2, RangeEquality
<1>6. Head(q) = q[1]
  OBVIOUS
<1>7. ASSUME NEW e \in Range(q) PROVE e \in {Head(q)} \cup Range(Tail(q))
  <2>1. PICK i \in 1 .. Len(q) : e = q[i]
    BY <1>4, <1>7
  <2>2. CASE i = 1
    BY <2>1, <2>2, <1>6
  <2>3. CASE i # 1
    <3>1. i - 1 \in 1 .. Len(Tail(q)) /\ (i - 1) + 1 = i
      BY <2>3, <1>1, <1>3
    <3>2. Tail(q)[i - 1] = e
      BY <3>1, <2>1, <1>3
    <3> QED  BY <3>1, <3>2, <1>5
  <2> QED  BY <2>2, <2>3
<1>8. ASSUME NEW e \in {Head(q)} \cup Range(Tail(q)) PROVE e \in Range(q)
  <2>1. CASE e = Head(q)
    BY <2>1, <1>1, <1>4, <1>6
  <2>2. CASE e \in Range(Tail(q))
    <3>1. PICK i \in 1 .. Len(Tail(q)) : e = Tail(q)[i]
      BY <2>2, <1>5
    <3>2. i + 1 \in 1 .. Len(q) /\ e = q[i + 1]
      BY <3>1, <1>1, <1>3
    <3> QED  BY <3>2, <1>4
  <2> QED  BY <1>8, <2>1, <2>2
<1> QED  BY <1>2, <1>7, <1>8

\* Putting a chunk at the front keeps what was queued.
LEMMA PushFront ==
    ASSUME NEW S, NEW q \in Seq(S), NEW e \in S
    PROVE  <<e>> \o q \in Seq(S) /\ Range(<<e>> \o q) = {e} \cup Range(q)
<1> DEFINE one == <<e>>
<1>1. one \in Seq(S) /\ Range(one) = {e}
  BY DEF Range
<1> HIDE DEF one
<1>2. one \o q \in Seq(S) /\ Range(one \o q) = {e} \cup Range(q)
  BY <1>1, ConcatProperties, RangeConcatenation
<1> QED  BY <1>2 DEF one

\* Moving the last chunk to the front loses nothing.
LEMMA LastFirstFacts ==
    ASSUME NEW S, NEW s \in Seq(S), s # <<>>
    PROVE  LastFirst(s) \in Seq(S) /\ Range(LastFirst(s)) = Range(s)
<1> DEFINE n == Len(s)
           front == SubSeq(s, 1, n - 1)
<1>1. n \in Nat \ {0} /\ s \in [1 .. n -> S]
  BY EmptySeq, LenProperties
<1>2. s[n] \in S
  BY <1>1
<1>3. /\ front \in Seq(S) /\ Len(front) = n - 1
      /\ \A i \in 1 .. n - 1 : front[i] = s[i]
  <2>1. \A i \in 1 .. n - 1 : s[i] \in S
    BY <1>1
  <2>2. /\ front \in Seq(S)
        /\ Len(front) = IF 1 <= n - 1 THEN (n - 1) - 1 + 1 ELSE 0
        /\ \A i \in 1 .. (n - 1) - 1 + 1 : front[i] = s[1 + i - 1]
    BY <1>1, <2>1, SubSeqProperties
  <2> QED  BY <1>1, <2>2
<1>4. Range(front) = {s[i] : i \in 1 .. n - 1}
  <2>1. Range(front) = {front[i] : i \in 1 .. Len(front)}
    BY <1>3, RangeEquality
  <2> QED  BY <2>1, <1>3
<1>5. Range(s) = {s[i] : i \in 1 .. n}
  BY RangeEquality
<1>6. {s[i] : i \in 1 .. n} = {s[n]} \cup {s[i] : i \in 1 .. n - 1}
  <2>1. 1 .. n = {n} \cup (1 .. n - 1)
    BY <1>1
  <2> QED  BY <2>1
<1>7. LastFirst(s) = <<s[n]>> \o front
  BY DEF LastFirst
<1> HIDE DEF front
<1> QED  BY <1>2, <1>3, <1>4, <1>5, <1>6, <1>7, PushFront

\* The constructor queues exactly the missing chunks.
LEMMA WantQueueFacts ==
    ASSUME NEW h, NEW q \in WantQueues(h)
    PROVE  q \in Seq(RealIndices) /\ Range(q) = Missing(h)
<1>1. IsFiniteSet(Missing(h)) /\ Missing(h) \subseteq RealIndices
  BY ChunkFacts, FS_Subset DEF Missing
<1>2. CASE Missing(h) = {}
  <2>1. q = <<>>
    BY <1>2 DEF WantQueues
  <2> QED  BY <2>1, <1>2 DEF Range
<1>3. CASE Missing(h) # {}
  <2>1. PICK s \in Ascending(Missing(h)) : q = LastFirst(s)
    BY <1>3 DEF WantQueues
  <2>2. s \in Seq(Missing(h)) /\ Range(s) = Missing(h)
    BY <1>1, ArrangementFacts DEF Ascending
  <2>3. s # <<>>
    BY <2>2, <1>3 DEF Range
  <2>4. q \in Seq(Missing(h)) /\ Range(q) = Missing(h)
    BY <2>1, <2>2, <2>3, LastFirstFacts
  <2> QED  BY <2>4, <1>1, SeqMonotonic
<1> QED  BY <1>2, <1>3
-----------------------------------------------------------------------------
(* The inductive invariant.                                                *)

IInv ==
    /\ TypeOK
    /\ NoChunkLost
    /\ HaveIsOnDisk
    /\ OneWriterPerChunk
    /\ CountersAgree

\* What starting the program on a file with the chunks in h establishes.
LEMMA FreshFacts ==
    ASSUME IsFiniteSet(Chunks), have \subseteq Chunks,
           want \in WantQueues(have), requested = <<>>, receiving = {}, incoming = {},
           haveAll = (have = Chunks), haveCount = Cardinality(have),
           running = ConstructorAsserts(have), have \subseteq Verified(file),
           asked = [i \in RealIndices |-> 0],
           file \in [Chunks -> SUBSET (0 .. BlocksPerChunk - 1)]
    PROVE  IInv
<1>1. want \in Seq(RealIndices) /\ Range(want) = Missing(have)
  BY WantQueueFacts
<1>2. haveCount \in Nat
  BY FS_Subset, FS_CardinalityType
<1>3. TypeOK
  <2>1. DOMAIN requested = {}
    OBVIOUS
  <2>2. asked \in [RealIndices -> 0 .. AskBound]
    BY DownloadAssumption
  <2>3. running \in BOOLEAN /\ haveAll \in BOOLEAN
    BY DEF ConstructorAsserts
  <2> QED  BY <1>1, <1>2, <2>1, <2>2, <2>3 DEF TypeOK
<1>4. NoChunkLost
  BY <1>1 DEF NoChunkLost, Tracked
<1> QED
  BY <1>3, <1>4 DEF IInv, HaveIsOnDisk, OneWriterPerChunk, InTransfer, CountersAgree

LEMMA InitInv == Init => IInv
<1> SUFFICES ASSUME Init PROVE IInv
  OBVIOUS
<1>1. PICK present \in SUBSET Chunks :
          /\ file = [i \in Chunks |-> IF i \in present THEN Blocks(i) ELSE {}]
          /\ have = present
          /\ haveAll = (present = Chunks)
          /\ haveCount = Cardinality(present)
          /\ running = ConstructorAsserts(present)
          /\ want \in WantQueues(present)
  BY DEF Init
<1>2. file \in [Chunks -> SUBSET (0 .. BlocksPerChunk - 1)] /\ present \subseteq Verified(file)
  BY <1>1, ChunkFacts DEF Verified
<1> QED  BY <1>1, <1>2, ChunkFacts, FreshFacts DEF Init

LEMMA RestartInv == ASSUME IInv, Restart PROVE IInv'
<1>1. have' \subseteq Chunks /\ have' \subseteq Verified(file')
  BY DEF Restart, Verified
<1>2. file' \in [Chunks -> SUBSET (0 .. BlocksPerChunk - 1)]
  BY DEF IInv, TypeOK, Restart
<1>3. want' \in Seq(RealIndices) /\ Range(want') = Missing(have')
  BY WantQueueFacts DEF Restart
<1>4. haveCount' \in Nat
  BY <1>1, ChunkFacts, FS_Subset, FS_CardinalityType DEF Restart
<1>5. TypeOK'
  <2>1. DOMAIN requested' = {} /\ receiving' = {} /\ incoming' = {}
    BY DEF Restart
  <2>2. asked' \in [RealIndices -> 0 .. AskBound]
    BY DownloadAssumption DEF Restart
  <2>3. running' \in BOOLEAN /\ haveAll' \in BOOLEAN
    BY DEF Restart, ConstructorAsserts
  <2> QED  BY <1>1, <1>2, <1>3, <1>4, <2>1, <2>2, <2>3 DEF TypeOK
<1>6. NoChunkLost'
  BY <1>3 DEF NoChunkLost, Tracked
<1>7. HaveIsOnDisk' /\ OneWriterPerChunk' /\ CountersAgree'
  BY <1>1 DEF Restart, HaveIsOnDisk, OneWriterPerChunk, InTransfer, CountersAgree
<1> QED  BY <1>5, <1>6, <1>7 DEF IInv

LEMMA LoseTransferInv ==
    ASSUME IInv, NEW x \in incoming, LoseTransfer(x) PROVE IInv'
<1> USE DEF LoseTransfer
<1>1. TypeOK'
  BY DEF IInv, TypeOK
<1>2. NoChunkLost' /\ OneWriterPerChunk' /\ CountersAgree'
  BY DEF IInv, NoChunkLost, Tracked, Missing, InTransfer, OneWriterPerChunk, CountersAgree
<1>3. HaveIsOnDisk'
  BY DEF IInv, HaveIsOnDisk, Verified
<1> QED  BY <1>1, <1>2, <1>3 DEF IInv

\* An accepted offer: the chunk is a missing one, which nothing writes to yet.
LEMMA ReceiveInitInv ==
    ASSUME IInv, NEW p \in Peers, NEW t \in TransferIds, NEW h \in Hashes,
           ReceiveInit(p, t, h)
    PROVE  IInv'
<1> USE DEF ReceiveInit
<1>1. PICK j \in ChunkIndex(h) : asked[j] > 0 /\ asked' = [asked EXCEPT ![j] = @ - 1]
  OBVIOUS
<1>2. asked' \in [RealIndices -> 0 .. AskBound]
  <2>1. asked \in [RealIndices -> 0 .. AskBound] /\ AskBound \in Nat
    BY DownloadAssumption DEF IInv, TypeOK
  <2>2. j \in RealIndices
    BY ChunkFacts
  <2> HIDE DEF ReceiveInit
  <2> QED  BY <1>1, <2>1, <2>2
<1>3. CASE UNCHANGED <<receiving, requested, incoming>>
  <2>1. TypeOK'
    BY <1>2, <1>3 DEF IInv, TypeOK
  <2>2. NoChunkLost' /\ OneWriterPerChunk' /\ CountersAgree'
    BY <1>3 DEF IInv, NoChunkLost, Tracked, Missing, InTransfer, OneWriterPerChunk,
                CountersAgree
  <2>3. HaveIsOnDisk'
    BY <1>3 DEF IInv, HaveIsOnDisk, Verified
  <2> QED  BY <2>1, <2>2, <2>3 DEF IInv
<1>4. CASE Accept(p, t, h)
  <2>1. PICK i \in ChunkIndex(h) :
            /\ receiving' = receiving \cup {[peer |-> p, id |-> t, time |-> 0, chunk |-> i]}
            /\ requested' = [c \in DOMAIN requested \ {i} |-> requested[c]]
            /\ incoming' = incoming \cup {[peer |-> p, id |-> t, chunk |-> i, next |-> 0]}
    BY <1>4 DEF Accept
  <2>2. i \in RealIndices /\ i \in Chunks
    BY ChunkFacts
  <2>3. i \notin have /\ \A r \in receiving : r.chunk # i
    BY <1>4, ChunkFacts DEF Accept, Accepts, HaveChunk
  <2> DEFINE r0 == [peer |-> p, id |-> t, time |-> 0, chunk |-> i]
             x0 == [peer |-> p, id |-> t, chunk |-> i, next |-> 0]
  <2>5. r0 \in Entries /\ r0.time < TransferTimeout /\ r0.chunk = i /\ r0.peer = p /\ r0.id = t
    BY <2>2, DownloadAssumption DEF Entries
  <2>6. /\ x0 \in [peer : Peers, id : TransferIds, chunk : RealIndices, next : Nat]
        /\ x0.next \in Blocks(x0.chunk) /\ x0.chunk = i /\ x0.peer = p /\ x0.id = t
    BY <2>2, ChunkFacts
  <2>7. receiving' = receiving \cup {r0} /\ incoming' = incoming \cup {x0}
    BY <2>1
  <2> HIDE DEF r0, x0
  <2>8. TypeOK'
    <3>1. /\ DOMAIN requested' \subseteq RealIndices
          /\ \A c \in DOMAIN requested' : requested'[c] \in 0 .. RequestTimeout - 1
      BY <2>1 DEF IInv, TypeOK
    <3>2. receiving' \subseteq Entries /\ \A r \in receiving' : r.time < TransferTimeout
      BY <2>5, <2>7 DEF IInv, TypeOK
    <3>3. /\ incoming' \subseteq [peer : Peers, id : TransferIds, chunk : RealIndices, next : Nat]
          /\ \A x \in incoming' : x.next \in Blocks(x.chunk)
      BY <2>6, <2>7 DEF IInv, TypeOK
    <3> QED  BY <1>2, <3>1, <3>2, <3>3 DEF IInv, TypeOK
  <2>9. NoChunkLost'
    <3>1. InTransfer' = InTransfer \cup {i}
      BY <2>5, <2>7 DEF InTransfer
    <3>2. DOMAIN requested' = DOMAIN requested \ {i}
      BY <2>1
    <3> QED  BY <3>1, <3>2 DEF IInv, NoChunkLost, Tracked, Missing
  <2>10. OneWriterPerChunk'
    BY <2>3, <2>5, <2>7 DEF IInv, OneWriterPerChunk, InTransfer
  <2>11. HaveIsOnDisk' /\ CountersAgree'
    BY DEF IInv, HaveIsOnDisk, Verified, CountersAgree
  <2> QED  BY <2>8, <2>9, <2>10, <2>11 DEF IInv
<1> QED  BY <1>3, <1>4

\* Delivering a block changes the position of one transfer only.
LEMMA DeliveredFacts ==
    ASSUME IInv, NEW x \in incoming
    PROVE  /\ Delivered(x) \subseteq [peer : Peers, id : TransferIds, chunk : RealIndices, next : Nat]
           /\ \A y \in Delivered(x) : y.next \in Blocks(y.chunk)
<1> DEFINE T == [peer : Peers, id : TransferIds, chunk : RealIndices, next : Nat]
           y0 == [x EXCEPT !.next = @ + 1]
<1>1. x \in T /\ x.next \in Nat /\ x.next \in Blocks(x.chunk) /\ x.chunk \in Chunks
  BY ChunkFacts DEF IInv, TypeOK
<1>2. /\ y0 \in T /\ y0.next = x.next + 1
      /\ y0.peer = x.peer /\ y0.id = x.id /\ y0.chunk = x.chunk
  BY <1>1
<1>3. x.next + 1 # ChunkSize(x.chunk) => y0.next \in Blocks(y0.chunk)
  BY <1>1, <1>2, ChunkFacts, ChunkTableAssumption DEF Blocks
<1>4. \A y \in Delivered(x) :
         \/ y \in incoming \ {x}
         \/ x.next + 1 # ChunkSize(x.chunk) /\ y = y0
  BY DEF Delivered
<1> HIDE DEF y0
<1> QED  BY <1>1, <1>2, <1>3, <1>4 DEF IInv, TypeOK

\* A block that is written, verified or given back keeps the invariant: the chunk
\* written to is not one of those that are there, so what is there stays right.
LEMMA ReceiveDataInv ==
    ASSUME IInv, NEW x \in incoming, NEW right \in BOOLEAN, ReceiveData(x, right)
    PROVE  IInv'
<1>1. /\ incoming' = Delivered(x)
      /\ requested' = requested /\ running' = running /\ asked' = asked
  BY DEF ReceiveData
<1>2. /\ incoming' \subseteq [peer : Peers, id : TransferIds, chunk : RealIndices, next : Nat]
      /\ \A y \in incoming' : y.next \in Blocks(y.chunk)
  BY <1>1, DeliveredFacts
<1>3. CASE UNCHANGED <<want, receiving, have, haveAll, haveCount, file>>
  <2>1. TypeOK'
    BY <1>1, <1>2, <1>3 DEF IInv, TypeOK
  <2>2. NoChunkLost' /\ OneWriterPerChunk' /\ CountersAgree'
    BY <1>1, <1>3 DEF IInv, NoChunkLost, Tracked, Missing, InTransfer, OneWriterPerChunk,
                      CountersAgree
  <2>3. HaveIsOnDisk'
    BY <1>3 DEF IInv, HaveIsOnDisk, Verified
  <2> QED  BY <2>1, <2>2, <2>3 DEF IInv
<1>4. CASE \E r \in Entry(x) : ReceiveBlock(x, r, right)
  <2>1. PICK r \in Entry(x) : ReceiveBlock(x, r, right)
    BY <1>4
  <2>2. /\ r \in receiving
        /\ r \in Entries /\ r.chunk \in RealIndices /\ r.chunk \in Chunks /\ r.chunk \notin have
        /\ \A r1 \in receiving : r1 # r => r1.chunk # r.chunk
    BY ChunkFacts DEF Entry, Entries, IInv, TypeOK, OneWriterPerChunk, InTransfer
  <2>4. /\ file' \in [Chunks -> SUBSET (0 .. BlocksPerChunk - 1)]
        /\ \A i \in Chunks : i # r.chunk => file'[i] = file[i]
    <3>1. file \in [Chunks -> SUBSET (0 .. BlocksPerChunk - 1)]
      BY DEF IInv, TypeOK
    <3>2. CASE x.next \notin Blocks(r.chunk)
      BY <2>1, <3>1, <3>2 DEF ReceiveBlock, Written
    <3>3. CASE x.next \in Blocks(r.chunk)
      <4>1. file' = [file EXCEPT ![r.chunk] = IF right THEN @ \cup {x.next} ELSE @ \ {x.next}]
        BY <2>1, <3>3 DEF ReceiveBlock, Written
      <4>2. x.next \in 0 .. BlocksPerChunk - 1
        BY <2>2, <3>3, ChunkFacts
      <4> QED  BY <2>2, <3>1, <4>1, <4>2
    <3> QED  BY <3>2, <3>3
  <2>5. have \subseteq Verified(file')
    BY <2>2, <2>4 DEF IInv, HaveIsOnDisk, Verified
  <2>6. CASE /\ receiving' = (receiving \ {r}) \cup {[r EXCEPT !.time = 0]}
             /\ UNCHANGED <<want, have, haveAll, haveCount>>
    <3> DEFINE r0 == [r EXCEPT !.time = 0]
    <3>1. /\ r0 \in Entries /\ r0.time = 0 /\ r0.peer = r.peer /\ r0.id = r.id
          /\ r0.chunk = r.chunk
      BY <2>2 DEF Entries
    <3> HIDE DEF r0
    <3>2. /\ receiving' = (receiving \ {r}) \cup {r0}
          /\ UNCHANGED <<want, have, haveAll, haveCount>>
      BY <2>6 DEF r0
    <3>3. InTransfer' = InTransfer
      BY <3>1, <3>2, <2>2 DEF InTransfer
    <3>4. TypeOK'
      BY <1>1, <1>2, <2>4, <3>1, <3>2, DownloadAssumption DEF IInv, TypeOK
    <3>5. NoChunkLost' /\ CountersAgree'
      BY <1>1, <3>2, <3>3 DEF IInv, NoChunkLost, Tracked, Missing, CountersAgree
    <3>6. HaveIsOnDisk'
      BY <2>5, <3>2 DEF HaveIsOnDisk
    <3>7. OneWriterPerChunk'
      BY <2>2, <3>1, <3>2, <3>3 DEF IInv, OneWriterPerChunk
    <3> QED  BY <3>4, <3>5, <3>6, <3>7 DEF IInv
  <2>7. CASE receiving' = receiving \ {r} /\ FinishChunk(r.chunk)
    <3>1. receiving' = receiving \ {r}
      BY <2>7
    <3>2. InTransfer' = InTransfer \ {r.chunk}
      BY <2>2, <3>1 DEF InTransfer
    <3>3. CASE r.chunk \in Verified(file')
      <4>1. /\ have' = have \cup {r.chunk}
            /\ haveCount' = haveCount + 1
            /\ haveAll' = (haveCount' = NumChunks)
            /\ want' = want
        BY <2>7, <3>3 DEF FinishChunk
      <4>2. IsFiniteSet(have) /\ have \subseteq Chunks
        BY ChunkFacts, FS_Subset DEF IInv, TypeOK
      <4>3. Cardinality(have') = Cardinality(have) + 1
        BY <4>1, <4>2, <2>2, FS_AddElement
      <4>4. have' \subseteq Chunks /\ IsFiniteSet(have')
        BY <4>1, <4>2, <2>2, FS_AddElement
      <4>5. Cardinality(have') = NumChunks <=> have' = Chunks
        BY <4>4, ChunkFacts, FS_Subset
      <4>6. CountersAgree'
        BY <4>1, <4>3, <4>5 DEF IInv, CountersAgree
      <4>7. TypeOK'
        BY <1>1, <1>2, <2>4, <3>1, <4>1, <4>4 DEF IInv, TypeOK
      <4>8. NoChunkLost'
        BY <1>1, <3>2, <4>1 DEF IInv, NoChunkLost, Tracked, Missing
      <4>9. HaveIsOnDisk'
        BY <2>5, <3>3, <4>1 DEF HaveIsOnDisk
      <4>10. OneWriterPerChunk'
        BY <3>1, <3>2, <4>1 DEF IInv, OneWriterPerChunk
      <4> QED  BY <4>6, <4>7, <4>8, <4>9, <4>10 DEF IInv
    <3>4. CASE r.chunk \notin Verified(file')
      <4>1. want' = <<r.chunk>> \o want /\ UNCHANGED <<have, haveAll, haveCount>>
        BY <2>7, <3>4 DEF FinishChunk
      <4>2. want \in Seq(RealIndices)
        BY DEF IInv, TypeOK
      <4>3. want' \in Seq(RealIndices) /\ Range(want') = {r.chunk} \cup Range(want)
        BY <4>1, <4>2, <2>2, PushFront
      <4>4. TypeOK'
        BY <1>1, <1>2, <2>4, <3>1, <4>1, <4>3 DEF IInv, TypeOK
      <4>5. NoChunkLost'
        BY <1>1, <3>2, <4>1, <4>3 DEF IInv, NoChunkLost, Tracked, Missing
      <4>6. HaveIsOnDisk'
        BY <2>5, <4>1 DEF HaveIsOnDisk
      <4>7. OneWriterPerChunk' /\ CountersAgree'
        BY <3>1, <3>2, <4>1 DEF IInv, OneWriterPerChunk, CountersAgree
      <4> QED  BY <4>4, <4>5, <4>6, <4>7 DEF IInv
    <3> QED  BY <3>3, <3>4
  <2> QED  BY <2>1, <2>6, <2>7 DEF ReceiveBlock
<1> QED  BY <1>3, <1>4 DEF ReceiveData

\* Whatever runs out in an iteration goes back to the want queue, and the request
\* sent takes its chunk from there.
LEMMA IterateInv ==
    ASSUME IInv, NEW delta \in Deltas, NEW haveTargets \in BOOLEAN,
           Iterate(delta, haveTargets)
    PROVE  IInv'
<1> DEFINE idle    == {r \in receiving : r.time + delta >= TransferTimeout}
           overdue == {c \in DOMAIN requested : requested[c] + delta >= RequestTimeout}
           timers  == [c \in DOMAIN requested \ overdue |-> requested[c] + delta]
           alive   == {[r EXCEPT !.time = @ + delta] : r \in receiving \ idle}
           expired == {r.chunk : r \in idle}
<1>1. PICK fromTransfers \in Arrangements(expired), fromRequests \in PushedInTurn(overdue) :
         LET queue == fromRequests \o fromTransfers \o want
             mayRequest ==
                 /\ ~haveAll /\ haveTargets /\ queue # <<>>
                 /\ Cardinality(DOMAIN timers) + Cardinality(alive) < MaxIn
         IN  /\ receiving' = alive
             /\ \/ /\ mayRequest
                   /\ requested' = [c \in DOMAIN timers \cup {Head(queue)} |->
                                       IF c = Head(queue) THEN 0 ELSE timers[c]]
                   /\ want' = Tail(queue)
                   /\ asked' = Sent(Head(queue))
                \/ /\ ~mayRequest
                   /\ requested' = timers
                   /\ want' = queue
                   /\ UNCHANGED asked
  BY DEF Iterate, Expired, MayRequest, Request
<1>2. UNCHANGED <<have, haveAll, haveCount, file, running, incoming>>
  BY DEF Iterate
<1>3. delta \in Nat
  BY DownloadAssumption
<1>4. expired \subseteq RealIndices /\ IsFiniteSet(expired)
  <2>1. expired \subseteq RealIndices
    BY DEF IInv, TypeOK, Entries
  <2> QED  BY <2>1, ChunkFacts, FS_Subset
<1>5. overdue \subseteq RealIndices /\ IsFiniteSet(overdue)
  <2>1. overdue \subseteq RealIndices
    BY DEF IInv, TypeOK
  <2> QED  BY <2>1, ChunkFacts, FS_Subset
<1>6. fromTransfers \in Seq(RealIndices) /\ Range(fromTransfers) = expired
  BY <1>4, ArrangementFacts, SeqMonotonic
<1>7. fromRequests \in Seq(RealIndices) /\ Range(fromRequests) = overdue
  BY <1>5, ArrangementFacts, SeqMonotonic DEF PushedInTurn
<1> DEFINE queue == fromRequests \o fromTransfers \o want
<1>8. queue \in Seq(RealIndices) /\ Range(queue) = overdue \cup expired \cup Range(want)
  <2>1. want \in Seq(RealIndices)
    BY DEF IInv, TypeOK
  <2> DEFINE front == fromRequests \o fromTransfers
  <2>2. front \in Seq(RealIndices) /\ Range(front) = overdue \cup expired
    BY <1>6, <1>7, ConcatProperties, RangeConcatenation
  <2>3. queue = front \o want
    OBVIOUS
  <2> HIDE DEF front, queue, overdue, expired
  <2> QED  BY <2>1, <2>2, <2>3, ConcatProperties, RangeConcatenation
<1> DEFINE Aged(s) == [s EXCEPT !.time = @ + delta]
<1>9. ASSUME NEW s \in receiving \ idle
      PROVE  /\ Aged(s) \in Entries /\ Aged(s).time < TransferTimeout
             /\ Aged(s).peer = s.peer /\ Aged(s).id = s.id /\ Aged(s).chunk = s.chunk
  <2>1. s \in Entries /\ s.time \in Nat
    BY DEF IInv, TypeOK, Entries
  <2>2. s.time + delta < TransferTimeout /\ s.time + delta \in Nat
    BY <2>1, <1>3, DownloadAssumption
  <2> QED  BY <2>1, <2>2 DEF Entries
<1>10. alive = {Aged(s) : s \in receiving \ idle}
  OBVIOUS
<1> HIDE DEF Aged
<1>11. /\ DOMAIN timers = DOMAIN requested \ overdue
       /\ DOMAIN timers \subseteq RealIndices
       /\ \A c \in DOMAIN timers : timers[c] \in 0 .. RequestTimeout - 1
  BY <1>3, DownloadAssumption DEF IInv, TypeOK
<1> HIDE DEF queue, timers, alive
<1>12. receiving' = alive
  BY <1>1
<1>13. /\ want' \in Seq(RealIndices)
       /\ DOMAIN requested' \subseteq RealIndices
       /\ \A c \in DOMAIN requested' : requested'[c] \in 0 .. RequestTimeout - 1
       /\ asked' \in [RealIndices -> 0 .. AskBound]
       /\ Range(queue) \cup DOMAIN timers \subseteq Range(want') \cup DOMAIN requested'
  <2>1. CASE /\ queue # <<>>
             /\ requested' = [c \in DOMAIN timers \cup {Head(queue)} |->
                                 IF c = Head(queue) THEN 0 ELSE timers[c]]
             /\ want' = Tail(queue)
             /\ asked' = Sent(Head(queue))
    <3>1. /\ Head(queue) \in RealIndices /\ Tail(queue) \in Seq(RealIndices)
          /\ Range(queue) = {Head(queue)} \cup Range(Tail(queue))
      BY <2>1, <1>8, HeadTailRange
    <3>2. asked' \in [RealIndices -> 0 .. AskBound]
      <4>1. asked \in [RealIndices -> 0 .. AskBound] /\ AskBound \in Nat
        BY DownloadAssumption DEF IInv, TypeOK
      <4> QED  BY <4>1, <3>1, <2>1 DEF Sent
    <3>3. /\ DOMAIN requested' = DOMAIN timers \cup {Head(queue)}
          /\ \A c \in DOMAIN requested' : requested'[c] \in 0 .. RequestTimeout - 1
      BY <2>1, <1>11, DownloadAssumption
    <3> QED  BY <2>1, <3>1, <3>2, <3>3, <1>11
  <2>2. CASE requested' = timers /\ want' = queue /\ UNCHANGED asked
    BY <2>2, <1>8, <1>11 DEF IInv, TypeOK
  <2> QED  BY <1>1, <2>1, <2>2 DEF queue, timers, alive
<1>14. InTransfer' = {r.chunk : r \in receiving \ idle}
  <2>1. InTransfer' = {r.chunk : r \in {Aged(s) : s \in receiving \ idle}}
    BY <1>10, <1>12 DEF InTransfer
  <2> QED  BY <2>1, <1>9
<1>15. TypeOK'
  <2>1. receiving' \subseteq Entries /\ \A r \in receiving' : r.time < TransferTimeout
    BY <1>9, <1>10, <1>12
  <2> QED  BY <1>2, <1>13, <2>1 DEF IInv, TypeOK
<1>16. NoChunkLost'
  <2>1. Tracked = Range(want) \cup DOMAIN requested \cup InTransfer
    BY DEF Tracked
  <2>2. InTransfer \subseteq expired \cup InTransfer'
    BY <1>14 DEF InTransfer
  <2>3. DOMAIN requested \subseteq overdue \cup DOMAIN timers
    BY <1>11
  <2> HIDE DEF expired, overdue
  <2>4. Tracked \subseteq Tracked'
    BY <1>8, <1>13, <2>1, <2>2, <2>3 DEF Tracked
  <2> QED  BY <1>2, <2>4 DEF IInv, NoChunkLost, Missing
<1>17. OneWriterPerChunk'
  BY <1>2, <1>9, <1>10, <1>12, <1>14 DEF IInv, OneWriterPerChunk, InTransfer
<1>18. HaveIsOnDisk' /\ CountersAgree'
  BY <1>2 DEF IInv, HaveIsOnDisk, Verified, CountersAgree
<1> QED  BY <1>15, <1>16, <1>17, <1>18 DEF IInv

LEMMA NextInv == IInv /\ [Next]_vars => IInv'
<1> SUFFICES ASSUME IInv, [Next]_vars PROVE IInv'
  OBVIOUS
<1>1. CASE \E p \in Peers, t \in TransferIds, h \in Hashes : ReceiveInit(p, t, h)
  BY <1>1, ReceiveInitInv
<1>2. CASE \E x \in incoming, right \in BOOLEAN : ReceiveData(x, right)
  BY <1>2, ReceiveDataInv
<1>3. CASE \E x \in incoming : LoseTransfer(x)
  BY <1>3, LoseTransferInv
<1>4. CASE \E delta \in Deltas, haveTargets \in BOOLEAN : Iterate(delta, haveTargets)
  BY <1>4, IterateInv
<1>5. CASE Restart
  BY <1>5, RestartInv
<1>6. CASE UNCHANGED vars
  BY <1>6 DEF vars, IInv, TypeOK, NoChunkLost, Tracked, Missing, InTransfer, HaveIsOnDisk,
              Verified, OneWriterPerChunk, CountersAgree
<1> QED  BY <1>1, <1>2, <1>3, <1>4, <1>5, <1>6 DEF Next
-----------------------------------------------------------------------------
(* The theorems.                                                           *)

\* The inductive invariant holds in every state of the download.
THEOREM Invariance == Spec => []IInv
<1> QED  BY InitInv, NextInv, PTL DEF Spec

\* Every index queued, requested or received is one the lookup table returns, and
\* every block is inside its chunk, for every table and timing (sha1.cpp 71-124).
THEOREM TypeCorrect == Spec => []TypeOK
<1>1. IInv => TypeOK
  BY DEF IInv
<1> QED  BY <1>1, Invariance, PTL

\* A missing chunk is never forgotten (sha1.cpp 100-124, 272-274, 435-445, 475-480).
THEOREM NothingForgotten == Spec => []NoChunkLost
<1>1. IInv => NoChunkLost
  BY DEF IInv
<1> QED  BY <1>1, Invariance, PTL

\* A chunk that is marked as there has the right bytes in the file (sha1.cpp 465-483).
THEOREM HaveIsVerified == Spec => []HaveIsOnDisk
<1>1. IInv => HaveIsOnDisk
  BY DEF IInv
<1> QED  BY <1>1, Invariance, PTL

\* A chunk has at most one transfer, and none once it is there (sha1.cpp 413-433).
THEOREM ExclusiveWriters == Spec => []OneWriterPerChunk
<1>1. IInv => OneWriterPerChunk
  BY DEF IInv
<1> QED  BY <1>1, Invariance, PTL

\* _have_count and _have_all are what _have_chunk says (sha1.cpp 483-485).
THEOREM CountersCorrect == Spec => []CountersAgree
<1>1. IInv => CountersAgree
  BY DEF IInv
<1> QED  BY <1>1, Invariance, PTL

\* No step, a restart included, makes a chunk that was there missing again
\* (sha1.cpp 465-485, receive_start_sha1.cpp 95-115).
THEOREM NothingLost == Spec => VerifiedNeverLost
<1>1. IInv /\ [Next]_vars => [have \subseteq have']_vars
  <2> SUFFICES ASSUME IInv, Next PROVE have \subseteq have'
    BY DEF vars
  <2>1. CASE Restart
    BY <2>1 DEF IInv, HaveIsOnDisk, Restart
  <2>2. CASE \E p \in Peers, t \in TransferIds, h \in Hashes : ReceiveInit(p, t, h)
    BY <2>2 DEF ReceiveInit
  <2>3. CASE \E x \in incoming, right \in BOOLEAN : ReceiveData(x, right)
    BY <2>3 DEF ReceiveData, ReceiveBlock, FinishChunk
  <2>4. CASE \E x \in incoming : LoseTransfer(x)
    BY <2>4 DEF LoseTransfer
  <2>5. CASE \E delta \in Deltas, haveTargets \in BOOLEAN : Iterate(delta, haveTargets)
    BY <2>5 DEF Iterate
  <2> QED  BY <2>1, <2>2, <2>3, <2>4, <2>5 DEF Next
<1> QED  BY <1>1, Invariance, PTL DEF Spec, VerifiedNeverLost

LEMMA DistinctChunks ==
    ASSUME \A i, j \in Chunks : HashOf[i] = HashOf[j] => i = j
    PROVE  RealIndices = Chunks
BY ChunkTableAssumption DEF RealIndices, ChunkIndex, Chunks

\* When no two chunks have the same hash, something is queued, requested or being
\* received as long as something is missing (sha1.cpp 45-59, 263).
THEOREM NeverStallsWhenDistinct ==
    ASSUME \A i, j \in Chunks : HashOf[i] = HashOf[j] => i = j
    PROVE  Spec => []NeverStalls
<1>1. IInv => NeverStalls
  <2> SUFFICES ASSUME IInv, ~haveAll, want = <<>>, DOMAIN requested = {}, receiving = {}
               PROVE  FALSE
    BY DEF NeverStalls
  <2>1. Tracked = {}
    BY DEF Tracked, InTransfer, Range
  <2>2. have = Chunks
    BY DistinctChunks, <2>1 DEF IInv, TypeOK, NoChunkLost, Missing
  <2> QED  BY <2>2 DEF IInv, CountersAgree
<1> QED  BY <1>1, Invariance, PTL

\* When no two chunks have the same hash, the program starts up on whatever a
\* killed one has left (sha1.cpp 51-59).
THEOREM StartsWhenDistinct ==
    ASSUME \A i, j \in Chunks : HashOf[i] = HashOf[j] => i = j
    PROVE  Spec => []StartsUp
<1>1. \A h : h \subseteq Chunks => ConstructorAsserts(h)
  BY DistinctChunks DEF ConstructorAsserts, Missing
<1>2. Init => StartsUp
  BY <1>1 DEF Init, StartsUp
<1>3. StartsUp /\ [Next]_vars => StartsUp'
  <2>1. Restart => StartsUp'
    BY <1>1 DEF Restart, Verified, StartsUp
  <2> QED
    BY <2>1 DEF StartsUp, Next, vars, ReceiveInit, ReceiveData, LoseTransfer, Iterate
<1> QED  BY <1>2, <1>3, PTL DEF Spec
-----------------------------------------------------------------------------
(* Refinement.                                                             *)

\* The store names the chunks and the blocks the download names.
LEMMA StoreFacts ==
    /\ Store!Chunks = Chunks
    /\ \A i : Store!Blocks(i) = Blocks(i)
    /\ \A f : Store!Verified(f) = Verified(f)
<1>1. Store!Chunks = Chunks
  BY DEF Store!Chunks, Chunks
<1>2. \A i : Store!Blocks(i) = Blocks(i)
  BY DEF Store!Blocks, Blocks, Store!ChunkSize, ChunkSize
<1> QED  BY <1>1, <1>2 DEF Store!Verified, Verified

\* A block that arrives is a write of the store, or of no concern to it.
LEMMA ReceiveDataStores ==
    ASSUME IInv, NEW x \in incoming, NEW right \in BOOLEAN, ReceiveData(x, right)
    PROVE  [Store!Next]_(Store!store)
<1>1. CASE UNCHANGED <<have, file>>
  BY <1>1 DEF Store!store
<1>2. CASE \E r \in Entry(x) : ReceiveBlock(x, r, right)
  <2>1. PICK r \in Entry(x) : ReceiveBlock(x, r, right)
    BY <1>2
  <2>2. r.chunk \in Chunks /\ r.chunk \notin have
    BY ChunkFacts DEF Entry, Entries, IInv, TypeOK, OneWriterPerChunk, InTransfer
  <2>3. CASE x.next \notin Blocks(r.chunk)
    <3>1. x.next \in Nat
      BY DEF IInv, TypeOK
    <3>2. x.next + 1 # ChunkSize(r.chunk)
      BY <2>2, <2>3, <3>1, ChunkFacts DEF Blocks
    <3> QED  BY <2>1, <2>3, <3>2 DEF ReceiveBlock, Written, Store!store
  <2>4. CASE x.next \in Blocks(r.chunk)
    <3>1. \E blocks \in {file[r.chunk] \cup {x.next}, file[r.chunk] \ {x.next}} :
             file' = [file EXCEPT ![r.chunk] = blocks]
      BY <2>1, <2>4 DEF ReceiveBlock, Written
    <3>2. \/ have' = have
          \/ r.chunk \in Verified(file') /\ have' = have \cup {r.chunk}
      BY <2>1 DEF ReceiveBlock, FinishChunk
    <3>3. Store!Write(r.chunk, x.next)
      BY <2>2, <3>1, <3>2, StoreFacts DEF Store!Write
    <3> QED  BY <2>2, <2>4, <3>3, StoreFacts DEF Store!Next
  <2> QED  BY <2>3, <2>4
<1> QED  BY <1>1, <1>2 DEF ReceiveData

\* Seen as a file and the chunks known to be right in it, the download is the
\* verified store (sha1.cpp 413-447, 452-491, receive_start_sha1.cpp 95-115).
THEOREM ImplementsStore == Spec => StoreSpec
<1>1. Init => Store!Init
  <2> SUFFICES ASSUME Init PROVE Store!Init
    OBVIOUS
  <2>1. PICK present \in SUBSET Chunks :
           /\ file = [i \in Chunks |-> IF i \in present THEN Blocks(i) ELSE {}]
           /\ have = present
    BY DEF Init
  <2>2. file \in [Chunks -> SUBSET (0 .. BlocksPerChunk - 1)]
    BY <2>1, ChunkFacts
  <2>3. have = Verified(file)
    BY <2>1, ChunkFacts DEF Verified
  <2> QED  BY <2>2, <2>3, StoreFacts DEF Store!Init
<1>2. IInv /\ [Next]_vars => [Store!Next]_(Store!store)
  <2> SUFFICES ASSUME IInv, [Next]_vars PROVE [Store!Next]_(Store!store)
    OBVIOUS
  <2>1. CASE Restart
    <3>1. Store!Reopen
      BY <2>1, StoreFacts DEF Restart, Store!Reopen
    <3> QED  BY <3>1 DEF Store!Next
  <2>2. CASE \E x \in incoming, right \in BOOLEAN : ReceiveData(x, right)
    BY <2>2, ReceiveDataStores
  <2>3. CASE \E p \in Peers, t \in TransferIds, h \in Hashes : ReceiveInit(p, t, h)
    BY <2>3 DEF ReceiveInit, Store!store
  <2>4. CASE \E x \in incoming : LoseTransfer(x)
    BY <2>4 DEF LoseTransfer, Store!store
  <2>5. CASE \E delta \in Deltas, haveTargets \in BOOLEAN : Iterate(delta, haveTargets)
    BY <2>5 DEF Iterate, Store!store
  <2>6. CASE UNCHANGED vars
    BY <2>6 DEF vars, Store!store
  <2> QED  BY <2>1, <2>2, <2>3, <2>4, <2>5, <2>6 DEF Next
<1> QED  BY <1>1, <1>2, Invariance, PTL DEF Spec, StoreSpec, Store!Spec
=============================================================================
