-------------------------- MODULE SHA1UploadProofs --------------------------
(***************************************************************************)
(* Proofs about SHA1Upload, for every chunk table, all peers and transfer  *)
(* ids, and every limit and timeout.                                       *)
(***************************************************************************)
EXTENDS SHA1Upload, FiniteSetTheorems, SequenceTheorems, TLAPS
-----------------------------------------------------------------------------
(* Counting.                                                               *)

\* In a finite set of numbers there is one of every rank: the n-th smallest.
LEMMA RankedElements ==
    ASSUME NEW K \in SUBSET Nat, IsFiniteSet(K), NEW n \in 1 .. Cardinality(K)
    PROVE  \E k \in K : Cardinality({j \in K : j <= k}) = n
<1> DEFINE upTo(k) == {j \in K : j <= k}
           rank == [k \in K |-> Cardinality(upTo(k))]
           ranks == 1 .. Cardinality(K)
<1>1. Cardinality(K) \in Nat
  BY FS_CardinalityType
<1>2. IsFiniteSet(ranks) /\ Cardinality(ranks) = Cardinality(K)
  BY <1>1, FS_Interval
<1>3. ASSUME NEW k \in K
      PROVE  IsFiniteSet(upTo(k)) /\ rank[k] \in ranks
  <2>1. IsFiniteSet(upTo(k)) /\ Cardinality(upTo(k)) <= Cardinality(K)
    BY FS_Subset
  <2>2. k \in upTo(k)
    OBVIOUS
  <2> HIDE DEF upTo
  <2>3. Cardinality(upTo(k)) \in Nat /\ Cardinality(upTo(k)) # 0
    BY <2>1, <2>2, FS_CardinalityType, FS_EmptySet
  <2> QED  BY <1>1, <2>1, <2>3
<1>4. ASSUME NEW k \in K, NEW l \in K, k < l
      PROVE  rank[k] # rank[l]
  <2>1. k \in Nat /\ l \in Nat /\ K \subseteq Nat
    OBVIOUS
  <2>2. upTo(k) \subseteq upTo(l) /\ l \in upTo(l) /\ l \notin upTo(k)
    <3>1. \A j \in K : j \in Nat /\ (j <= k => j <= l)
      BY <1>4, <2>1
    <3>2. l <= l /\ ~(l <= k)
      BY <1>4, <2>1
    <3> QED  BY <3>1, <3>2
  <2>3. IsFiniteSet(upTo(l)) /\ rank[k] = Cardinality(upTo(k)) /\ rank[l] = Cardinality(upTo(l))
    BY <1>3
  <2> HIDE DEF upTo, rank
  <2>4. Cardinality(upTo(l)) = Cardinality(upTo(k)) => upTo(l) = upTo(k)
    BY <2>2, <2>3, FS_Subset
  <2> QED  BY <2>2, <2>3, <2>4
<1>5. rank \in Injection(K, ranks)
  <2>1. rank \in [K -> ranks]
    BY <1>3
  <2>2. ASSUME NEW k \in K, NEW l \in K, rank[k] = rank[l]
        PROVE  k = l
    BY <1>4, <2>2
  <2> QED  BY <2>1, <2>2, Zenon DEF Injection, IsInjective
<1>6. rank \in Surjection(K, ranks)
  BY <1>2, <1>5, FS_Injection
<1>7. PICK k \in K : rank[k] = n
  BY <1>6 DEF Surjection
<1> QED  BY <1>7
-----------------------------------------------------------------------------
(* The lists of requests and of transfers.                                 *)

ChunkRequests == [peer : Peers, hash : Hashes, time : 0 .. QueueTimeout - 1]

InfoEntries == [peer : Peers, id : TransferIds, time : 0 .. TransferTimeout - 1]

ChunkEntries ==
    [peer : Peers, id : TransferIds, chunk : RealIndices, time : 0 .. TransferTimeout - 1]

FTTransfers ==
    [peer : Peers, id : TransferIds, kind : {"info", "chunk"}, chunk : RealIndices \cup {0},
     next : Nat, idle : 0 .. GiveUp - 1]

\* Every member of the list r is one of the list q but for its time, and no member
\* of q is there twice.
ComesFrom(r, q) ==
    \E at \in [DOMAIN r -> DOMAIN q] :
        /\ \A m, n \in DOMAIN r : at[m] = at[n] => m = n
        /\ \A n \in DOMAIN r : r[n] = [q[at[n]] EXCEPT !.time = r[n].time]

\* No two requests of q are of the same peer for the same chunk.
Apart(q) ==
    \A j, k \in DOMAIN q : q[j].peer = q[k].peer /\ q[j].hash = q[k].hash => j = k

\* No two entries of q are of the same peer.
PeersApart(q) == \A j, k \in DOMAIN q : q[j].peer = q[k].peer => j = k

\* What holds of peers, hashes and chunks holds of any list that comes from the first.
LEMMA ComesFromFacts ==
    ASSUME NEW r, NEW q, ComesFrom(r, q)
    PROVE  /\ q \in Seq(InfoEntries) =>
                 /\ \A n \in DOMAIN r : \E k \in DOMAIN q : r[n].peer = q[k].peer
                 /\ PeersApart(q) => PeersApart(r)
           /\ q \in Seq(ChunkRequests) =>
                 /\ \A n \in DOMAIN r : \E k \in DOMAIN q : r[n].hash = q[k].hash
                 /\ Apart(q) => Apart(r)
           /\ q \in Seq(ChunkEntries) =>
                 \A n \in DOMAIN r : \E k \in DOMAIN q : r[n].chunk = q[k].chunk
<1>1. PICK at \in [DOMAIN r -> DOMAIN q] :
         /\ \A m, n \in DOMAIN r : at[m] = at[n] => m = n
         /\ \A n \in DOMAIN r : r[n] = [q[at[n]] EXCEPT !.time = r[n].time]
  BY DEF ComesFrom
<1>2. ASSUME q \in Seq(InfoEntries)
      PROVE  /\ \A n \in DOMAIN r : \E k \in DOMAIN q : r[n].peer = q[k].peer
             /\ PeersApart(q) => PeersApart(r)
  <2>1. \A n \in DOMAIN r : at[n] \in DOMAIN q /\ q[at[n]] \in InfoEntries
    BY <1>2
  <2>2. \A n \in DOMAIN r : r[n].peer = q[at[n]].peer
    BY <1>1, <2>1 DEF InfoEntries
  <2> QED  BY <1>1, <2>1, <2>2 DEF PeersApart
<1>3. ASSUME q \in Seq(ChunkRequests)
      PROVE  /\ \A n \in DOMAIN r : \E k \in DOMAIN q : r[n].hash = q[k].hash
             /\ Apart(q) => Apart(r)
  <2>1. \A n \in DOMAIN r : at[n] \in DOMAIN q /\ q[at[n]] \in ChunkRequests
    BY <1>3
  <2>2. \A n \in DOMAIN r : r[n].peer = q[at[n]].peer /\ r[n].hash = q[at[n]].hash
    BY <1>1, <2>1 DEF ChunkRequests
  <2> QED  BY <1>1, <2>1, <2>2 DEF Apart
<1>4. ASSUME q \in Seq(ChunkEntries)
      PROVE  \A n \in DOMAIN r : \E k \in DOMAIN q : r[n].chunk = q[k].chunk
  <2>1. \A n \in DOMAIN r : at[n] \in DOMAIN q /\ q[at[n]] \in ChunkEntries
    BY <1>4
  <2>2. \A n \in DOMAIN r : r[n].chunk = q[at[n]].chunk
    BY <1>1, <2>1 DEF ChunkEntries
  <2> QED  BY <2>1, <2>2
<1> QED  BY <1>2, <1>3, <1>4

\* The timers keep some of a list, each member once.
LEMMA StillWaitingFacts ==
    ASSUME NEW E, NEW list \in Seq(E), NEW delta \in Nat, NEW limit,
           \A e \in E : ~Expired(e.time + delta, limit) =>
                /\ [e EXCEPT !.time = @ + delta] \in E
                /\ [e EXCEPT !.time = @ + delta].time = e.time + delta
    PROVE  /\ StillWaiting(list, delta, limit) \in Seq(E)
           /\ ComesFrom(StillWaiting(list, delta, limit), list)
<1> DEFINE kept    == {k \in DOMAIN list : ~Expired(list[k].time + delta, limit)}
           rank(k) == Cardinality({j \in kept : j <= k})
           at(n)   == CHOOSE j \in kept : rank(j) = n
           r       == StillWaiting(list, delta, limit)
<1>1. IsFiniteSet(kept) /\ kept \subseteq Nat /\ Cardinality(kept) \in Nat
  <2>1. DOMAIN list = 1 .. Len(list) /\ Len(list) \in Nat
    OBVIOUS
  <2>2. IsFiniteSet(1 .. Len(list))
    BY <2>1, FS_Interval
  <2> QED  BY <2>1, <2>2, FS_Subset, FS_CardinalityType
<1>2. r = [n \in 1 .. Cardinality(kept) |-> [list[at(n)] EXCEPT !.time = @ + delta]]
  BY DEF StillWaiting
<1>3. ASSUME NEW n \in 1 .. Cardinality(kept)
      PROVE  at(n) \in kept /\ rank(at(n)) = n
  <2> HIDE DEF kept
  <2>1. kept \in SUBSET Nat /\ IsFiniteSet(kept)
    BY <1>1
  <2>2. \E k \in kept : Cardinality({j \in kept : j <= k}) = n
    BY <2>1, RankedElements, Zenon
  <2> QED  BY <2>2
<1> HIDE DEF at, rank, r
<1>4. ASSUME NEW n \in 1 .. Cardinality(kept)
      PROVE  /\ at(n) \in DOMAIN list
             /\ r[n] \in E
             /\ r[n] = [list[at(n)] EXCEPT !.time = r[n].time]
  <2>1. at(n) \in DOMAIN list /\ ~Expired(list[at(n)].time + delta, limit)
    BY <1>3
  <2>2. list[at(n)] \in E
    BY <2>1
  <2>3. r[n] = [list[at(n)] EXCEPT !.time = @ + delta]
    BY <1>2
  <2>4. r[n] \in E /\ r[n].time = list[at(n)].time + delta
    BY <2>1, <2>2, <2>3
  <2> QED  BY <2>1, <2>3, <2>4
<1>5. DOMAIN r = 1 .. Cardinality(kept)
  BY <1>2
<1>6. r \in Seq(E)
  <2>1. r = [n \in 1 .. Cardinality(kept) |-> r[n]]
    BY <1>2
  <2>2. r \in [1 .. Cardinality(kept) -> E]
    BY <1>4, <2>1
  <2> QED  BY <1>1, <2>2, SeqDef
<1>7. ComesFrom(r, list)
  <2> DEFINE from == [n \in DOMAIN r |-> at(n)]
  <2>1. from \in [DOMAIN r -> DOMAIN list]
    BY <1>4, <1>5
  <2>2. \A m, n \in DOMAIN r : from[m] = from[n] => m = n
    BY <1>3, <1>5
  <2>3. \A n \in DOMAIN r : r[n] = [list[from[n]] EXCEPT !.time = r[n].time]
    BY <1>4, <1>5
  <2> HIDE DEF from
  <2> QED  BY <2>1, <2>2, <2>3 DEF ComesFrom
<1> QED  BY <1>6, <1>7 DEF r

\* So does taking one out.
LEMMA WithoutFacts ==
    ASSUME NEW E, NEW list \in Seq(E), NEW k \in DOMAIN list,
           \A e \in E : e = [e EXCEPT !.time = e.time]
    PROVE  Without(list, k) \in Seq(E) /\ ComesFrom(Without(list, k), list)
<1> DEFINE front == SubSeq(list, 1, k - 1)
           back  == SubSeq(list, k + 1, Len(list))
           r     == Without(list, k)
<1>1. Len(list) \in Nat /\ DOMAIN list = 1 .. Len(list) /\ k \in 1 .. Len(list)
  OBVIOUS
<1>2. \A i \in 1 .. Len(list) : list[i] \in E
  OBVIOUS
<1>3. /\ front \in Seq(E) /\ Len(front) = k - 1
      /\ \A i \in 1 .. k - 1 : front[i] = list[i]
  <2>1. \A i \in 1 .. k - 1 : list[i] \in E
    BY <1>1, <1>2
  <2>2. /\ front \in Seq(E) /\ Len(front) = IF 1 <= k - 1 THEN (k - 1) - 1 + 1 ELSE 0
        /\ \A i \in 1 .. (k - 1) - 1 + 1 : front[i] = list[1 + i - 1]
    BY <1>1, <2>1, SubSeqProperties
  <2> HIDE DEF front
  <2> QED  BY <1>1, <2>2
<1>4. /\ back \in Seq(E) /\ Len(back) = Len(list) - k
      /\ \A i \in 1 .. Len(list) - k : back[i] = list[k + i]
  <2>1. \A i \in k + 1 .. Len(list) : list[i] \in E
    BY <1>1, <1>2
  <2>2. /\ back \in Seq(E)
        /\ Len(back) = IF k + 1 <= Len(list) THEN Len(list) - (k + 1) + 1 ELSE 0
        /\ \A i \in 1 .. Len(list) - (k + 1) + 1 : back[i] = list[(k + 1) + i - 1]
    BY <1>1, <2>1, SubSeqProperties
  <2> HIDE DEF back
  <2>3. /\ Len(list) - (k + 1) + 1 = Len(list) - k
        /\ \A i \in 1 .. Len(list) - k : (k + 1) + i - 1 = k + i
        /\ k + 1 <= Len(list) \/ Len(list) - k = 0
    BY <1>1
  <2> QED  BY <2>2, <2>3
<1>5. r = front \o back
  BY DEF Without
<1> HIDE DEF front, back, r
<1>6. /\ r \in Seq(E) /\ Len(r) = Len(list) - 1
      /\ \A i \in 1 .. Len(list) - 1 : r[i] = IF i < k THEN list[i] ELSE list[i + 1]
  <2>1. /\ r \in Seq(E) /\ Len(r) = Len(front) + Len(back)
        /\ \A i \in 1 .. Len(front) + Len(back) :
              r[i] = IF i <= Len(front) THEN front[i] ELSE back[i - Len(front)]
    <3>1. front \in Seq(E) /\ back \in Seq(E)
      BY <1>3, <1>4
    <3> QED  BY <1>5, <3>1, ConcatProperties
  <2>2. ASSUME NEW i \in 1 .. Len(list) - 1
        PROVE  r[i] = IF i < k THEN list[i] ELSE list[i + 1]
    <3>1. r[i] = IF i <= k - 1 THEN front[i] ELSE back[i - (k - 1)]
      BY <1>1, <1>3, <1>4, <2>1
    <3>2. CASE i < k
      BY <1>1, <1>3, <3>1, <3>2
    <3>3. CASE ~(i < k)
      <4>1. i - (k - 1) \in 1 .. Len(list) - k /\ k + (i - (k - 1)) = i + 1
        BY <1>1, <3>3
      <4>2. r[i] = back[i - (k - 1)]
        BY <1>1, <3>1, <3>3
      <4> QED  BY <1>4, <3>3, <4>1, <4>2
    <3> QED  BY <3>2, <3>3
  <2> QED  BY <1>1, <1>3, <1>4, <2>1, <2>2
<1>7. ComesFrom(r, list)
  <2> DEFINE from == [n \in DOMAIN r |-> IF n < k THEN n ELSE n + 1]
  <2>1. DOMAIN r = 1 .. Len(list) - 1
    BY <1>6
  <2>2. from \in [DOMAIN r -> DOMAIN list]
    BY <1>1, <2>1
  <2>3. \A m, n \in DOMAIN r : from[m] = from[n] => m = n
    BY <1>1, <2>1
  <2>4. \A n \in DOMAIN r : r[n] = list[from[n]] /\ from[n] \in DOMAIN list
    BY <1>1, <1>6, <2>1
  <2> HIDE DEF from
  <2>5. \A n \in DOMAIN r : r[n] = [list[from[n]] EXCEPT !.time = r[n].time]
    BY <1>1, <1>2, <2>4
  <2> QED  BY <2>2, <2>3, <2>5 DEF ComesFrom
<1> QED  BY <1>6, <1>7 DEF r

\* So does starting the time of one anew.
LEMMA AnewFacts ==
    ASSUME NEW E, NEW list \in Seq(E), NEW k \in DOMAIN list,
           \A e \in E : /\ e = [e EXCEPT !.time = e.time]
                        /\ [e EXCEPT !.time = 0] \in E /\ [e EXCEPT !.time = 0].time = 0
    PROVE  [list EXCEPT ![k].time = 0] \in Seq(E)
           /\ ComesFrom([list EXCEPT ![k].time = 0], list)
<1> DEFINE r == [list EXCEPT ![k].time = 0]
<1>1. \A n \in DOMAIN list : list[n] \in E
  OBVIOUS
<1>2. /\ DOMAIN r = DOMAIN list
      /\ \A n \in DOMAIN list : r[n] = IF n = k THEN [list[k] EXCEPT !.time = 0] ELSE list[n]
  OBVIOUS
<1> HIDE DEF r
<1>3. \A n \in DOMAIN r : r[n] \in E /\ r[n] = [list[n] EXCEPT !.time = r[n].time]
  <2>1. ASSUME NEW n \in DOMAIN list, n # k
        PROVE  r[n] \in E /\ r[n] = [list[n] EXCEPT !.time = r[n].time]
    <3>1. r[n] = list[n] /\ list[n] \in E
      BY <1>1, <1>2, <2>1
    <3>2. list[n] = [list[n] EXCEPT !.time = list[n].time]
      BY <3>1
    <3> QED  BY <3>1, <3>2
  <2>2. r[k] \in E /\ r[k] = [list[k] EXCEPT !.time = r[k].time]
    <3>1. r[k] = [list[k] EXCEPT !.time = 0] /\ list[k] \in E
      BY <1>1, <1>2
    <3>2. r[k] \in E /\ r[k].time = 0
      BY <3>1
    <3> QED  BY <3>1, <3>2
  <2> QED  BY <1>2, <2>1, <2>2
<1>4. r \in Seq(E)
  <2>1. r = [n \in 1 .. Len(list) |-> r[n]]
    BY <1>2 DEF r
  <2>2. DOMAIN r = 1 .. Len(list) /\ Len(list) \in Nat
    BY <1>2
  <2> QED  BY <1>3, <2>1, <2>2, SeqDef
<1>5. ComesFrom(r, list)
  <2> DEFINE from == [n \in DOMAIN r |-> n]
  <2>1. from \in [DOMAIN r -> DOMAIN list] /\ \A n \in DOMAIN r : from[n] = n
    BY <1>2
  <2> HIDE DEF from
  <2> QED  BY <1>3, <2>1 DEF ComesFrom
<1> QED  BY <1>4, <1>5 DEF r

\* Entries of either kind may be moved on in time until they time out.
LEMMA EntriesInTime ==
    ASSUME NEW E \in {InfoEntries, ChunkEntries}
    PROVE  \A e \in E :
              /\ e = [e EXCEPT !.time = e.time]
              /\ [e EXCEPT !.time = 0] \in E /\ [e EXCEPT !.time = 0].time = 0
              /\ \A delta \in Nat :
                    ~Expired(e.time + delta, TransferTimeout) =>
                        /\ [e EXCEPT !.time = @ + delta] \in E
                        /\ [e EXCEPT !.time = @ + delta].time = e.time + delta
<1> USE UploadAssumption DEF Expired
<1>1. CASE E = InfoEntries
  <2> SUFFICES ASSUME NEW e \in InfoEntries
               PROVE  /\ e = [e EXCEPT !.time = e.time]
                      /\ [e EXCEPT !.time = 0] \in InfoEntries
                      /\ [e EXCEPT !.time = 0].time = 0
                      /\ \A delta \in Nat :
                            ~Expired(e.time + delta, TransferTimeout) =>
                                /\ [e EXCEPT !.time = @ + delta] \in InfoEntries
                                /\ [e EXCEPT !.time = @ + delta].time = e.time + delta
    BY <1>1
  <2> QED  BY DEF InfoEntries
<1>2. CASE E = ChunkEntries
  <2> SUFFICES ASSUME NEW e \in ChunkEntries
               PROVE  /\ e = [e EXCEPT !.time = e.time]
                      /\ [e EXCEPT !.time = 0] \in ChunkEntries
                      /\ [e EXCEPT !.time = 0].time = 0
                      /\ \A delta \in Nat :
                            ~Expired(e.time + delta, TransferTimeout) =>
                                /\ [e EXCEPT !.time = @ + delta] \in ChunkEntries
                                /\ [e EXCEPT !.time = @ + delta].time = e.time + delta
    BY <1>2
  <2> QED  BY DEF ChunkEntries
<1> QED  BY <1>1, <1>2

\* Requests may, too.
LEMMA RequestsInTime ==
    \A e \in ChunkRequests, delta \in Nat :
        ~Expired(e.time + delta, QueueTimeout) =>
            /\ [e EXCEPT !.time = @ + delta] \in ChunkRequests
            /\ [e EXCEPT !.time = @ + delta].time = e.time + delta
BY UploadAssumption DEF Expired, ChunkRequests
-----------------------------------------------------------------------------
(* Transfers.                                                              *)

\* The index a hash is looked up as is a real one, and the only one.
LEMMA IndexFacts ==
    /\ RealIndices \subseteq Chunks /\ Chunks \subseteq Nat /\ 0 \in Chunks
    /\ \A h : ChunkIndex(h) \subseteq RealIndices
    /\ \A h : \A i, j \in ChunkIndex(h) : i = j
<1>1. RealIndices \subseteq Chunks /\ Chunks \subseteq Nat /\ 0 \in Chunks
  BY ChunkTableAssumption DEF Chunks, RealIndices
<1>2. \A h : ChunkIndex(h) \subseteq RealIndices
  BY DEF ChunkIndex, RealIndices
<1>3. \A h : \A i, j \in ChunkIndex(h) : i = j
  BY <1>1 DEF ChunkIndex
<1> QED  BY <1>1, <1>2, <1>3

\* What FT1 still sends is what it sent, idle for longer.
LEMMA StillSendingFacts ==
    ASSUME outgoing \subseteq FTTransfers, NEW delta \in Nat
    PROVE  /\ StillSending(delta) \subseteq FTTransfers
           /\ \A x \in StillSending(delta) : \E y \in outgoing :
                 x.kind = y.kind /\ x.chunk = y.chunk
<1> USE UploadAssumption
<1>1. ASSUME NEW x \in StillSending(delta)
      PROVE  /\ x \in FTTransfers
             /\ \E y \in outgoing : x.kind = y.kind /\ x.chunk = y.chunk
  <2>1. PICK y \in outgoing : x = [y EXCEPT !.idle = @ + delta] /\ y.idle + delta < GiveUp
    BY DEF StillSending
  <2>2. y \in FTTransfers
    OBVIOUS
  <2>3. x \in FTTransfers
    BY <2>1, <2>2 DEF FTTransfers
  <2>4. x.kind = y.kind /\ x.chunk = y.chunk
    BY <2>1, <2>2 DEF FTTransfers
  <2> QED  BY <2>3, <2>4
<1> QED  BY <1>1

\* What FT1 sends after it was handed a block of x is of the chunks it was of.
LEMMA TakenFacts ==
    ASSUME outgoing \subseteq FTTransfers, NEW x \in outgoing, NEW blocks
    PROVE  /\ Taken(x, blocks) \subseteq FTTransfers
           /\ \A y \in Taken(x, blocks) : \E z \in outgoing : y.kind = z.kind /\ y.chunk = z.chunk
<1> DEFINE more == [x EXCEPT !.next = @ + 1, !.idle = 0]
<1>1. x \in FTTransfers
  OBVIOUS
<1>2. more \in FTTransfers /\ more.kind = x.kind /\ more.chunk = x.chunk
  <2> DEFINE mid == [x EXCEPT !.next = @ + 1]
  <2>1. mid \in FTTransfers /\ mid.kind = x.kind /\ mid.chunk = x.chunk
    BY <1>1 DEF FTTransfers
  <2>2. more = [mid EXCEPT !.idle = 0]
    OBVIOUS
  <2> HIDE DEF mid, more
  <2> QED  BY <2>1, <2>2, UploadAssumption DEF FTTransfers
<1>3. \A y \in Taken(x, blocks) : y \in outgoing \/ y = more
  BY DEF Taken
<1> HIDE DEF more
<1> QED  BY <1>2, <1>3
-----------------------------------------------------------------------------
(* The inductive invariant.                                                *)

\* What is queued and what is being sent is there.  (A queued hash that is in no
\* table at all is only possible once every chunk is there.)
OnlyWhatIsThere ==
    /\ haveAll <=> have = Chunks
    /\ \A k \in DOMAIN chunkQueue : ChunkIndex(chunkQueue[k].hash) \subseteq have
    /\ \A k \in DOMAIN chunkSending : chunkSending[k].chunk \in have
    /\ \A x \in outgoing : x.kind = "chunk" => x.chunk \in have

IInv ==
    /\ TypeOK
    /\ OneInfoPerPeer
    /\ OnePlaceInQueue
    /\ OnlyWhatIsThere

\* The parts of the type invariant by name.
LEMMA Typed ==
    TypeOK <=>
        /\ infoQueue \in Seq(Peers) /\ infoSending \in Seq(InfoEntries)
        /\ chunkQueue \in Seq(ChunkRequests) /\ chunkSending \in Seq(ChunkEntries)
        /\ have \subseteq Chunks /\ haveAll \in BOOLEAN /\ exited \in BOOLEAN
        /\ connected \subseteq Peers /\ outgoing \subseteq FTTransfers
BY DEF TypeOK, ChunkRequests, InfoEntries, ChunkEntries, FTTransfers

\* Nothing is queued and nothing sent when the program starts.
LEMMA FreshInv ==
    ASSUME infoQueue = <<>>, infoSending = <<>>, chunkQueue = <<>>, chunkSending = <<>>,
           outgoing = {}, have \subseteq Chunks, haveAll = (have = Chunks), exited \in BOOLEAN,
           connected \subseteq Peers
    PROVE  IInv
<1>1. TypeOK
  BY Typed
<1>2. /\ DOMAIN infoQueue = {} /\ DOMAIN chunkQueue = {}
      /\ DOMAIN infoSending = {} /\ DOMAIN chunkSending = {}
  OBVIOUS
<1>3. OneInfoPerPeer /\ OnePlaceInQueue /\ OnlyWhatIsThere
  BY <1>2 DEF OneInfoPerPeer, OnePlaceInQueue, OnlyWhatIsThere
<1> QED  BY <1>1, <1>3 DEF IInv

LEMMA InitInv == Init => IInv
BY FreshInv DEF Init
-----------------------------------------------------------------------------
(* Requests.                                                               *)

LEMMA ReceiveRequestInfoInv ==
    ASSUME IInv, NEW p \in Peers, ReceiveRequestInfo(p)
    PROVE  IInv'
<1> USE DEF IInv
<1>1. /\ infoQueue' = Append(infoQueue, p)
      /\ UNCHANGED <<infoSending, chunkQueue, chunkSending, outgoing, have, haveAll, exited,
                     connected>>
      /\ \A k \in DOMAIN infoQueue : infoQueue[k] # p
      /\ \A k \in DOMAIN infoSending : infoSending[k].peer # p
  BY DEF ReceiveRequestInfo, transfers, Range
<1>2. infoQueue \in Seq(Peers) /\ infoQueue' \in Seq(Peers)
  BY <1>1 DEF TypeOK
<1>3. /\ DOMAIN infoQueue' = DOMAIN infoQueue \cup {Len(infoQueue) + 1}
      /\ \A k \in DOMAIN infoQueue : infoQueue'[k] = infoQueue[k]
      /\ infoQueue'[Len(infoQueue) + 1] = p
  BY <1>1, <1>2
<1>4. OneInfoPerPeer'
  <2>1. ASSUME NEW j \in DOMAIN infoQueue', NEW k \in DOMAIN infoQueue',
               infoQueue'[j] = infoQueue'[k]
        PROVE  j = k
    BY <1>1, <1>3, <2>1 DEF OneInfoPerPeer
  <2>2. ASSUME NEW k \in DOMAIN infoSending' PROVE infoSending'[k].peer \notin Range(infoQueue')
    BY <1>1, <1>3 DEF OneInfoPerPeer, Range
  <2>3. \A j, k \in DOMAIN infoSending' : infoSending'[j].peer = infoSending'[k].peer => j = k
    BY <1>1 DEF OneInfoPerPeer
  <2> QED  BY <2>1, <2>2, <2>3 DEF OneInfoPerPeer
<1>5. TypeOK'
  BY <1>1, <1>2 DEF TypeOK
<1> QED  BY <1>1, <1>4, <1>5 DEF OnePlaceInQueue, OnlyWhatIsThere

LEMMA ReceiveRequestChunkInv ==
    ASSUME IInv, NEW p \in Peers, NEW h \in Hashes, ReceiveRequestChunk(p, h)
    PROVE  IInv'
<1> USE DEF IInv
<1>1. /\ HaveChunk(h)
      /\ UNCHANGED <<infoQueue, infoSending, chunkSending, outgoing, have, haveAll, exited,
                     connected>>
  BY DEF ReceiveRequestChunk, transfers
<1>2. ChunkIndex(h) \subseteq have
  <2>1. CASE haveAll
    BY <2>1, IndexFacts DEF OnlyWhatIsThere
  <2>2. CASE ChunkIndex(h) \cap have # {}
    <3>1. PICK i \in ChunkIndex(h) : i \in have
      BY <2>2
    <3>2. \A j \in ChunkIndex(h) : j = i
      BY IndexFacts
    <3> QED  BY <3>1, <3>2
  <2> QED  BY <1>1, <2>1, <2>2 DEF HaveChunk
<1>3. chunkQueue \in Seq(ChunkRequests)
  BY DEF TypeOK, ChunkRequests
<1>4. chunkQueue' \in Seq(ChunkRequests) /\ OnePlaceInQueue'
      /\ \A k \in DOMAIN chunkQueue' : ChunkIndex(chunkQueue'[k].hash) \subseteq have
  <2>1. CASE /\ Queued(p, h) = {}
             /\ chunkQueue' = Append(chunkQueue, [peer |-> p, hash |-> h, time |-> 0])
    <3> DEFINE e == [peer |-> p, hash |-> h, time |-> 0]
    <3>1. e \in ChunkRequests /\ e.peer = p /\ e.hash = h
      BY UploadAssumption DEF ChunkRequests
    <3> HIDE DEF e
    <3>2. chunkQueue' = Append(chunkQueue, e)
      BY <2>1 DEF e
    <3>3. /\ DOMAIN chunkQueue' = DOMAIN chunkQueue \cup {Len(chunkQueue) + 1}
          /\ \A k \in DOMAIN chunkQueue : chunkQueue'[k] = chunkQueue[k]
          /\ chunkQueue'[Len(chunkQueue) + 1] = e
          /\ chunkQueue' \in Seq(ChunkRequests)
      BY <1>3, <3>1, <3>2
    <3>4. \A k \in DOMAIN chunkQueue : ~(chunkQueue[k].peer = p /\ chunkQueue[k].hash = h)
      BY <2>1 DEF Queued
    <3>5. OnePlaceInQueue'
      BY <3>1, <3>3, <3>4 DEF OnePlaceInQueue
    <3> QED  BY <1>2, <3>1, <3>3, <3>5 DEF OnlyWhatIsThere
  <2>2. CASE \E k \in Queued(p, h) : chunkQueue' = [chunkQueue EXCEPT ![k].time = 0]
    <3>1. PICK k \in DOMAIN chunkQueue : chunkQueue' = [chunkQueue EXCEPT ![k].time = 0]
      BY <2>2 DEF Queued
    <3>2. chunkQueue[k] \in ChunkRequests
      BY <1>3
    <3>3. [chunkQueue[k] EXCEPT !.time = 0] \in ChunkRequests
      BY <3>2, UploadAssumption DEF ChunkRequests
    <3>4. /\ DOMAIN chunkQueue' = DOMAIN chunkQueue
          /\ chunkQueue' \in Seq(ChunkRequests)
      BY <1>3, <3>1, <3>3
    <3>5. \A j \in DOMAIN chunkQueue : /\ chunkQueue'[j].peer = chunkQueue[j].peer
                                       /\ chunkQueue'[j].hash = chunkQueue[j].hash
      BY <1>3, <3>1, <3>2 DEF ChunkRequests
    <3> QED  BY <3>4, <3>5 DEF OnePlaceInQueue, OnlyWhatIsThere
  <2> QED  BY <2>1, <2>2 DEF ReceiveRequestChunk
<1>5. TypeOK'
  BY <1>1, <1>4 DEF TypeOK, ChunkRequests
<1>6. OnlyWhatIsThere'
  BY <1>1, <1>4 DEF OnlyWhatIsThere
<1> QED  BY <1>1, <1>4, <1>5, <1>6 DEF OneInfoPerPeer
-----------------------------------------------------------------------------
(* Data.                                                                   *)

LEMMA SendDataInfoInv ==
    ASSUME IInv, NEW x \in outgoing, SendDataInfo(x)
    PROVE  IInv'
<1> USE DEF IInv
<1>1. /\ outgoing' = Taken(x, InfoBlocks)
      /\ UNCHANGED <<infoQueue, chunkQueue, chunkSending, have, haveAll, exited, connected>>
  BY DEF SendDataInfo, queues
<1>2. infoSending \in Seq(InfoEntries) /\ outgoing \subseteq FTTransfers
  BY Typed
<1>3. /\ outgoing' \subseteq FTTransfers
      /\ \A y \in outgoing' : \E z \in outgoing : y.kind = z.kind /\ y.chunk = z.chunk
  BY <1>1, <1>2, TakenFacts
<1>4. \/ UNCHANGED infoSending
      \/ infoSending' \in Seq(InfoEntries) /\ ComesFrom(infoSending', infoSending)
  <2>1. CASE UNCHANGED infoSending
    BY <2>1
  <2>2. ASSUME NEW k \in DOMAIN infoSending, infoSending' = Without(infoSending, k)
        PROVE  infoSending' \in Seq(InfoEntries) /\ ComesFrom(infoSending', infoSending)
    BY <1>2, <2>2, EntriesInTime, WithoutFacts
  <2>3. ASSUME NEW k \in DOMAIN infoSending,
               infoSending' = [infoSending EXCEPT ![k].time = 0]
        PROVE  infoSending' \in Seq(InfoEntries) /\ ComesFrom(infoSending', infoSending)
    BY <1>2, <2>3, EntriesInTime, AnewFacts
  <2> QED  BY <2>1, <2>2, <2>3 DEF SendDataInfo, EntryOf
<1>5. OneInfoPerPeer'
  <2>1. CASE UNCHANGED infoSending
    BY <1>1, <2>1 DEF OneInfoPerPeer
  <2>2. CASE infoSending' \in Seq(InfoEntries) /\ ComesFrom(infoSending', infoSending)
    <3>1. /\ \A n \in DOMAIN infoSending' :
                \E k \in DOMAIN infoSending : infoSending'[n].peer = infoSending[k].peer
          /\ PeersApart(infoSending) => PeersApart(infoSending')
      BY <1>2, <2>2, ComesFromFacts
    <3> QED  BY <1>1, <3>1 DEF OneInfoPerPeer, PeersApart
  <2> QED  BY <1>4, <2>1, <2>2
<1>6. TypeOK'
  BY <1>1, <1>3, <1>4 DEF TypeOK, InfoEntries, FTTransfers
<1>7. OnlyWhatIsThere'
  BY <1>1, <1>3 DEF OnlyWhatIsThere
<1> QED  BY <1>1, <1>5, <1>6, <1>7 DEF OnePlaceInQueue

LEMMA SendDataChunkInv ==
    ASSUME IInv, NEW x \in outgoing, SendDataChunk(x)
    PROVE  IInv'
<1> USE DEF IInv
<1>1. /\ outgoing' = Taken(x, ChunkSize(x.chunk))
      /\ UNCHANGED <<infoQueue, infoSending, chunkQueue, have, haveAll, exited, connected>>
  BY DEF SendDataChunk, queues
<1>2. chunkSending \in Seq(ChunkEntries) /\ outgoing \subseteq FTTransfers
  BY Typed
<1>3. /\ outgoing' \subseteq FTTransfers
      /\ \A y \in outgoing' : \E z \in outgoing : y.kind = z.kind /\ y.chunk = z.chunk
  BY <1>1, <1>2, TakenFacts
<1>4. \/ UNCHANGED chunkSending
      \/ chunkSending' \in Seq(ChunkEntries) /\ ComesFrom(chunkSending', chunkSending)
  <2>1. CASE UNCHANGED chunkSending
    BY <2>1
  <2>2. ASSUME NEW k \in DOMAIN chunkSending, chunkSending' = Without(chunkSending, k)
        PROVE  chunkSending' \in Seq(ChunkEntries) /\ ComesFrom(chunkSending', chunkSending)
    BY <1>2, <2>2, EntriesInTime, WithoutFacts
  <2>3. ASSUME NEW k \in DOMAIN chunkSending,
               chunkSending' = [chunkSending EXCEPT ![k].time = 0]
        PROVE  chunkSending' \in Seq(ChunkEntries) /\ ComesFrom(chunkSending', chunkSending)
    BY <1>2, <2>3, EntriesInTime, AnewFacts
  <2> QED  BY <2>1, <2>2, <2>3 DEF SendDataChunk, EntryOf
<1>5. \A n \in DOMAIN chunkSending' : chunkSending'[n].chunk \in have
  <2>1. CASE UNCHANGED chunkSending
    BY <2>1 DEF OnlyWhatIsThere
  <2>2. CASE ComesFrom(chunkSending', chunkSending)
    <3>1. \A n \in DOMAIN chunkSending' :
             \E k \in DOMAIN chunkSending : chunkSending'[n].chunk = chunkSending[k].chunk
      BY <1>2, <2>2, ComesFromFacts
    <3> QED  BY <3>1 DEF OnlyWhatIsThere
  <2> QED  BY <1>4, <2>1, <2>2
<1>6. TypeOK'
  BY <1>1, <1>3, <1>4 DEF TypeOK, ChunkEntries, FTTransfers
<1>7. OnlyWhatIsThere'
  BY <1>1, <1>3, <1>5 DEF OnlyWhatIsThere
<1> QED  BY <1>1, <1>6, <1>7 DEF OneInfoPerPeer, OnePlaceInQueue
-----------------------------------------------------------------------------
(* The surroundings.                                                       *)

LEMMA LoseTransferInv ==
    ASSUME IInv, NEW x \in outgoing, LoseTransfer(x)
    PROVE  IInv'
<1> USE DEF IInv
<1>1. /\ outgoing' \subseteq outgoing
      /\ UNCHANGED <<infoQueue, infoSending, chunkQueue, chunkSending, have, haveAll, exited,
                     connected>>
  BY DEF LoseTransfer, queues
<1>2. TypeOK'
  BY <1>1 DEF TypeOK
<1> QED  BY <1>1, <1>2 DEF OneInfoPerPeer, OnePlaceInQueue, OnlyWhatIsThere

LEMMA GainChunkInv ==
    ASSUME IInv, NEW i \in RealIndices, GainChunk(i)
    PROVE  IInv'
<1> USE DEF IInv
<1>1. /\ have' = have \cup {i} /\ haveAll' = (have' = Chunks)
      /\ UNCHANGED <<infoQueue, infoSending, chunkQueue, chunkSending, outgoing, exited,
                     connected>>
  BY DEF GainChunk, queues, transfers
<1>2. TypeOK'
  BY <1>1, IndexFacts DEF TypeOK
<1> QED  BY <1>1, <1>2 DEF OneInfoPerPeer, OnePlaceInQueue, OnlyWhatIsThere

LEMMA ChangeConnectionInv ==
    ASSUME IInv, NEW p \in Peers, ChangeConnection(p)
    PROVE  IInv'
<1> USE DEF IInv
<1>1. /\ connected' \subseteq connected \cup {p}
      /\ UNCHANGED <<infoQueue, infoSending, chunkQueue, chunkSending, outgoing, have, haveAll,
                     exited>>
  BY DEF ChangeConnection, queues, transfers
<1>2. TypeOK'
  BY <1>1 DEF TypeOK
<1> QED  BY <1>1, <1>2 DEF OneInfoPerPeer, OnePlaceInQueue, OnlyWhatIsThere

LEMMA RestartInv == ASSUME IInv, Restart PROVE IInv'
<1>1. /\ infoQueue' = <<>> /\ infoSending' = <<>>
      /\ chunkQueue' = <<>> /\ chunkSending' = <<>>
      /\ outgoing' = {} /\ have' \subseteq Chunks /\ haveAll' = (have' = Chunks)
      /\ exited' \in BOOLEAN /\ connected' \subseteq Peers
  BY DEF Restart, IInv, TypeOK
<1>2. /\ DOMAIN infoQueue' = {} /\ DOMAIN chunkQueue' = {}
      /\ DOMAIN infoSending' = {} /\ DOMAIN chunkSending' = {}
  BY <1>1
<1>3. TypeOK'
  BY <1>1 DEF TypeOK
<1>4. OneInfoPerPeer' /\ OnePlaceInQueue' /\ OnlyWhatIsThere'
  BY <1>1, <1>2 DEF OneInfoPerPeer, OnePlaceInQueue, OnlyWhatIsThere
<1> QED  BY <1>3, <1>4 DEF IInv
-----------------------------------------------------------------------------
(* An iteration.                                                           *)

\* The rest of a queue in which nothing is twice does not have what was in front.
LEMMA TailFacts ==
    ASSUME NEW S, NEW q \in Seq(S), q # <<>>
    PROVE  /\ Head(q) = q[1] /\ 1 \in DOMAIN q /\ Tail(q) \in Seq(S)
           /\ \A k \in DOMAIN Tail(q) : k + 1 \in DOMAIN q /\ Tail(q)[k] = q[k + 1]
<1>1. Len(q) \in Nat /\ Len(q) # 0 /\ DOMAIN q = 1 .. Len(q)
  OBVIOUS
<1>2. Head(q) = q[1] /\ 1 \in DOMAIN q /\ Tail(q) \in Seq(S)
  BY <1>1
<1>3. DOMAIN Tail(q) = 1 .. Len(q) - 1
  BY <1>1, <1>2
<1>4. \A k \in DOMAIN Tail(q) : k + 1 \in DOMAIN q /\ Tail(q)[k] = q[k + 1]
  BY <1>1, <1>3
<1> QED  BY <1>2, <1>4

LEMMA IterateInv ==
    ASSUME IInv, NEW delta \in Nat, NEW sendOk \in BOOLEAN, Iterate(delta, sendOk)
    PROVE  IInv'
<1> DEFINE info  == StillWaiting(infoSending, delta, TransferTimeout)
           chunk == StillWaiting(chunkSending, delta, TransferTimeout)
           queue == StillWaiting(chunkQueue, delta, QueueTimeout)
           ft    == StillSending(delta)
<1> USE DEF IInv
<1>1. /\ infoQueue \in Seq(Peers) /\ infoSending \in Seq(InfoEntries)
      /\ chunkQueue \in Seq(ChunkRequests) /\ chunkSending \in Seq(ChunkEntries)
      /\ have \subseteq Chunks /\ haveAll \in BOOLEAN /\ exited \in BOOLEAN
      /\ connected \subseteq Peers /\ outgoing \subseteq FTTransfers
  BY Typed
<1>2. info \in Seq(InfoEntries) /\ ComesFrom(info, infoSending)
  BY <1>1, EntriesInTime, StillWaitingFacts
<1>3. chunk \in Seq(ChunkEntries) /\ ComesFrom(chunk, chunkSending)
  BY <1>1, EntriesInTime, StillWaitingFacts
<1>4. queue \in Seq(ChunkRequests) /\ ComesFrom(queue, chunkQueue)
  BY <1>1, RequestsInTime, StillWaitingFacts
<1>5. ft \subseteq FTTransfers /\ \A x \in ft : \E y \in outgoing : x.kind = y.kind /\ x.chunk = y.chunk
  BY <1>1, StillSendingFacts
<1>6. UNCHANGED <<have, haveAll, connected>>
  BY DEF Iterate
<1> HIDE DEF info, chunk, queue, ft
<1>7. /\ \A n \in DOMAIN info : info[n].peer \notin Range(infoQueue)
      /\ PeersApart(info)
  <2>1. /\ \A n \in DOMAIN info : \E k \in DOMAIN infoSending : info[n].peer = infoSending[k].peer
        /\ PeersApart(infoSending) => PeersApart(info)
    BY <1>1, <1>2, ComesFromFacts
  <2> QED  BY <2>1 DEF OneInfoPerPeer, PeersApart
<1>8. /\ Apart(queue)
      /\ \A k \in DOMAIN queue : ChunkIndex(queue[k].hash) \subseteq have
  <2>1. /\ \A n \in DOMAIN queue : \E k \in DOMAIN chunkQueue : queue[n].hash = chunkQueue[k].hash
        /\ Apart(chunkQueue) => Apart(queue)
    BY <1>1, <1>4, ComesFromFacts
  <2> QED  BY <2>1 DEF OnePlaceInQueue, Apart, OnlyWhatIsThere
<1>9. /\ \A k \in DOMAIN chunk : chunk[k].chunk \in have
      /\ \A x \in ft : x.kind = "chunk" => x.chunk \in have
  <2>1. \A n \in DOMAIN chunk : \E k \in DOMAIN chunkSending : chunk[n].chunk = chunkSending[k].chunk
    BY <1>1, <1>3, ComesFromFacts
  <2> QED  BY <1>5, <2>1 DEF OnlyWhatIsThere
<1>10. ASSUME infoQueue' \in Seq(Peers), infoSending' \in Seq(InfoEntries),
              chunkQueue' \in Seq(ChunkRequests), chunkSending' \in Seq(ChunkEntries),
              exited' \in BOOLEAN, outgoing' \subseteq FTTransfers
       PROVE  TypeOK'
  BY <1>1, <1>6, <1>10 DEF TypeOK, ChunkRequests, InfoEntries, ChunkEntries, FTTransfers
<1>11. CASE /\ infoQueue # <<>>
            /\ StartInfo(info, ft, sendOk)
            /\ chunkQueue' = queue /\ chunkSending' = chunk
            /\ UNCHANGED exited
  <2>1. /\ Head(infoQueue) = infoQueue[1] /\ 1 \in DOMAIN infoQueue
        /\ Tail(infoQueue) \in Seq(Peers)
        /\ \A k \in DOMAIN Tail(infoQueue) :
              k + 1 \in DOMAIN infoQueue /\ Tail(infoQueue)[k] = infoQueue[k + 1]
    BY <1>1, <1>11, TailFacts
  <2> DEFINE p == infoQueue[1]
  <2>2. p \in Peers
    BY <1>1, <2>1
  <2> HIDE DEF p
  <2>3. CASE infoSending' = info /\ outgoing' = ft /\ UNCHANGED infoQueue
    <3>1. TypeOK'
      BY <1>1, <1>2, <1>3, <1>4, <1>5, <1>10, <1>11, <2>3
    <3>2. OneInfoPerPeer'
      BY <1>7, <2>3 DEF OneInfoPerPeer, PeersApart
    <3> QED  BY <1>6, <1>8, <1>9, <1>11, <2>3, <3>1, <3>2
             DEF Apart, OnePlaceInQueue, OnlyWhatIsThere
  <2>4. ASSUME NEW t \in FreeIds(p, ft),
               infoQueue' = Tail(infoQueue), infoSending' = Append(info, Entry(p, t)),
               outgoing' = ft \cup {[peer |-> p, id |-> t, kind |-> "info", chunk |-> 0,
                                     next |-> 0, idle |-> 0]}
        PROVE  IInv'
    <3> DEFINE e == Entry(p, t)
               x == [peer |-> p, id |-> t, kind |-> "info", chunk |-> 0, next |-> 0, idle |-> 0]
    <3>1. e \in InfoEntries /\ e.peer = p
      BY <2>2, UploadAssumption DEF FreeIds, Entry, InfoEntries
    <3>2. x \in FTTransfers /\ x.kind = "info"
      BY <2>2, UploadAssumption DEF FreeIds, FTTransfers
    <3>3. infoSending' = Append(info, e) /\ outgoing' = ft \cup {x}
      BY <2>4
    <3> HIDE DEF e, x
    <3>4. /\ infoSending' \in Seq(InfoEntries)
          /\ DOMAIN infoSending' = DOMAIN info \cup {Len(info) + 1}
          /\ \A k \in DOMAIN info : infoSending'[k] = info[k]
          /\ infoSending'[Len(info) + 1] = e
      BY <1>2, <3>1, <3>3
    <3>5. TypeOK'
      BY <1>1, <1>3, <1>4, <1>5, <1>10, <1>11, <2>1, <2>4, <3>2, <3>3, <3>4
    <3>6. OneInfoPerPeer'
      <4>1. \A j \in DOMAIN Tail(infoQueue) : Tail(infoQueue)[j] # p
        BY <1>1, <2>1 DEF OneInfoPerPeer, p
      <4>2. ASSUME NEW j \in DOMAIN infoQueue', NEW k \in DOMAIN infoQueue',
                   infoQueue'[j] = infoQueue'[k]
            PROVE  j = k
        <5>1. j + 1 = k + 1
          BY <2>1, <2>4, <4>2 DEF OneInfoPerPeer
        <5>2. j \in Int /\ k \in Int
          BY <2>1, <2>4
        <5> QED  BY <5>1, <5>2
      <4>3. p \in Range(infoQueue) /\ \A j \in DOMAIN infoQueue' : infoQueue'[j] \in Range(infoQueue)
        BY <2>1, <2>4 DEF Range, p
      <4>4. \A k \in DOMAIN info : info[k].peer # p
        BY <1>7, <4>3
      <4>5. ASSUME NEW k \in DOMAIN infoSending' PROVE infoSending'[k].peer \notin Range(infoQueue')
        BY <1>7, <2>4, <3>1, <3>4, <4>1, <4>3 DEF Range
      <4>6. ASSUME NEW j \in DOMAIN infoSending', NEW k \in DOMAIN infoSending',
                   infoSending'[j].peer = infoSending'[k].peer
            PROVE  j = k
        BY <1>7, <3>1, <3>4, <4>4, <4>6 DEF PeersApart
      <4> QED  BY <4>2, <4>5, <4>6 DEF OneInfoPerPeer
    <3>7. OnlyWhatIsThere'
      BY <1>6, <1>8, <1>9, <1>11, <3>2, <3>3 DEF OnlyWhatIsThere
    <3> QED  BY <1>8, <1>11, <3>5, <3>6, <3>7 DEF Apart, OnePlaceInQueue
  <2> QED  BY <1>11, <2>1, <2>3, <2>4 DEF StartInfo, p
<1>12. CASE /\ queue # <<>>
            /\ StartChunk(queue, chunk, ft, sendOk)
            /\ infoSending' = info
            /\ UNCHANGED infoQueue
  <2>1. /\ Head(queue) = queue[1] /\ 1 \in DOMAIN queue /\ Tail(queue) \in Seq(ChunkRequests)
        /\ \A k \in DOMAIN Tail(queue) : k + 1 \in DOMAIN queue /\ Tail(queue)[k] = queue[k + 1]
    BY <1>4, <1>12, TailFacts
  <2> DEFINE p     == queue[1].peer
             index == ChunkIndex(queue[1].hash)
  <2>2. p \in Peers /\ index \subseteq RealIndices /\ index \subseteq have
    <3>1. queue[1] \in ChunkRequests
      BY <1>4, <2>1
    <3>2. p \in Peers
      BY <3>1 DEF ChunkRequests
    <3>3. index \subseteq RealIndices
      BY IndexFacts
    <3> QED  BY <1>8, <2>1, <3>2, <3>3
  <2> HIDE DEF p, index
  <2>3. exited' \in BOOLEAN
    BY <1>12 DEF StartChunk
  <2>4. OneInfoPerPeer'
    BY <1>7, <1>12 DEF OneInfoPerPeer, PeersApart
  <2>5. CASE chunkQueue' = queue /\ chunkSending' = chunk /\ outgoing' = ft
    <3>1. TypeOK'
      BY <1>1, <1>2, <1>3, <1>4, <1>5, <1>10, <1>12, <2>3, <2>5
    <3> QED  BY <1>6, <1>8, <1>9, <2>4, <2>5, <3>1 DEF Apart, OnePlaceInQueue, OnlyWhatIsThere
  <2>6. ASSUME NEW i \in index, NEW t \in FreeIds(p, ft),
               chunkQueue' = Tail(queue),
               chunkSending' = Append(chunk, [peer |-> p, id |-> t, time |-> 0, chunk |-> i]),
               outgoing' = ft \cup {[peer |-> p, id |-> t, kind |-> "chunk", chunk |-> i,
                                     next |-> 0, idle |-> 0]}
        PROVE  IInv'
    <3> DEFINE e == [peer |-> p, id |-> t, time |-> 0, chunk |-> i]
               x == [peer |-> p, id |-> t, kind |-> "chunk", chunk |-> i, next |-> 0, idle |-> 0]
    <3>1. e \in ChunkEntries /\ e.chunk = i
      BY <2>2, UploadAssumption DEF FreeIds, ChunkEntries
    <3>2. x \in FTTransfers /\ x.chunk = i
      BY <2>2, UploadAssumption DEF FreeIds, FTTransfers
    <3>3. chunkSending' = Append(chunk, e) /\ outgoing' = ft \cup {x} /\ i \in have
      BY <2>2, <2>6
    <3> HIDE DEF e, x
    <3>4. /\ chunkSending' \in Seq(ChunkEntries)
          /\ DOMAIN chunkSending' = DOMAIN chunk \cup {Len(chunk) + 1}
          /\ \A k \in DOMAIN chunk : chunkSending'[k] = chunk[k]
          /\ chunkSending'[Len(chunk) + 1] = e
      BY <1>3, <3>1, <3>3
    <3>5. TypeOK'
      BY <1>1, <1>2, <1>5, <1>10, <1>12, <2>1, <2>3, <2>6, <3>2, <3>3, <3>4
    <3>6. OnePlaceInQueue'
      <4> SUFFICES ASSUME NEW j \in DOMAIN chunkQueue', NEW k \in DOMAIN chunkQueue',
                          chunkQueue'[j].peer = chunkQueue'[k].peer,
                          chunkQueue'[j].hash = chunkQueue'[k].hash
                   PROVE  j = k
        BY DEF OnePlaceInQueue
      <4>1. j + 1 = k + 1
        BY <1>8, <2>1, <2>6 DEF Apart
      <4>2. j \in Int /\ k \in Int
        BY <2>1, <2>6
      <4> QED  BY <4>1, <4>2
    <3>7. OnlyWhatIsThere'
      <4>1. \A k \in DOMAIN chunkQueue' : ChunkIndex(chunkQueue'[k].hash) \subseteq have
        BY <1>8, <2>1, <2>6
      <4>2. \A k \in DOMAIN chunkSending' : chunkSending'[k].chunk \in have
        BY <1>9, <3>1, <3>3, <3>4
      <4>3. \A y \in outgoing' : y.kind = "chunk" => y.chunk \in have
        BY <1>9, <3>2, <3>3
      <4> QED  BY <1>6, <4>1, <4>2, <4>3 DEF OnlyWhatIsThere
    <3> QED  BY <2>4, <3>5, <3>6, <3>7
  <2> QED  BY <1>12, <2>1, <2>5, <2>6 DEF StartChunk, p, index
<1>13. CASE /\ infoSending' = info /\ chunkSending' = chunk
            /\ chunkQueue' = queue /\ outgoing' = ft
            /\ UNCHANGED <<infoQueue, exited>>
  <2>1. TypeOK'
    BY <1>1, <1>2, <1>3, <1>4, <1>5, <1>10, <1>13
  <2>2. OneInfoPerPeer'
    BY <1>7, <1>13 DEF OneInfoPerPeer, PeersApart
  <2> QED  BY <1>6, <1>8, <1>9, <1>13, <2>1, <2>2
           DEF Apart, OnePlaceInQueue, OnlyWhatIsThere
<1> QED  BY <1>11, <1>12, <1>13 DEF Iterate, info, chunk, queue, ft
-----------------------------------------------------------------------------
(* The theorems.                                                           *)

LEMMA NextInv == ASSUME IInv, Next PROVE IInv'
<1>1. ASSUME NEW p \in Peers, ReceiveRequestInfo(p) PROVE IInv'
  BY <1>1, ReceiveRequestInfoInv
<1>2. ASSUME NEW p \in Peers, NEW h \in Hashes, ReceiveRequestChunk(p, h) PROVE IInv'
  BY <1>2, ReceiveRequestChunkInv
<1>3. ASSUME NEW x \in outgoing, SendDataInfo(x) PROVE IInv'
  BY <1>3, SendDataInfoInv
<1>4. ASSUME NEW x \in outgoing, SendDataChunk(x) PROVE IInv'
  BY <1>4, SendDataChunkInv
<1>5. ASSUME NEW delta \in Deltas, NEW sendOk \in BOOLEAN, Iterate(delta, sendOk) PROVE IInv'
  <2>1. delta \in Nat
    BY UploadAssumption
  <2> QED  BY <1>5, <2>1, IterateInv
<1>6. ASSUME NEW i \in RealIndices, GainChunk(i) PROVE IInv'
  BY <1>6, GainChunkInv
<1>7. ASSUME NEW x \in outgoing, LoseTransfer(x) PROVE IInv'
  BY <1>7, LoseTransferInv
<1>8. ASSUME NEW p \in Peers, ChangeConnection(p) PROVE IInv'
  BY <1>8, ChangeConnectionInv
<1>9. ASSUME Restart PROVE IInv'
  BY <1>9, RestartInv
<1> QED  BY <1>1, <1>2, <1>3, <1>4, <1>5, <1>6, <1>7, <1>8, <1>9 DEF Next

LEMMA StutterInv == ASSUME IInv, UNCHANGED vars PROVE IInv'
BY DEF IInv, vars, queues, transfers, TypeOK, OneInfoPerPeer, OnePlaceInQueue,
       OnlyWhatIsThere

\* The inductive invariant holds in every reachable state: queues and transfers stay
\* in order through requests, data, timers, lost transfers and ids used again
\* (sha1.cpp 71-207, 495-557).
THEOREM Invariance == Spec => []IInv
<1>1. IInv /\ [Next]_vars => IInv'
  BY NextInv, StutterInv
<1> QED  BY <1>1, InitInv, PTL DEF Spec

\* No entry, request or transfer is ever kept beyond its time, and every chunk that
\* is sent is one of the lookup table (sha1.cpp 71-135, 168-207).
THEOREM TypeCorrect == Spec => []TypeOK
<1>1. IInv => TypeOK
  BY DEF IInv
<1> QED  BY <1>1, Invariance, PTL

\* A peer has one place for the info, in the queue or among the transfers
\* (sha1.cpp 143-166, 523-541).
THEOREM OnePlaceForInfo == Spec => []OneInfoPerPeer
<1>1. IInv => OneInfoPerPeer
  BY DEF IInv
<1> QED  BY <1>1, Invariance, PTL

\* A chunk request that is repeated while it is queued is not queued twice, although
\* timers take requests out of the middle (sha1.cpp 99-112, 543-557).
THEOREM RequestsOnce == Spec => []OnePlaceInQueue
<1>1. IInv => OnePlaceInQueue
  BY DEF IInv
<1> QED  BY <1>1, Invariance, PTL

\* Only chunks that are there are sent, also by an entry that is left over: those
\* requested were there when they were queued, and none goes away (sha1.cpp 385-398,
\* 168-207, 509-512).
THEOREM SendsWhatIsThere == Spec => []OnlyWhatIsThere
<1>1. IInv => OnlyWhatIsThere
  BY DEF IInv
<1> QED  BY <1>1, Invariance, PTL
=============================================================================
