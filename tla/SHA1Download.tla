---------------------------- MODULE SHA1Download ----------------------------
(***************************************************************************)
(* The downloading half of States::SHA1 (src/src/states/sha1.cpp): the     *)
(* want queue, the chunks requested from peers, the chunk transfers being  *)
(* received, and the file they are written to.                             *)
(*                                                                         *)
(* A missing chunk travels  want -> requested -> receiving -> have  and    *)
(* falls back into want when a timer runs out or the received bytes do not *)
(* have the chunk's hash.  A peer may answer a request by an offer (init)  *)
(* of the chunk at any later time or never: a request that was given up    *)
(* and repeated, to the same peer or another, may still be answered.       *)
(*                                                                         *)
(* Time advances in Iterate, in units of five seconds.                     *)
(***************************************************************************)
EXTENDS ChunkTable, Sequences, Functions

CONSTANTS
    Peers,            \* (group_number, peer_number) of the other peers
    TransferIds,      \* FT1 transfer ids
    MaxIn,            \* _max_concurrent_in, option -I
    Deltas,           \* time units that may pass between two iterations
    TransferTimeout,  \* 10 seconds: an idle transfer is given up
    RequestTimeout,   \* 15 seconds: an unanswered request is given up
    TokenBound,       \* bound of the model: see Tokens
    AskBound          \* bound of the model: unanswered requests for a chunk

ASSUME DownloadAssumption ==
    /\ IsFiniteSet(Peers) /\ IsFiniteSet(TransferIds)
    /\ MaxIn \in Nat
    /\ Deltas \subseteq Nat
    /\ TransferTimeout \in Nat \ {0}
    /\ RequestTimeout \in Nat \ {0}
    /\ TokenBound \in Nat
    /\ AskBound \in Nat \ {0}

VARIABLES
    want,       \* _chunk_want_queue
    requested,  \* _chunks_requested: chunk index -> time since the request
    receiving,  \* _transfers_receiving_chunk, as a set of entries
    have,       \* _have_chunk: the indices whose flag is set
    haveAll,    \* _have_all
    haveCount,  \* _have_count
    file,       \* _file_map: the blocks of each chunk that hold the right bytes
    running,    \* FALSE once an assertion of the constructor has failed
    incoming,   \* the transfers FT1 receives for this program, and their progress
    asked       \* the number of requests for each chunk that peers may still answer

vars == <<want, requested, receiving, have, haveAll, haveCount, file, running,
          incoming, asked>>
-----------------------------------------------------------------------------
(* Queues.                                                                 *)

\* The sequences that hold each element of the finite set S exactly once.
Arrangements(S) == {s \in [1 .. Cardinality(S) -> S] : Range(s) = S}

Ascending(S) ==
    {s \in Arrangements(S) : \A i, j \in DOMAIN s : i < j => s[i] < s[j]}

\* Faulty: what has timed out is erased and not put back.
NotPutBack(S) == {<<>>}

\* std::map iterates in ascending order, and every push_front goes before the
\* ones already pushed.
PushedInTurn(S) ==
    {s \in Arrangements(S) : \A i, j \in DOMAIN s : i < j => s[i] > s[j]}

\* Faulty: the last chunk is taken off the back and not put at the front.
LastDropped(s) == SubSeq(s, 1, Len(s) - 1)

\* "load last chunk first :)"
LastFirst(s) == <<s[Len(s)]>> \o SubSeq(s, 1, Len(s) - 1)
-----------------------------------------------------------------------------
(* The constructor.                                                        *)

\* What the constructor puts into the want queue when the chunks in h are there.
Missing(h) == RealIndices \ h

WantQueues(h) ==
    IF Missing(h) = {} THEN {<<>>} ELSE {LastFirst(s) : s \in Ascending(Missing(h))}

\* assert(_chunk_want_queue.size() > 0), when not everything is there
ConstructorAsserts(h) == h # Chunks => Missing(h) # {}
-----------------------------------------------------------------------------
\* The file may be new, or be left over with some chunks right (every chunk,
\* when this program is the one that offers the file).
Init ==
    /\ \E present \in SUBSET Chunks :
          /\ file = [i \in Chunks |-> IF i \in present THEN Blocks(i) ELSE {}]
          /\ have = present
          /\ haveAll = (present = Chunks)
          /\ haveCount = Cardinality(present)
          /\ running = ConstructorAsserts(present)
          /\ want \in WantQueues(present)
    /\ requested = <<>>
    /\ receiving = {}
    /\ incoming = {}
    /\ asked = [i \in RealIndices |-> 0]

\* Faulty: only asks whether everything is there.
HaveEverything(h) == haveAll

\* haveChunk(hash)
HaveChunk(h) == haveAll \/ ChunkIndex(h) \cap have # {}

\* Faulty: does not look for a transfer of the same chunk.
AcceptsTwice(h) ==
    /\ Cardinality(receiving) < MaxIn
    /\ ~HaveChunk(h)
    /\ ChunkIndex(h) # {}

\* The checks of onFT1ReceiveInitSHA1Chunk, in its order.
Accepts(h) ==
    /\ Cardinality(receiving) < MaxIn
    /\ ~HaveChunk(h)
    /\ \E i \in ChunkIndex(h) : \A r \in receiving : r.chunk # i

\* A chunk is in the want queue once, unless its transfer was offered while it
\* was queued; each such offer leaves one entry more.  TokenBound caps them.
Tokens == Len(want) + Cardinality(DOMAIN requested) + Cardinality(receiving)

\* Accepted: the transfer takes the place of the request.  FT1 tells its own transfers
\* apart, but not the entries of the program: the id of a transfer FT1 is done with
\* may still be in an entry that has not run out of time.
Accept(p, t, h) ==
    /\ Accepts(h)
    /\ Tokens < TokenBound \/ ChunkIndex(h) \subseteq DOMAIN requested
    /\ \A x \in incoming : <<x.peer, x.id>> # <<p, t>>
    /\ \E i \in ChunkIndex(h) :
          /\ receiving' = receiving \cup {[peer |-> p, id |-> t, time |-> 0, chunk |-> i]}
          /\ requested' = [c \in DOMAIN requested \ {i} |-> requested[c]]
          /\ incoming' = incoming \cup {[peer |-> p, id |-> t, chunk |-> i, next |-> 0]}

\* onFT1ReceiveInitSHA1Chunk: peer p answers a request by offering the chunk with
\* hash h as transfer t.  (An offer of a chunk of another file is rejected and
\* changes nothing.)  The program does not look at the size of the offer: it is the
\* chunk's when the peer has a chunk of that hash.  A shorter transfer is, for the
\* program, one that is lost (LoseTransfer); a longer one is left out.
ReceiveInit(p, t, h) ==
    /\ running
    /\ \E i \in ChunkIndex(h) :
          /\ asked[i] > 0
          /\ asked' = [asked EXCEPT ![i] = @ - 1]
    /\ \/ Accept(p, t, h)
       \/ /\ ~Accepts(h)
          /\ UNCHANGED <<receiving, requested, incoming>>
    /\ UNCHANGED <<want, have, haveAll, haveCount, file, running>>

\* FT1 hands over the next block of the transfer x, and forgets the transfer
\* after its last block.
Delivered(x) ==
    (incoming \ {x}) \cup
        (IF x.next + 1 = ChunkSize(x.chunk) THEN {} ELSE {[x EXCEPT !.next = @ + 1]})

\* Faulty: the offset in the file is one chunk too high.
WrittenTooFar(i, b, right) ==
    [j \in Chunks |-> IF j = i + 1 THEN file[j] \ {b} ELSE file[j]]

\* The file once the block b of chunk i is written, with the bytes that belong there
\* or not.  The short last chunk has no block b when the data is another chunk's: it
\* goes past the end of the file.
Written(i, b, right) ==
    IF b \notin Blocks(i)
    THEN file
    ELSE [file EXCEPT ![i] = IF right THEN @ \cup {b} ELSE @ \ {b}]

\* The end of the chunk is reached: it counts as there, or has to be got again.
FinishChunk(i) ==
    \/ /\ i \in Verified(file')
       /\ have' = have \cup {i}
       /\ haveCount' = haveCount + 1
       /\ haveAll' = (haveCount' = NumChunks)
       /\ UNCHANGED want
    \/ /\ i \notin Verified(file')
       /\ want' = <<i>> \o want
       /\ UNCHANGED <<have, haveAll, haveCount>>

\* onFT1ReceiveDataSHA1Chunk for a transfer x whose peer and id are those of the
\* entry r.  The data is written into the chunk of the entry.  That is another chunk
\* than x was offered for when r is left over from an earlier transfer with the same
\* id; then no packet of x need end where the entry's chunk does.
ReceiveBlock(x, r, right) ==
    /\ file' = Written(r.chunk, x.next, right)
    /\ \/ /\ x.next + 1 # ChunkSize(r.chunk) \/ x.chunk # r.chunk
          /\ receiving' = (receiving \ {r}) \cup {[r EXCEPT !.time = 0]}
          /\ UNCHANGED <<want, have, haveAll, haveCount>>
       \/ /\ x.next + 1 = ChunkSize(r.chunk)
          /\ receiving' = receiving \ {r}
          /\ FinishChunk(r.chunk)

\* The entries with the peer and the id of the transfer x.  When there are several,
\* any may be the first of the list, the one the data is taken for.
Entry(x) == {r \in receiving : r.peer = x.peer /\ r.id = x.id}

\* onFT1ReceiveDataSHA1Chunk: data of a transfer without an entry is ignored.
ReceiveData(x, right) ==
    /\ running
    /\ incoming' = Delivered(x)
    /\ \/ \E r \in Entry(x) : ReceiveBlock(x, r, right)
       \/ /\ Entry(x) = {}
          /\ UNCHANGED <<want, receiving, have, haveAll, haveCount, file>>
    /\ UNCHANGED <<requested, running, asked>>

\* FT1 gives a transfer up; it has no callback for that.
LoseTransfer(x) ==
    /\ incoming' = incoming \ {x}
    /\ UNCHANGED <<want, requested, receiving, have, haveAll, haveCount, file, running,
                   asked>>

\* Faulty: times out one step of time late.
ExpiredLate(time, limit) == time > limit

\* Nothing was heard for too long.
Expired(time, limit) == time >= limit

\* One more request for chunk c is on its way, unless it is lost.
Sent(c) == [asked EXCEPT ![c] = IF @ = AskBound THEN @ ELSE @ + 1]

\* The condition of "send out request, no burst tho".
MayRequest(queue, timers, alive, haveTargets) ==
    /\ ~haveAll /\ haveTargets /\ queue # <<>>
    /\ Cardinality(DOMAIN timers) + Cardinality(alive) < MaxIn

\* The chunk at the front of the queue is requested.
Request(queue, timers) ==
    /\ requested' = [c \in DOMAIN timers \cup {Head(queue)} |->
                        IF c = Head(queue) THEN 0 ELSE timers[c]]
    /\ want' = Tail(queue)
    /\ asked' = Sent(Head(queue))

\* iterate(delta), its part for the download: the timers, then one request if
\* there is a peer to send it to.  Expired entries go to the front of the queue,
\* transfers first, so that expired requests end up before them.
Iterate(delta, haveTargets) ==
    /\ running
    /\ LET idle    == {r \in receiving : Expired(r.time + delta, TransferTimeout)}
           overdue == {c \in DOMAIN requested : Expired(requested[c] + delta, RequestTimeout)}
           timers  == [c \in DOMAIN requested \ overdue |-> requested[c] + delta]
           alive   == {[r EXCEPT !.time = @ + delta] : r \in receiving \ idle}
       IN  \E fromTransfers \in Arrangements({r.chunk : r \in idle}),
              fromRequests \in PushedInTurn(overdue) :
             LET queue == fromRequests \o fromTransfers \o want
             IN  /\ receiving' = alive
                 /\ \/ /\ MayRequest(queue, timers, alive, haveTargets)
                       /\ Request(queue, timers)
                    \/ /\ ~MayRequest(queue, timers, alive, haveTargets)
                       /\ requested' = timers
                       /\ want' = queue
                       /\ UNCHANGED asked
    /\ UNCHANGED <<have, haveAll, haveCount, file, running, incoming>>

\* The program is killed and started again.  The bytes written to the mapped
\* file survive it; ReceiveStartSHA1::nextState hashes every chunk of the file
\* and constructs the new state from the result.  The program comes back as a
\* new peer of the group, which nobody has an old request of.
Restart ==
    /\ have' = Verified(file)
    /\ haveAll' = (have' = Chunks)
    /\ haveCount' = Cardinality(have')
    /\ running' = ConstructorAsserts(have')
    /\ want' \in WantQueues(have')
    /\ requested' = <<>>
    /\ receiving' = {}
    /\ incoming' = {}
    /\ asked' = [i \in RealIndices |-> 0]
    /\ UNCHANGED file

Next ==
    \/ \E p \in Peers, t \in TransferIds, h \in Hashes : ReceiveInit(p, t, h)
    \/ \E x \in incoming, right \in BOOLEAN : ReceiveData(x, right)
    \/ \E x \in incoming : LoseTransfer(x)
    \/ \E delta \in Deltas, haveTargets \in BOOLEAN : Iterate(delta, haveTargets)
    \/ Restart

Spec == Init /\ [][Next]_vars
-----------------------------------------------------------------------------
(* Type invariant.                                                         *)

\* The entries of _transfers_receiving_chunk.
Entries == [peer : Peers, id : TransferIds, time : Nat, chunk : RealIndices]

\* Every queue, map and list names indices the lookup table can return; timers
\* that have run out do not stay; a block being written is inside its chunk.
TypeOK ==
    /\ want \in Seq(RealIndices)
    /\ DOMAIN requested \subseteq RealIndices
    /\ \A c \in DOMAIN requested : requested[c] \in 0 .. RequestTimeout - 1
    /\ receiving \subseteq Entries
    /\ \A r \in receiving : r.time < TransferTimeout
    /\ have \subseteq Chunks
    /\ haveAll \in BOOLEAN
    /\ haveCount \in Nat
    /\ file \in [Chunks -> SUBSET (0 .. BlocksPerChunk - 1)]
    /\ running \in BOOLEAN
    /\ incoming \subseteq [peer : Peers, id : TransferIds, chunk : RealIndices, next : Nat]
    /\ \A x \in incoming : x.next \in Blocks(x.chunk)
    /\ asked \in [RealIndices -> 0 .. AskBound]
-----------------------------------------------------------------------------
(* Safety.                                                                 *)

InTransfer == {r.chunk : r \in receiving}

\* The chunks the download still knows it has to get.
Tracked == Range(want) \cup DOMAIN requested \cup InTransfer

\* A missing chunk is never forgotten: whatever timers, late offers, lost and
\* wrong transfers do to it, it is queued, requested or being received
\* (the moves between the three containers in sha1.cpp 100-124, 272-274,
\* 435-445 and 475-480).
NoChunkLost == Missing(have) \subseteq Tracked

\* _have_chunk never claims a chunk whose bytes in the file are wrong, even
\* though a transfer writes its blocks before they are verified, an earlier
\* transfer of the same chunk may still be going on, and an entry may be served
\* the data of another chunk whose transfer has its id (sha1.cpp 452-483).
HaveIsOnDisk == have \subseteq Verified(file)

\* No two transfers write to the same chunk, and none to a chunk that is already
\* there, which has it in its hands to upload it (sha1.cpp 413-433).
OneWriterPerChunk ==
    /\ \A r1, r2 \in receiving : r1.chunk = r2.chunk => r1 = r2
    /\ InTransfer \cap have = {}

\* _have_count and _have_all agree with _have_chunk: _have_count is incremented
\* on its own (sha1.cpp 483-485), and _have_all stops all downloading.
CountersAgree ==
    /\ haveCount = Cardinality(have)
    /\ haveAll <=> have = Chunks

\* As long as something is missing there is something to do.  It holds when no
\* two chunks have the same hash (sha1.cpp 51-54, 263).
NeverStalls ==
    running /\ ~haveAll => want # <<>> \/ DOMAIN requested # {} \/ receiving # {}

\* assert(_chunk_want_queue.size() > 0) of the constructor holds (sha1.cpp 58-59).
StartsUp == running

\* What has been verified stays there, across wrong data, timeouts and restarts
\* (sha1.cpp 465-485, receive_start_sha1.cpp 95-115).
VerifiedNeverLost == [][have \subseteq have']_vars
-----------------------------------------------------------------------------
(* Refinement.                                                             *)

Store == INSTANCE VerifiedStore

\* Seen from outside, the download is a file of verified chunks: a chunk is only
\* marked as there when its bytes are right, a chunk that is there is not written
\* to again by any transfer, late or of another peer, a block is written to one
\* chunk at a time, and a restart finds what is right in the file, no less
\* (sha1.cpp 413-447, 452-491, receive_start_sha1.cpp 95-115).
StoreSpec == Store!Spec
=============================================================================
