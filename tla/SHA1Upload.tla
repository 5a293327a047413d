----------------------------- MODULE SHA1Upload -----------------------------
(***************************************************************************)
(* The uploading half of States::SHA1 (src/src/states/sha1.cpp): requests  *)
(* for the info and for chunks are queued, turned into FT1 transfers while *)
(* there are slots, and the data of the transfers is handed out.           *)
(*                                                                         *)
(* FT1 keeps its own transfers (outgoing).  The program only learns of     *)
(* them when FT1 asks for data, so it gives its entry of a transfer up     *)
(* after ten seconds without that, and FT1 gives the transfer up after     *)
(* its own option --ft_sending_give_up_after, without telling.  By default *)
(* FT1 is the more patient of the two, and the id of a transfer FT1 has    *)
(* lost may be used again while the program still has its entry.           *)
(*                                                                         *)
(* What is there to upload grows while the program downloads.  Time        *)
(* advances in Iterate, in units of five seconds.                          *)
(***************************************************************************)
EXTENDS ChunkTable, Sequences, Functions

CONSTANTS
    Peers,            \* (group_number, peer_number) of the other peers
    TransferIds,      \* FT1 transfer ids
    MaxOut,           \* _max_concurrent_out, option -O
    Deltas,           \* time units that may pass between two iterations
    TransferTimeout,  \* 10 seconds: an idle transfer is given up
    QueueTimeout,     \* 10 seconds: a queued chunk request is dropped
    GiveUp,           \* option --ft_sending_give_up_after of FT1
    InfoBlocks        \* data blocks of the info

ASSUME UploadAssumption ==
    /\ MaxOut \in Nat
    /\ Deltas \subseteq Nat
    /\ TransferTimeout \in Nat \ {0}
    /\ QueueTimeout \in Nat \ {0}
    /\ GiveUp \in Nat \ {0}
    /\ InfoBlocks \in Nat \ {0}

VARIABLES
    infoQueue,     \* _queue_requested_info
    infoSending,   \* _transfers_requested_info
    chunkQueue,    \* _queue_requested_chunk
    chunkSending,  \* _transfers_sending_chunk
    have,          \* _have_chunk: the indices whose flag is set
    haveAll,       \* _have_all
    exited,        \* exit(1) was called
    connected,     \* the peers getGroupPeerConnectionStatus reports as connected
    outgoing       \* the transfers FT1 sends for this program, and their progress

queues    == <<infoQueue, chunkQueue>>
transfers == <<infoSending, chunkSending, outgoing>>
vars      == <<queues, transfers, have, haveAll, exited, connected>>

Init ==
    /\ infoQueue = <<>>
    /\ infoSending = <<>>
    /\ chunkQueue = <<>>
    /\ chunkSending = <<>>
    /\ have \in SUBSET Chunks
    /\ haveAll = (have = Chunks)
    /\ exited = FALSE
    /\ connected = Peers
    /\ outgoing = {}
-----------------------------------------------------------------------------
(* Requests.                                                               *)

\* haveChunk(hash)
HaveChunk(h) == haveAll \/ ChunkIndex(h) \cap have # {}

\* Faulty: does not look at the transfers.
ReceiveRequestInfoAgain(p) ==
    /\ ~exited /\ p \in connected
    /\ p \notin Range(infoQueue)
    /\ infoQueue' = Append(infoQueue, p)
    /\ UNCHANGED <<chunkQueue, transfers, have, haveAll, exited, connected>>

\* onFT1ReceiveRequestSHA1Info for the hash of this info, and queueUpRequestInfo:
\* a peer is neither queued twice nor queued while it is being sent the info.
ReceiveRequestInfo(p) ==
    /\ ~exited /\ p \in connected
    /\ p \notin Range(infoQueue)
    /\ \A k \in DOMAIN infoSending : infoSending[k].peer # p
    /\ infoQueue' = Append(infoQueue, p)
    /\ UNCHANGED <<chunkQueue, transfers, have, haveAll, exited, connected>>

\* Faulty: only looks at the end of the queue.
QueuedLast(p, h) ==
    {k \in DOMAIN chunkQueue : /\ k = Len(chunkQueue)
                               /\ chunkQueue[k].peer = p /\ chunkQueue[k].hash = h}

\* The place of the request of p for h in the queue.
Queued(p, h) == {k \in DOMAIN chunkQueue : chunkQueue[k].peer = p /\ chunkQueue[k].hash = h}

\* onFT1ReceiveRequestSHA1Chunk, and queueUpRequestChunk: a request for a chunk
\* that is not there is ignored, one that is repeated starts its time anew.
ReceiveRequestChunk(p, h) ==
    /\ ~exited /\ p \in connected
    /\ HaveChunk(h)
    /\ \/ /\ Queued(p, h) = {}
          /\ chunkQueue' = Append(chunkQueue, [peer |-> p, hash |-> h, time |-> 0])
       \/ \E k \in Queued(p, h) : chunkQueue' = [chunkQueue EXCEPT ![k].time = 0]
    /\ UNCHANGED <<infoQueue, transfers, have, haveAll, exited, connected>>
-----------------------------------------------------------------------------
(* Data.                                                                   *)

SameTransfer(s, x) == s.peer = x.peer /\ s.id = x.id

\* FT1 has taken a block of the transfer x; after the last one there is nothing
\* more to ask the program for.
Taken(x, blocks) ==
    (outgoing \ {x}) \cup
        (IF x.next + 1 = blocks THEN {} ELSE {[x EXCEPT !.next = @ + 1, !.idle = 0]})

\* The first entry of the transfer x in a list, if there is one.
EntryOf(x, list) ==
    {k \in DOMAIN list : /\ SameTransfer(list[k], x)
                         /\ \A j \in DOMAIN list : SameTransfer(list[j], x) => k <= j}

\* it = list.erase(it)
Without(list, k) == SubSeq(list, 1, k - 1) \o SubSeq(list, k + 1, Len(list))

\* onFT1SendDataSHA1Info: the entry of x starts its time anew, or is removed with the
\* last block.
SendDataInfo(x) ==
    /\ ~exited /\ x.kind = "info"
    /\ outgoing' = Taken(x, InfoBlocks)
    /\ \/ EntryOf(x, infoSending) = {} /\ UNCHANGED infoSending
       \/ \E k \in EntryOf(x, infoSending) :
             infoSending' = IF x.next + 1 = InfoBlocks
                            THEN Without(infoSending, k)
                            ELSE [infoSending EXCEPT ![k].time = 0]
    /\ UNCHANGED <<queues, chunkSending, have, haveAll, exited, connected>>

\* onFT1SendDataSHA1Chunk: the data is taken from the chunk of the entry.  Without an
\* entry the buffer of FT1 is not filled.  When the entry is left over from an earlier
\* transfer of another chunk, no packet of x need end where that chunk does.
SendDataChunk(x) ==
    /\ ~exited /\ x.kind = "chunk"
    /\ outgoing' = Taken(x, ChunkSize(x.chunk))
    /\ \/ EntryOf(x, chunkSending) = {} /\ UNCHANGED chunkSending
       \/ \E k \in EntryOf(x, chunkSending) :
             LET chunk == chunkSending[k].chunk
             IN  \/ /\ x.next + 1 = ChunkSize(chunk)
                    /\ chunkSending' = Without(chunkSending, k)
                 \/ /\ x.next + 1 # ChunkSize(chunk) \/ chunk # x.chunk
                    /\ chunkSending' = [chunkSending EXCEPT ![k].time = 0]
    /\ UNCHANGED <<queues, infoSending, have, haveAll, exited, connected>>
-----------------------------------------------------------------------------
(* iterate(delta).                                                         *)

\* Faulty: times out one step of time late.
ExpiredLate(time, limit) == time > limit

\* Nothing was heard for too long.
Expired(time, limit) == time >= limit

\* Faulty: nothing times out.
WaitingForever(list, delta, limit) == list

\* The entries of a list, in their order, that have not timed out.
StillWaiting(list, delta, limit) ==
    LET kept    == {k \in DOMAIN list : ~Expired(list[k].time + delta, limit)}
        rank(k) == Cardinality({j \in kept : j <= k})
    IN  [n \in 1 .. Cardinality(kept) |->
            LET k == CHOOSE j \in kept : rank(j) = n
            IN  [list[k] EXCEPT !.time = @ + delta]]

\* NGC_FT1_iterate comes before the program's iterate.
StillSending(delta) ==
    {[x EXCEPT !.idle = @ + delta] : x \in {y \in outgoing : y.idle + delta < GiveUp}}

\* FT1 picks an id that none of its own transfers to the peer has.
FreeIds(p, ft) == {t \in TransferIds : \A x \in ft : ~(x.peer = p /\ x.id = t)}

\* "if we have not reached the total cap for transfers": what is counted are the
\* entries of the program.
SlotFree(info, chunk) == Len(info) + Len(chunk) < MaxOut

\* A new entry of the info's transfers.
Entry(p, t) == [peer |-> p, id |-> t, time |-> 0]

\* The front of the info queue is sent its init, if it is connected.
StartInfo(info, ft, sendOk) ==
    LET p == Head(infoQueue)
        ids == IF p \in connected /\ sendOk THEN FreeIds(p, ft) ELSE {}
    IN  \/ \E t \in ids :
              /\ infoQueue' = Tail(infoQueue)
              /\ infoSending' = Append(info, Entry(p, t))
              /\ outgoing' = ft \cup {[peer |-> p, id |-> t, kind |-> "info", chunk |-> 0,
                                       next |-> 0, idle |-> 0]}
        \/ /\ ids = {}
           /\ infoSending' = info /\ outgoing' = ft
           /\ UNCHANGED infoQueue

\* The front of the chunk queue is sent its init, if it is connected.  A hash that
\* is not in the lookup table ends the program.
StartChunk(queue, chunk, ft, sendOk) ==
    LET p == Head(queue).peer
        index == ChunkIndex(Head(queue).hash)
        ids == IF p \in connected /\ sendOk THEN FreeIds(p, ft) ELSE {}
    IN  /\ exited' = (p \in connected /\ index = {})
        /\ \/ \E i \in index, t \in ids :
                 /\ chunkQueue' = Tail(queue)
                 /\ chunkSending' =
                       Append(chunk, [peer |-> p, id |-> t, time |-> 0, chunk |-> i])
                 /\ outgoing' = ft \cup {[peer |-> p, id |-> t, kind |-> "chunk", chunk |-> i,
                                          next |-> 0, idle |-> 0]}
           \/ /\ index = {} \/ ids = {}
              /\ chunkQueue' = queue /\ chunkSending' = chunk /\ outgoing' = ft

\* iterate(delta), its part for the upload: the timers, then at most one new
\* transfer.  Chunk requests wait until no info request is left.
Iterate(delta, sendOk) ==
    /\ ~exited
    /\ LET info  == StillWaiting(infoSending, delta, TransferTimeout)
           chunk == StillWaiting(chunkSending, delta, TransferTimeout)
           queue == StillWaiting(chunkQueue, delta, QueueTimeout)
           ft    == StillSending(delta)
           slot  == SlotFree(info, chunk)
       IN  \/ /\ slot /\ infoQueue # <<>>
              /\ StartInfo(info, ft, sendOk)
              /\ chunkQueue' = queue /\ chunkSending' = chunk
              /\ UNCHANGED exited
           \/ /\ slot /\ infoQueue = <<>> /\ queue # <<>>
              /\ StartChunk(queue, chunk, ft, sendOk)
              /\ infoSending' = info
              /\ UNCHANGED infoQueue
           \/ /\ ~slot \/ (infoQueue = <<>> /\ queue = <<>>)
              /\ infoSending' = info /\ chunkSending' = chunk
              /\ chunkQueue' = queue /\ outgoing' = ft
              /\ UNCHANGED <<infoQueue, exited>>
    /\ UNCHANGED <<have, haveAll, connected>>
-----------------------------------------------------------------------------
(* The surroundings.                                                       *)

\* onFT1ReceiveDataSHA1Chunk has verified one more chunk.
GainChunk(i) ==
    /\ ~exited
    /\ have' = have \cup {i}
    /\ haveAll' = (have' = Chunks)
    /\ UNCHANGED <<queues, transfers, exited, connected>>

\* FT1 drops a transfer; it has no callback for that.
LoseTransfer(x) ==
    /\ outgoing' = outgoing \ {x}
    /\ UNCHANGED <<queues, infoSending, chunkSending, have, haveAll, exited, connected>>

\* A peer comes or goes; the state is not told.
ChangeConnection(p) ==
    /\ connected' = IF p \in connected THEN connected \ {p} ELSE connected \cup {p}
    /\ UNCHANGED <<queues, transfers, have, haveAll, exited>>

\* The program is killed and started again.  The file is still there, and every
\* chunk that is right in it is found, which may be more than was known before.
Restart ==
    /\ infoQueue' = <<>> /\ infoSending' = <<>>
    /\ chunkQueue' = <<>> /\ chunkSending' = <<>>
    /\ have' \in {found \in SUBSET Chunks : have \subseteq found}
    /\ haveAll' = (have' = Chunks)
    /\ exited' = FALSE
    /\ outgoing' = {}
    /\ UNCHANGED connected

Next ==
    \/ \E p \in Peers : ReceiveRequestInfo(p)
    \/ \E p \in Peers, h \in Hashes : ReceiveRequestChunk(p, h)
    \/ \E x \in outgoing : SendDataInfo(x)
    \/ \E x \in outgoing : SendDataChunk(x)
    \/ \E delta \in Deltas, sendOk \in BOOLEAN : Iterate(delta, sendOk)
    \/ \E i \in RealIndices \ have : GainChunk(i)
    \/ \E x \in outgoing : LoseTransfer(x)
    \/ \E p \in Peers : ChangeConnection(p)
    \/ Restart

Spec == Init /\ [][Next]_vars
-----------------------------------------------------------------------------
(* Properties.                                                             *)

\* No entry has timed out, and every chunk being sent is one of the lookup table.
TypeOK ==
    /\ infoQueue \in Seq(Peers)
    /\ infoSending \in Seq([peer : Peers, id : TransferIds, time : 0 .. TransferTimeout - 1])
    /\ chunkQueue \in Seq([peer : Peers, hash : Hashes, time : 0 .. QueueTimeout - 1])
    /\ chunkSending \in Seq([peer : Peers, id : TransferIds, chunk : RealIndices,
                             time : 0 .. TransferTimeout - 1])
    /\ have \subseteq Chunks
    /\ haveAll \in BOOLEAN
    /\ exited \in BOOLEAN
    /\ connected \subseteq Peers
    /\ outgoing \subseteq [peer : Peers, id : TransferIds, kind : {"info", "chunk"},
                           chunk : RealIndices \cup {0}, next : Nat, idle : 0 .. GiveUp - 1]

\* A peer has one place for the info: in the queue or among the transfers, once
\* (sha1.cpp 523-541, 143-166).
OneInfoPerPeer ==
    /\ \A j, k \in DOMAIN infoQueue : infoQueue[j] = infoQueue[k] => j = k
    /\ \A k \in DOMAIN infoSending : infoSending[k].peer \notin Range(infoQueue)
    /\ \A j, k \in DOMAIN infoSending : infoSending[j].peer = infoSending[k].peer => j = k

\* A request that is repeated while it is queued is not queued twice
\* (sha1.cpp 543-557).
OnePlaceInQueue ==
    \A j, k \in DOMAIN chunkQueue :
        chunkQueue[j].peer = chunkQueue[k].peer /\ chunkQueue[j].hash = chunkQueue[k].hash
            => j = k

\* A request for a chunk never ends the program: "we dont have, ignore"
\* (sha1.cpp 392-395, 171-174).
KeepsRunning == ~exited
-----------------------------------------------------------------------------
(* Liveness.                                                               *)

\* The main loop runs and time passes, and not every init fails to be sent.
Fairness == WF_vars(\E delta \in Deltas \ {0} : Iterate(delta, TRUE))

LiveSpec == Spec /\ Fairness

\* Every request for the info leaves the queue, when from some moment on every peer
\* stays: slots are freed by timers even if FT1 never asks for data, and whatever
\* entries are left over (sha1.cpp 71-98, 139-166).
InfoServed ==
    (\A p \in Peers : <>[](p \in connected)) =>
        \A p \in Peers : []<>(p \notin Range(infoQueue))

\* A peer that stays is served the info it asked for, whatever others do.
StayingPeerServed ==
    \A p \in Peers : <>[](p \in connected) => []<>(p \notin Range(infoQueue))
=============================================================================
