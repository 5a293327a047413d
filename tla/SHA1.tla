-------------------------------- MODULE SHA1 --------------------------------
(***************************************************************************)
(* States::SHA1 as a whole: while it downloads, it hands out what it has.  *)
(* Both halves work on the same file mapping and the same have flags and   *)
(* run in the same iteration, the upload before the download.              *)
(***************************************************************************)
EXTENDS ChunkTable

CONSTANTS
    Peers,            \* (group_number, peer_number) of the other peers
    InIds,            \* FT1 ids of transfers to this program
    OutIds,           \* FT1 ids of transfers from it
    MaxIn,            \* _max_concurrent_in, option -I
    MaxOut,           \* _max_concurrent_out, option -O
    Deltas,           \* time units that may pass between two iterations
    TransferTimeout,  \* 10 seconds: an idle transfer is given up
    RequestTimeout,   \* 15 seconds: an unanswered request is given up
    QueueTimeout,     \* 10 seconds: a queued chunk request is dropped
    GiveUp,           \* option --ft_sending_give_up_after of FT1
    InfoBlocks,       \* data blocks of the info
    TokenBound,       \* bound of the model, see SHA1Download
    AskBound          \* bound of the model, see SHA1Download

ASSUME SHA1Assumption ==
    /\ IsFiniteSet(Peers) /\ IsFiniteSet(InIds)
    /\ {MaxIn, MaxOut, TokenBound} \subseteq Nat
    /\ Deltas \subseteq Nat
    /\ {TransferTimeout, RequestTimeout, QueueTimeout, GiveUp, InfoBlocks, AskBound}
          \subseteq Nat \ {0}

VARIABLES
    want, requested, receiving, haveCount, file, running, incoming, asked,
    have, haveAll,
    infoQueue, infoSending, chunkQueue, chunkSending, exited, connected, outgoing

Download == INSTANCE SHA1Download WITH TransferIds <- InIds

Upload == INSTANCE SHA1Upload WITH TransferIds <- OutIds

downloadOnly == <<want, requested, receiving, haveCount, file, running, incoming, asked>>
uploadOnly   == <<infoQueue, infoSending, chunkQueue, chunkSending, exited, connected, outgoing>>
vars         == <<downloadOnly, have, haveAll, uploadOnly>>

Init == Download!Init /\ Upload!Init
-----------------------------------------------------------------------------
\* The callbacks of a chunk's way in.  Only a peer that is there offers or sends.
ReceiveInit(p, t, h) ==
    /\ ~exited /\ p \in connected
    /\ Download!ReceiveInit(p, t, h)
    /\ UNCHANGED uploadOnly

ReceiveData(x, right) ==
    /\ ~exited /\ x.peer \in connected
    /\ Download!ReceiveData(x, right)
    /\ UNCHANGED uploadOnly

LoseIncoming(x) ==
    /\ Download!LoseTransfer(x)
    /\ UNCHANGED uploadOnly

\* The callbacks of a chunk's way out.
ReceiveRequestInfo(p) ==
    /\ running
    /\ Upload!ReceiveRequestInfo(p)
    /\ UNCHANGED downloadOnly

ReceiveRequestChunk(p, h) ==
    /\ running
    /\ Upload!ReceiveRequestChunk(p, h)
    /\ UNCHANGED downloadOnly

SendData(x) ==
    /\ running
    /\ Upload!SendDataInfo(x) \/ Upload!SendDataChunk(x)
    /\ UNCHANGED downloadOnly

LoseOutgoing(x) ==
    /\ Upload!LoseTransfer(x)
    /\ UNCHANGED downloadOnly

\* A peer comes or goes; the state is not told.
ChangeConnection(p) ==
    /\ Upload!ChangeConnection(p)
    /\ UNCHANGED downloadOnly

\* iterate(delta): new uploads come before the request, and may end the program.
Iterate(delta, sendOk, haveTargets) ==
    /\ running
    /\ Upload!Iterate(delta, sendOk)
    /\ \/ ~exited' /\ Download!Iterate(delta, haveTargets)
       \/ exited' /\ UNCHANGED downloadOnly

\* The program is killed, or has ended, and is started again.
Restart == Download!Restart /\ Upload!Restart

Next ==
    \/ \E p \in Peers, t \in InIds, h \in Hashes : ReceiveInit(p, t, h)
    \/ \E x \in incoming, right \in BOOLEAN : ReceiveData(x, right)
    \/ \E x \in incoming : LoseIncoming(x)
    \/ \E p \in Peers : ReceiveRequestInfo(p)
    \/ \E p \in Peers, h \in Hashes : ReceiveRequestChunk(p, h)
    \/ \E x \in outgoing : SendData(x)
    \/ \E x \in outgoing : LoseOutgoing(x)
    \/ \E p \in Peers : ChangeConnection(p)
    \/ \E delta \in Deltas, sendOk, haveTargets \in BOOLEAN :
          Iterate(delta, sendOk, haveTargets)
    \/ Restart

Spec == Init /\ [][Next]_vars
-----------------------------------------------------------------------------
(* Properties.                                                             *)

\* What onFT1SendDataSHA1Chunk copies is read out of a verified chunk, from the first
\* block to the last: out of the mapping that is being written to, block by block,
\* long after the chunk was asked for (sha1.cpp 392-397, 171-194, 466, 502-512).  It
\* need not be the chunk the transfer is of, when an entry with its id is left over.
HandsOutVerified ==
    \A k \in DOMAIN chunkSending : chunkSending[k].chunk \in Verified(file)

\* To the upload, the download adds a chunk now and then, each one that was not there,
\* and a restart may find more, but no less (sha1.cpp 71-98, 126-198, 475-485).
UploadSpec == Upload!Spec
=============================================================================
