------------------------------ MODULE SHA1Proofs ------------------------------
(***************************************************************************)
(* Proofs about SHA1: to the upload, the download only ever adds chunks,   *)
(* so that what is proved of either half holds of both together, and what  *)
(* is handed out is verified, for every chunk table, every number of peers *)
(* and transfers, and every limit and timeout.                             *)
(***************************************************************************)
EXTENDS SHA1, TLAPS

\* What is proved of the download.
Proofs == INSTANCE SHA1DownloadProofs WITH TransferIds <- InIds

\* What is proved of the upload.
UploadProofs == INSTANCE SHA1UploadProofs WITH TransferIds <- OutIds
-----------------------------------------------------------------------------
(* The download.                                                           *)

\* The whole is made of the download: every step is one of its, or leaves it alone.
LEMMA IsDownload == Spec => Download!Spec
<1>1. Init => Download!Init
  BY DEF Init
<1>2. [Next]_vars => [Download!Next]_(Download!vars)
  <2> SUFFICES ASSUME [Next]_vars PROVE [Download!Next]_(Download!vars)
    OBVIOUS
  <2> USE DEF Download!vars, downloadOnly
  <2>1. CASE \E p \in Peers, t \in InIds, h \in Hashes : ReceiveInit(p, t, h)
    BY <2>1 DEF ReceiveInit, Download!Next
  <2>2. CASE \E x \in incoming, right \in BOOLEAN : ReceiveData(x, right)
    BY <2>2 DEF ReceiveData, Download!Next
  <2>3. CASE \E x \in incoming : LoseIncoming(x)
    BY <2>3 DEF LoseIncoming, Download!Next
  <2>4. CASE \E p \in Peers : ReceiveRequestInfo(p)
    BY <2>4 DEF ReceiveRequestInfo, Upload!ReceiveRequestInfo
  <2>5. CASE \E p \in Peers, h \in Hashes : ReceiveRequestChunk(p, h)
    BY <2>5 DEF ReceiveRequestChunk, Upload!ReceiveRequestChunk
  <2>6. CASE \E x \in outgoing : SendData(x)
    BY <2>6 DEF SendData, Upload!SendDataInfo, Upload!SendDataChunk
  <2>7. CASE \E x \in outgoing : LoseOutgoing(x)
    BY <2>7 DEF LoseOutgoing, Upload!LoseTransfer
  <2>8. CASE \E p \in Peers : ChangeConnection(p)
    BY <2>8 DEF ChangeConnection, Upload!ChangeConnection
  <2>9. CASE \E delta \in Deltas, sendOk, haveTargets \in BOOLEAN :
                Iterate(delta, sendOk, haveTargets)
    BY <2>9 DEF Iterate, Upload!Iterate, Download!Next
  <2>10. CASE Restart
    BY <2>10 DEF Restart, Download!Next
  <2>11. CASE UNCHANGED vars
    BY <2>11 DEF vars
  <2> QED  BY <2>1, <2>2, <2>3, <2>4, <2>5, <2>6, <2>7, <2>8, <2>9, <2>10, <2>11 DEF Next
<1> QED  BY <1>1, <1>2, PTL DEF Spec, Download!Spec

\* The download SHA1 is made of and the one the proofs are about are instances of
\* the same module with the same constants and variables.
LEMMA SameDownload ==
    /\ Download!Init = Proofs!Init
    /\ Download!Next = Proofs!Next
    /\ Download!vars = Proofs!vars
<1> USE DEF Download!Cardinality, Proofs!Cardinality, Download!Range, Proofs!Range,
            Download!Chunks, Proofs!Chunks, Download!ChunkIndex, Proofs!ChunkIndex,
            Download!RealIndices, Proofs!RealIndices, Download!ChunkSize, Proofs!ChunkSize,
            Download!Blocks, Proofs!Blocks, Download!Verified, Proofs!Verified,
            Download!Arrangements, Proofs!Arrangements
<1>1. \A S : Download!WantQueues(S) = Proofs!WantQueues(S)
  BY DEF Download!WantQueues, Proofs!WantQueues, Download!Missing, Proofs!Missing,
         Download!LastFirst, Proofs!LastFirst, Download!Ascending, Proofs!Ascending
<1>2. \A S : Download!ConstructorAsserts(S) = Proofs!ConstructorAsserts(S)
  BY DEF Download!ConstructorAsserts, Proofs!ConstructorAsserts, Download!Missing,
         Proofs!Missing
<1>3. Download!Init = Proofs!Init
  BY <1>1, <1>2 DEF Download!Init, Proofs!Init
<1>4. \A p, t, h : Download!ReceiveInit(p, t, h) = Proofs!ReceiveInit(p, t, h)
  BY DEF Download!ReceiveInit, Proofs!ReceiveInit, Download!Accept, Proofs!Accept,
         Download!Accepts, Proofs!Accepts, Download!HaveChunk, Proofs!HaveChunk,
         Download!Tokens, Proofs!Tokens
<1>5. \A x, right : Download!ReceiveData(x, right) = Proofs!ReceiveData(x, right)
  BY DEF Download!ReceiveData, Proofs!ReceiveData, Download!Delivered, Proofs!Delivered,
         Download!Entry, Proofs!Entry, Download!ReceiveBlock, Proofs!ReceiveBlock,
         Download!Written, Proofs!Written, Download!FinishChunk, Proofs!FinishChunk
<1>6. \A x : Download!LoseTransfer(x) = Proofs!LoseTransfer(x)
  BY DEF Download!LoseTransfer, Proofs!LoseTransfer
<1>7. \A d, b : Download!Iterate(d, b) = Proofs!Iterate(d, b)
  BY DEF Download!Iterate, Proofs!Iterate, Download!Expired, Proofs!Expired,
         Download!PushedInTurn, Proofs!PushedInTurn, Download!MayRequest,
         Proofs!MayRequest, Download!Request, Proofs!Request, Download!Sent, Proofs!Sent
<1>8. Download!Restart = Proofs!Restart
  BY <1>1, <1>2 DEF Download!Restart, Proofs!Restart
<1>9. Download!Next = Proofs!Next
  BY <1>4, <1>5, <1>6, <1>7, <1>8 DEF Download!Next, Proofs!Next
<1>10. Download!vars = Proofs!vars
  BY DEF Download!vars, Proofs!vars
<1> QED  BY <1>3, <1>9, <1>10

\* What was proved of the download alone holds while the program uploads: its whole
\* inductive invariant.
THEOREM DownloadInvariance == Spec => []Proofs!IInv
<1>1. Download!Spec => Proofs!Spec
  <2>1. Download!Init => Proofs!Init
    BY SameDownload
  <2>2. [Download!Next]_(Download!vars) => [Proofs!Next]_(Proofs!vars)
    BY SameDownload DEF Download!vars, Proofs!vars
  <2> QED  BY <2>1, <2>2, PTL DEF Download!Spec, Proofs!Spec
<1>2. Proofs!Spec => []Proofs!IInv
  <2>1. Proofs!ChunkTableAssumption
    BY ChunkTableAssumption DEF Proofs!ChunkTableAssumption, Proofs!Chunks, Chunks
  <2>2. Proofs!DownloadAssumption
    BY SHA1Assumption DEF Proofs!DownloadAssumption, Proofs!IsFiniteSet, IsFiniteSet
  <2> QED  BY <2>1, <2>2, Proofs!Invariance, PTL
<1> QED  BY <1>1, <1>2, IsDownload, PTL
-----------------------------------------------------------------------------
(* The upload.                                                             *)

\* A block that arrives is nothing to the upload, or one more chunk that is there.
LEMMA ReceiveDataGains ==
    ASSUME Proofs!IInv, Proofs!IInv', NEW x \in incoming, NEW right \in BOOLEAN,
           ReceiveData(x, right)
    PROVE  [Upload!Next]_(Upload!vars)
<1>1. Download!ReceiveData(x, right) /\ ~exited /\ UNCHANGED uploadOnly
  BY DEF ReceiveData
<1>2. CASE UNCHANGED <<have, haveAll>>
  BY <1>1, <1>2 DEF Upload!vars, Upload!queues, Upload!transfers, uploadOnly
<1>3. CASE ~ UNCHANGED <<have, haveAll>>
  <2>1. PICK r \in receiving : have' = have \cup {r.chunk}
    BY <1>1, <1>3 DEF Download!ReceiveData, Download!ReceiveBlock, Download!FinishChunk,
                       Download!Entry
  <2>2. r.chunk \in Upload!RealIndices \ have
    <3>1. r.chunk \in Proofs!RealIndices
      BY DEF Proofs!IInv, Proofs!TypeOK, Proofs!Entries
    <3>2. r.chunk \notin have
      BY DEF Proofs!IInv, Proofs!OneWriterPerChunk, Proofs!InTransfer
    <3> QED  BY <3>1, <3>2 DEF Upload!RealIndices, Proofs!RealIndices, Upload!ChunkIndex,
                               Proofs!ChunkIndex, Upload!Chunks, Proofs!Chunks
  <2>3. haveAll' = (have' = Upload!Chunks)
    <3>1. haveAll' \in BOOLEAN /\ (haveAll' <=> have' = Proofs!Chunks)
      BY DEF Proofs!IInv, Proofs!TypeOK, Proofs!CountersAgree
    <3> QED  BY <3>1 DEF Proofs!Chunks, Upload!Chunks
  <2>4. Upload!GainChunk(r.chunk)
    BY <1>1, <2>1, <2>3 DEF Upload!GainChunk, Upload!queues, Upload!transfers, uploadOnly
  <2> QED  BY <2>2, <2>4 DEF Upload!Next
<1> QED  BY <1>2, <1>3

\* Every step of the whole is a step of the upload, or leaves it alone: what the
\* download does to the upload is to add chunks that were not there (sha1.cpp
\* 450-493), and each restart finds at least what was known.
THEOREM ImplementsUpload == Spec => UploadSpec
<1>1. Init => Upload!Init
  BY DEF Init
<1>2. Proofs!IInv /\ Proofs!IInv' /\ [Next]_vars => [Upload!Next]_(Upload!vars)
  <2> SUFFICES ASSUME Proofs!IInv, Proofs!IInv', [Next]_vars
               PROVE  [Upload!Next]_(Upload!vars)
    OBVIOUS
  <2> USE DEF Upload!vars, Upload!queues, Upload!transfers, uploadOnly
  <2>1. CASE \E p \in Peers, t \in InIds, h \in Hashes : ReceiveInit(p, t, h)
    BY <2>1 DEF ReceiveInit, Download!ReceiveInit
  <2>2. CASE \E x \in incoming, right \in BOOLEAN : ReceiveData(x, right)
    BY <2>2, ReceiveDataGains
  <2>3. CASE \E x \in incoming : LoseIncoming(x)
    BY <2>3 DEF LoseIncoming, Download!LoseTransfer
  <2>4. CASE \E p \in Peers : ReceiveRequestInfo(p)
    BY <2>4 DEF ReceiveRequestInfo, Upload!Next
  <2>5. CASE \E p \in Peers, h \in Hashes : ReceiveRequestChunk(p, h)
    BY <2>5 DEF ReceiveRequestChunk, Upload!Next
  <2>6. CASE \E x \in outgoing : SendData(x)
    BY <2>6 DEF SendData, Upload!Next
  <2>7. CASE \E x \in outgoing : LoseOutgoing(x)
    BY <2>7 DEF LoseOutgoing, Upload!Next
  <2>8. CASE \E p \in Peers : ChangeConnection(p)
    BY <2>8 DEF ChangeConnection, Upload!Next
  <2>9. CASE \E delta \in Deltas, sendOk, haveTargets \in BOOLEAN :
                Iterate(delta, sendOk, haveTargets)
    BY <2>9 DEF Iterate, Upload!Next
  <2>10. CASE Restart
    BY <2>10 DEF Restart, Upload!Next
  <2>11. CASE UNCHANGED vars
    BY <2>11 DEF vars
  <2> QED  BY <2>1, <2>2, <2>3, <2>4, <2>5, <2>6, <2>7, <2>8, <2>9, <2>10, <2>11 DEF Next
<1> QED  BY <1>1, <1>2, DownloadInvariance, PTL DEF Spec, UploadSpec, Upload!Spec

\* The upload SHA1 is made of and the one the proofs are about are instances of the
\* same module with the same constants and variables.
LEMMA SameUpload ==
    /\ Upload!Init = UploadProofs!Init
    /\ Upload!Next = UploadProofs!Next
    /\ Upload!vars = UploadProofs!vars
<1> USE DEF Upload!Cardinality, UploadProofs!Cardinality, Upload!Range, UploadProofs!Range,
            Upload!Chunks, UploadProofs!Chunks, Upload!ChunkIndex, UploadProofs!ChunkIndex,
            Upload!RealIndices, UploadProofs!RealIndices,
            Upload!queues, UploadProofs!queues, Upload!transfers, UploadProofs!transfers,
            Upload!SameTransfer, UploadProofs!SameTransfer
<1>1. Upload!Init = UploadProofs!Init
  BY DEF Upload!Init, UploadProofs!Init
<1>2. \A p : Upload!ReceiveRequestInfo(p) = UploadProofs!ReceiveRequestInfo(p)
  BY DEF Upload!ReceiveRequestInfo, UploadProofs!ReceiveRequestInfo
<1>3. \A p, h : Upload!ReceiveRequestChunk(p, h) = UploadProofs!ReceiveRequestChunk(p, h)
  BY DEF Upload!ReceiveRequestChunk, UploadProofs!ReceiveRequestChunk, Upload!HaveChunk,
         UploadProofs!HaveChunk, Upload!Queued, UploadProofs!Queued
<1>4. \A x, blocks : Upload!Taken(x, blocks) = UploadProofs!Taken(x, blocks)
  BY DEF Upload!Taken, UploadProofs!Taken
<1>5. /\ \A x, list : Upload!EntryOf(x, list) = UploadProofs!EntryOf(x, list)
      /\ \A list, k : Upload!Without(list, k) = UploadProofs!Without(list, k)
  BY DEF Upload!EntryOf, UploadProofs!EntryOf, Upload!Without, UploadProofs!Without
<1>6. \A x : Upload!SendDataInfo(x) = UploadProofs!SendDataInfo(x)
  BY <1>4, <1>5 DEF Upload!SendDataInfo, UploadProofs!SendDataInfo
<1>7. \A x : Upload!SendDataChunk(x) = UploadProofs!SendDataChunk(x)
  BY <1>4, <1>5 DEF Upload!SendDataChunk, UploadProofs!SendDataChunk, Upload!ChunkSize,
                    UploadProofs!ChunkSize
<1>8. \A d, ok : Upload!Iterate(d, ok) = UploadProofs!Iterate(d, ok)
  BY DEF Upload!Iterate, UploadProofs!Iterate, Upload!Expired, UploadProofs!Expired,
         Upload!StillWaiting, UploadProofs!StillWaiting, Upload!StillSending,
         UploadProofs!StillSending, Upload!SlotFree, UploadProofs!SlotFree,
         Upload!StartInfo, UploadProofs!StartInfo, Upload!StartChunk,
         UploadProofs!StartChunk, Upload!FreeIds, UploadProofs!FreeIds, Upload!Entry,
         UploadProofs!Entry
<1>9. \A i : Upload!GainChunk(i) = UploadProofs!GainChunk(i)
  BY DEF Upload!GainChunk, UploadProofs!GainChunk
<1>10. \A x : Upload!LoseTransfer(x) = UploadProofs!LoseTransfer(x)
  BY DEF Upload!LoseTransfer, UploadProofs!LoseTransfer
<1>11. \A p : Upload!ChangeConnection(p) = UploadProofs!ChangeConnection(p)
  BY DEF Upload!ChangeConnection, UploadProofs!ChangeConnection
<1>12. Upload!Restart = UploadProofs!Restart
  BY DEF Upload!Restart, UploadProofs!Restart
<1>13. Upload!Next = UploadProofs!Next
  BY <1>2, <1>3, <1>6, <1>7, <1>8, <1>9, <1>10, <1>11, <1>12
     DEF Upload!Next, UploadProofs!Next
<1>14. Upload!vars = UploadProofs!vars
  BY DEF Upload!vars, UploadProofs!vars
<1> QED  BY <1>1, <1>13, <1>14

\* What was proved of the upload alone holds while the program downloads: its whole
\* inductive invariant.
THEOREM UploadInvariance == Spec => []UploadProofs!IInv
<1>1. Upload!Spec => UploadProofs!Spec
  <2>1. Upload!Init => UploadProofs!Init
    BY SameUpload
  <2>2. [Upload!Next]_(Upload!vars) => [UploadProofs!Next]_(UploadProofs!vars)
    BY SameUpload DEF Upload!vars, Upload!queues, Upload!transfers, UploadProofs!vars,
                      UploadProofs!queues, UploadProofs!transfers
  <2> QED  BY <2>1, <2>2, PTL DEF Upload!Spec, UploadProofs!Spec
<1>2. UploadProofs!Spec => []UploadProofs!IInv
  <2>1. UploadProofs!ChunkTableAssumption
    BY ChunkTableAssumption DEF UploadProofs!ChunkTableAssumption, UploadProofs!Chunks, Chunks
  <2>2. UploadProofs!UploadAssumption
    BY SHA1Assumption DEF UploadProofs!UploadAssumption
  <2> QED  BY <2>1, <2>2, UploadProofs!Invariance, PTL
<1> QED  BY <1>1, <1>2, ImplementsUpload DEF UploadSpec
-----------------------------------------------------------------------------
(* Both halves together.                                                   *)

\* Whatever is copied for FT1, at whatever time, is what its hash stands for: the
\* chunk of the entry was verified before it was queued, its flag never goes away,
\* and no transfer writes where a flag is set (sha1.cpp 385-398, 171-207, 405-417,
\* 466-485, 509-512).
THEOREM HandedOutIsVerified == Spec => []HandsOutVerified
<1>1. Proofs!IInv /\ UploadProofs!IInv => HandsOutVerified
  BY DEF Proofs!IInv, Proofs!HaveIsOnDisk, UploadProofs!IInv, UploadProofs!OnlyWhatIsThere,
         HandsOutVerified, Proofs!Verified, Verified, Proofs!Chunks, Chunks,
         Proofs!Blocks, Blocks, Proofs!ChunkSize, ChunkSize
<1> QED  BY <1>1, DownloadInvariance, UploadInvariance, PTL
=============================================================================
