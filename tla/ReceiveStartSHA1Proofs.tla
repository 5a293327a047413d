----------------------- MODULE ReceiveStartSHA1Proofs -----------------------
(***************************************************************************)
(* Proofs about ReceiveStartSHA1, for all peers, sizes of the info and     *)
(* timeouts: its types, that data is written inside the buffer, and that   *)
(* a verified info stays when nothing else is under way.                   *)
(***************************************************************************)
EXTENDS ReceiveStartSHA1, FiniteSetTheorems, TLAPS
-----------------------------------------------------------------------------
(* Types.                                                                  *)

\* A set with at most one element, when none of its elements differ.
LEMMA AtMostOne ==
    ASSUME NEW S, \A a, b \in S : a = b
    PROVE  IsFiniteSet(S) /\ Cardinality(S) <= 1
<1>1. CASE S = {}
  BY <1>1, FS_EmptySet
<1>2. CASE S # {}
  <2>1. PICK a \in S : TRUE
    BY <1>2
  <2>2. S = {a}
    OBVIOUS
  <2>3. IsFiniteSet(S) /\ Cardinality(S) = 1
    BY <2>2, FS_Singleton
  <2> QED  BY <2>3
<1> QED  BY <1>1, <1>2

\* The type invariant, with finiteness: _transfer is an std::optional.
Typed ==
    /\ TypeOK
    /\ \A r, s \in transfer : r = s

\* The entry that is kept is the one there was, with its time moved on.
LEMMA KeptFacts ==
    ASSUME Typed, NEW delta \in Deltas
    PROVE  /\ Kept(delta) \subseteq [peer : Peers, id : TransferIds, time : 0 .. TransferTimeout - 1]
           /\ \A r, s \in Kept(delta) : r = s
<1> USE ReceiveStartAssumption DEF Typed, TypeOK
<1>1. ASSUME NEW r \in Kept(delta)
      PROVE  \E e \in transfer : /\ r = [e EXCEPT !.time = @ + delta]
                                 /\ e.time + delta < TransferTimeout
  BY DEF Kept
<1>2. ASSUME NEW r \in Kept(delta)
      PROVE  r \in [peer : Peers, id : TransferIds, time : 0 .. TransferTimeout - 1]
  <2>1. PICK e \in transfer : /\ r = [e EXCEPT !.time = @ + delta]
                              /\ e.time + delta < TransferTimeout
    BY <1>1
  <2>2. e \in [peer : Peers, id : TransferIds, time : 0 .. TransferTimeout - 1]
    OBVIOUS
  <2>3. e.time + delta \in 0 .. TransferTimeout - 1
    BY <2>1, <2>2
  <2> QED  BY <2>1, <2>2, <2>3
<1>3. \A r, s \in Kept(delta) : r = s
  BY <1>1
<1> QED  BY <1>2, <1>3

\* What FT1 receives after it has handed over a block.
LEMMA DeliveredFacts ==
    ASSUME Typed, NEW x \in incoming
    PROVE  Delivered(x) \subseteq [peer : Peers, id : TransferIds, next : AllBlocks]
<1> DEFINE more == [x EXCEPT !.next = @ + 1]
<1>1. x \in [peer : Peers, id : TransferIds, next : AllBlocks]
  BY DEF Typed, TypeOK
<1>2. x.next + 1 # InfoBlocks => more \in [peer : Peers, id : TransferIds, next : AllBlocks]
  BY <1>1, ReceiveStartAssumption DEF AllBlocks
<1> QED  BY <1>1, <1>2 DEF Delivered, Typed, TypeOK

LEMMA TypedInit == Init => Typed
<1> SUFFICES ASSUME Init PROVE Typed
  OBVIOUS
<1> QED  BY ReceiveStartAssumption, FS_EmptySet DEF Init, Fresh, Typed, TypeOK

LEMMA TypedNext == Typed /\ [Next]_vars => Typed'
<1> SUFFICES ASSUME Typed, [Next]_vars PROVE Typed'
  OBVIOUS
<1> USE ReceiveStartAssumption DEF Typed
<1>1. (\A r, s \in transfer' : r = s) => Cardinality(transfer') <= 1
  BY AtMostOne
<1>2. CASE \E delta \in Deltas : Iterate(delta)
  <2>1. PICK delta \in Deltas : Iterate(delta)
    BY <1>2
  <2>2. /\ transfer' = transfer \/ transfer' = Kept(delta)
        /\ incoming' \subseteq incoming /\ asked' \subseteq Peers
        /\ UNCHANGED <<size, right, done, wrong>> /\ phase' \in {"info", "sha1"}
    BY <2>1 DEF Iterate, buffer, TypeOK
  <2>3. sinceRequest' \in 0 .. RequestInterval
    BY <2>1 DEF Iterate, TypeOK
  <2>4. /\ transfer' \subseteq [peer : Peers, id : TransferIds, time : 0 .. TransferTimeout - 1]
        /\ \A r, s \in transfer' : r = s
    BY <2>2, KeptFacts DEF TypeOK
  <2> QED  BY <1>1, <2>2, <2>3, <2>4 DEF TypeOK
<1>3. CASE \E p \in Peers, t \in TransferIds : ReceiveInit(p, t)
  <2>1. PICK p \in Peers, t \in TransferIds : ReceiveInit(p, t)
    BY <1>3
  <2>2. asked' \subseteq asked /\ UNCHANGED <<phase, sinceRequest, done, wrong, right>>
    BY <2>1 DEF ReceiveInit, Resized, buffer
  <2>3. CASE UNCHANGED <<transfer, incoming, size>>
    BY <1>1, <2>2, <2>3 DEF TypeOK
  <2>4. CASE /\ transfer' = {[peer |-> p, id |-> t, time |-> 0]}
             /\ incoming' = incoming \cup {[peer |-> p, id |-> t, next |-> 0]}
             /\ size' = InfoBlocks
    BY <1>1, <2>2, <2>4 DEF TypeOK, AllBlocks
  <2> QED  BY <2>1, <2>3, <2>4 DEF ReceiveInit, Resized, buffer
<1>4. CASE \E x \in incoming, good \in BOOLEAN : ReceiveData(x, good)
  <2>1. PICK x \in incoming, good \in BOOLEAN : ReceiveData(x, good)
    BY <1>4
  <2>2. /\ incoming' \subseteq [peer : Peers, id : TransferIds, next : AllBlocks]
        /\ phase' \in {"info", "sha1", "threw", "asserted"}
        /\ UNCHANGED <<sinceRequest, asked>>
    BY <2>1, DeliveredFacts DEF ReceiveData, TypeOK
  <2>3. wrong' \in 0 .. WrongBound
    BY <2>1 DEF ReceiveData, TypeOK
  <2>4. CASE UNCHANGED <<transfer, buffer, done>>
    BY <1>1, <2>2, <2>3, <2>4 DEF TypeOK, buffer
  <2>5. CASE Write(x, good)
    <3>1. x.next \in AllBlocks
      BY DEF TypeOK
    <3>2. size' \in {0, InfoBlocks} /\ right' \subseteq AllBlocks /\ done' \in BOOLEAN
      BY <2>5, <3>1 DEF Write, TypeOK
    <3>3. transfer' = {} \/ transfer' = {[r EXCEPT !.time = 0] : r \in transfer}
      BY <2>5 DEF Write
    <3>4. /\ transfer' \subseteq [peer : Peers, id : TransferIds, time : 0 .. TransferTimeout - 1]
          /\ \A r, s \in transfer' : r = s
      BY <3>3 DEF TypeOK
    <3> QED  BY <1>1, <2>2, <2>3, <3>2, <3>4 DEF TypeOK
  <2> QED  BY <2>1, <2>4, <2>5 DEF ReceiveData
<1>5. CASE \E x \in incoming : LoseTransfer(x)
  BY <1>1, <1>5 DEF LoseTransfer, TypeOK, buffer
<1>6. CASE Restart
  BY <1>1, <1>6 DEF Restart, Fresh, TypeOK
<1>7. CASE UNCHANGED vars
  BY <1>1, <1>7 DEF vars, buffer, TypeOK
<1> QED  BY <1>2, <1>3, <1>4, <1>5, <1>6, <1>7 DEF Next, Run

\* The one transfer has not timed out, the buffer is empty or as large as the info,
\* and blocks arrive within the info (receive_start_sha1.cpp 37-66, 122-184).
THEOREM TypeCorrect == Spec => []TypeOK
<1>1. Typed => TypeOK
  BY DEF Typed
<1> QED  BY <1>1, TypedInit, TypedNext, PTL DEF Spec
-----------------------------------------------------------------------------
(* The buffer.                                                             *)

\* No step leaves a transfer with a buffer that is not the size of the info.
LEMMA InsideNext == WritesInside /\ [Next]_vars => WritesInside'
<1> SUFFICES ASSUME WritesInside, [Next]_vars PROVE WritesInside'
  OBVIOUS
<1> USE DEF WritesInside
<1>1. CASE \E delta \in Deltas : Iterate(delta)
  <2>1. PICK delta \in Deltas : Iterate(delta)
    BY <1>1
  <2>2. phase = "info" /\ size' = size
    BY <2>1 DEF Iterate, buffer
  <2>3. transfer' # {} => transfer # {}
    BY <2>1 DEF Iterate, Kept
  <2> QED  BY <2>2, <2>3
<1>2. CASE \E p \in Peers, t \in TransferIds : ReceiveInit(p, t)
  <2>1. PICK p \in Peers, t \in TransferIds : ReceiveInit(p, t)
    BY <1>2
  <2>2. size' = InfoBlocks \/ UNCHANGED <<transfer, size>>
    BY <2>1 DEF ReceiveInit, Resized, buffer
  <2>3. UNCHANGED phase
    BY <2>1 DEF ReceiveInit
  <2> QED  BY <2>2, <2>3
<1>3. CASE \E x \in incoming, good \in BOOLEAN : ReceiveData(x, good)
  <2>1. PICK x \in incoming, good \in BOOLEAN : ReceiveData(x, good)
    BY <1>3
  <2>2. CASE phase' # "info"
    BY <2>2
  <2>3. CASE phase = "info" /\ transfer # {} /\ Write(x, good)
    <3>1. UNCHANGED size \/ transfer' = {}
      BY <2>3 DEF Write
    <3> QED  BY <2>3, <3>1
  <2> QED  BY <2>1, <2>2, <2>3 DEF ReceiveData
<1>4. CASE \E x \in incoming : LoseTransfer(x)
  BY <1>4 DEF LoseTransfer, buffer
<1>5. CASE Restart
  BY <1>5 DEF Restart, Fresh
<1>6. CASE UNCHANGED vars
  BY <1>6 DEF vars, buffer
<1> QED  BY <1>1, <1>2, <1>3, <1>4, <1>5, <1>6 DEF Next, Run

\* Data that is taken while there is a transfer is written inside the buffer,
\* whatever transfer it is of and whatever was given up before
\* (receive_start_sha1.cpp 152-154, 164-168, 175-178).
THEOREM BufferHolds == Spec => []WritesInside
<1>1. Init => WritesInside
  BY DEF Init, Fresh, WritesInside
<1> QED  BY <1>1, InsideNext, PTL DEF Spec
-----------------------------------------------------------------------------
(* A verified info.                                                        *)

\* Until the switch the entry of the transfer stays when the info is verified.
EntryHolds == phase = "info" /\ done /\ right = AllBlocks => transfer # {}

LEMMA EntryHoldsNext == Typed /\ EntryHolds /\ [Next]_vars => EntryHolds'
<1> SUFFICES ASSUME Typed, EntryHolds, [Next]_vars PROVE EntryHolds'
  OBVIOUS
<1> USE DEF EntryHolds, buffer
<1>1. CASE \E delta \in Deltas : Iterate(delta)
  <2>1. PICK delta \in Deltas : Iterate(delta)
    BY <1>1
  <2>2. UNCHANGED <<right, done>> /\ (done => phase' = "sha1")
    BY <2>1 DEF Iterate
  <2> QED  BY <2>2 DEF Typed, TypeOK
<1>2. CASE \E p \in Peers, t \in TransferIds : ReceiveInit(p, t)
  <2>1. PICK p \in Peers, t \in TransferIds : ReceiveInit(p, t)
    BY <1>2
  <2> QED  BY <2>1 DEF ReceiveInit, Resized, AllBlocks
<1>3. CASE \E x \in incoming, good \in BOOLEAN : ReceiveData(x, good)
  <2>1. PICK x \in incoming, good \in BOOLEAN : ReceiveData(x, good)
    BY <1>3
  <2>2. CASE phase' # "info"
    BY <2>2
  <2>3. CASE phase = "info" /\ transfer # {} /\ Write(x, good)
    <3>1. transfer' = {[r EXCEPT !.time = 0] : r \in transfer} \/ right' = {}
      BY <2>3 DEF Write
    <3>2. 0 \in AllBlocks
      BY ReceiveStartAssumption DEF AllBlocks
    <3> QED  BY <2>3, <3>1, <3>2 DEF AllBlocks
  <2> QED  BY <2>1, <2>2, <2>3 DEF ReceiveData
<1>4. CASE \E x \in incoming : LoseTransfer(x)
  BY <1>4 DEF LoseTransfer, AllBlocks
<1>5. CASE Restart
  BY <1>5 DEF Restart, Fresh
<1>6. CASE UNCHANGED vars
  BY <1>6 DEF vars, AllBlocks
<1> QED  BY <1>1, <1>2, <1>3, <1>4, <1>5, <1>6 DEF Next, Run

\* A verified info is what the chunk state is built from, when FT1 had no other
\* transfer of it under way: no offer and no data comes in between
\* (receive_start_sha1.cpp 37-47, 69, 147-150, 181; sha1.cpp 343-346).
THEOREM StaysVerified == Spec => VerifiedStays
<1> DEFINE Stays == done /\ done' /\ right = AllBlocks /\ incoming = {}
                        => right' = AllBlocks /\ incoming' = {}
<1>1. Init => EntryHolds
  BY DEF Init, Fresh, EntryHolds
<1>2. Typed /\ EntryHolds /\ [Next]_vars => [Stays]_vars
  <2> SUFFICES ASSUME EntryHolds, Next, done, done', right = AllBlocks, incoming = {}
               PROVE  right' = right /\ incoming' = {}
    BY DEF AllBlocks
  <2>1. CASE \E delta \in Deltas : Iterate(delta)
    BY <2>1 DEF Iterate, buffer
  <2>2. CASE \E p \in Peers, t \in TransferIds : ReceiveInit(p, t)
    <3>1. ~Accepts
      BY DEF Accepts, EntryHolds
    <3> QED  BY <2>2, <3>1 DEF ReceiveInit, buffer
  <2>3. CASE Restart
    BY <2>3 DEF Restart, Fresh
  <2> QED  BY <2>1, <2>2, <2>3 DEF Next, Run
<1> QED  BY <1>1, <1>2, TypedInit, TypedNext, EntryHoldsNext, PTL DEF Spec, VerifiedStays
=============================================================================
