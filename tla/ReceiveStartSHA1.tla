-------------------------- MODULE ReceiveStartSHA1 --------------------------
(***************************************************************************)
(* States::ReceiveStartSHA1 (src/src/states/receive_start_sha1.cpp): every *)
(* fifteen seconds all peers are asked for the info, the first one that    *)
(* offers it transfers it, and when it has the right hash the program      *)
(* switches to States::SHA1.  The callbacks for info transfers that are    *)
(* called after the switch are those of States::SHA1 (sha1.cpp 343-351).   *)
(*                                                                         *)
(* onFT1ReceiveDataSHA1Info does not look which transfer the data is of.   *)
(* FT1 is not told of a transfer the program gives up, and goes on with    *)
(* it: its late data finds another transfer under way, or none, or a       *)
(* buffer that was verified already.                                       *)
(*                                                                         *)
(* Time advances in Iterate, in units of five seconds.                     *)
(***************************************************************************)
EXTENDS Integers, FiniteSets

CONSTANTS
    Peers,            \* (group_number, peer_number) of the other peers
    TransferIds,      \* FT1 transfer ids
    InfoBlocks,       \* data blocks of the info
    Deltas,           \* time units that may pass between two iterations
    TransferTimeout,  \* 10 seconds: an idle transfer is given up
    RequestInterval,  \* 15 seconds between two rounds of requests
    FirstRequest,     \* 5 seconds: the timer's value at the start
    WrongBound        \* bound of the model: blocks that arrive with wrong bytes

ASSUME ReceiveStartAssumption ==
    /\ InfoBlocks \in Nat \ {0}
    /\ Deltas \subseteq Nat
    /\ TransferTimeout \in Nat \ {0}
    /\ RequestInterval \in Nat \ {0}
    /\ FirstRequest \in 0 .. RequestInterval
    /\ WrongBound \in Nat

VARIABLES
    phase,         \* "info" in this state, "sha1" in the next one; "threw" and
                   \* "asserted" when the program has ended
    transfer,      \* _transfer: the entry, or the empty set
    sinceRequest,  \* _time_since_last_request, at most RequestInterval
    size,          \* _sha1_info_data.size(), in blocks
    right,         \* the blocks of _sha1_info_data that hold the right bytes
    done,          \* _done
    incoming,      \* the info transfers FT1 receives for this program
    asked,         \* the peers that may still answer a request
    wrong          \* the number of blocks that arrived with wrong bytes

buffer == <<size, right>>
vars == <<phase, transfer, sinceRequest, buffer, done, incoming, asked, wrong>>

AllBlocks == 0 .. InfoBlocks - 1

\* The state is entered with nothing received.
Fresh ==
    [phase |-> "info", transfer |-> {}, sinceRequest |-> FirstRequest,
     size |-> 0, right |-> {}, done |-> FALSE]

Init ==
    /\ phase = Fresh.phase /\ transfer = Fresh.transfer
    /\ sinceRequest = Fresh.sinceRequest
    /\ size = Fresh.size /\ right = Fresh.right /\ done = Fresh.done
    /\ incoming = {} /\ asked = {} /\ wrong = 0
-----------------------------------------------------------------------------
\* Faulty: times out one step of time late; and not at all.
KeptLate(delta) ==
    {[r EXCEPT !.time = @ + delta] : r \in {e \in transfer : e.time + delta <= TransferTimeout}}

KeptForever(delta) == transfer

\* The timer of the transfer, unless it runs out.
Kept(delta) ==
    {[r EXCEPT !.time = @ + delta] : r \in {e \in transfer : e.time + delta < TransferTimeout}}

\* iterate(delta), and the switch ToxClient::iterate makes when it returns _done.
Iterate(delta) ==
    /\ phase = "info"
    /\ LET since == IF sinceRequest + delta >= RequestInterval
                    THEN RequestInterval ELSE sinceRequest + delta
       IN  \/ /\ transfer # {}
              /\ transfer' = Kept(delta)
              /\ sinceRequest' = since
              /\ UNCHANGED asked
           \/ /\ transfer = {}
              /\ sinceRequest' = IF since = RequestInterval THEN 0 ELSE since
              /\ asked' = IF since = RequestInterval THEN Peers ELSE asked
              /\ UNCHANGED transfer
    /\ phase' = IF done THEN "sha1" ELSE "info"
    /\ UNCHANGED <<buffer, done, incoming, wrong>>

\* Faulty: does not look whether there is a transfer.
AcceptsAgain == phase = "info"

\* The checks of onFT1ReceiveInitSHA1Info.
Accepts == phase = "info" /\ transfer = {}

\* The buffer after resize(file_size): bytes that were there stay.
Resized == size' = InfoBlocks /\ UNCHANGED right

\* onFT1ReceiveInitSHA1Info: peer p answers a request by offering the info as
\* transfer t; a second transfer is rejected, and so is any after the switch.
ReceiveInit(p, t) ==
    /\ phase \in {"info", "sha1"}
    /\ p \in asked
    /\ asked' = asked \ {p}
    /\ \/ /\ Accepts
          /\ \A x \in incoming : <<x.peer, x.id>> # <<p, t>>
          /\ transfer' = {[peer |-> p, id |-> t, time |-> 0]}
          /\ incoming' = incoming \cup {[peer |-> p, id |-> t, next |-> 0]}
          /\ Resized
       \/ /\ ~Accepts
          /\ UNCHANGED <<transfer, incoming, buffer>>
    /\ UNCHANGED <<phase, sinceRequest, done, wrong>>

\* FT1 hands over the next block of x, and forgets x after its last block.
Delivered(x) ==
    (incoming \ {x}) \cup
        (IF x.next + 1 = InfoBlocks THEN {} ELSE {[x EXCEPT !.next = @ + 1]})

\* Faulty: the buffer is given up, the transfer goes on.
WriteForgetful(x, good) ==
    LET written == IF good THEN right \cup {x.next} ELSE right \ {x.next}
        last    == x.next + 1 = size
    IN  \/ /\ ~last \/ written = AllBlocks
           /\ right' = written
           /\ transfer' = {[r EXCEPT !.time = 0] : r \in transfer}
           /\ done' = (done \/ last)
           /\ UNCHANGED size
        \/ /\ last /\ written # AllBlocks
           /\ size' = 0 /\ right' = {}
           /\ UNCHANGED <<transfer, done>>

\* The data is written, whatever transfer it is of; with the last block the whole
\* buffer is verified, and given up when the hash does not match.
Write(x, good) ==
    LET written == IF good THEN right \cup {x.next} ELSE right \ {x.next}
        last    == x.next + 1 = size
    IN  \/ /\ ~last \/ written = AllBlocks
           /\ right' = written
           /\ transfer' = {[r EXCEPT !.time = 0] : r \in transfer}
           /\ done' = (done \/ last)
           /\ UNCHANGED size
        \/ /\ last /\ written # AllBlocks
           /\ transfer' = {} /\ size' = 0 /\ right' = {}
           /\ UNCHANGED done

\* onFT1ReceiveDataSHA1Info.  Without a transfer _transfer.value() throws, which
\* nothing catches; after the switch the assertion of States::SHA1 fails.
ReceiveData(x, good) ==
    /\ phase \in {"info", "sha1"}
    /\ good \/ wrong < WrongBound
    /\ wrong' = IF good THEN wrong ELSE wrong + 1
    /\ incoming' = Delivered(x)
    /\ \/ /\ phase = "info" /\ transfer # {}
          /\ Write(x, good)
          /\ UNCHANGED phase
       \/ /\ phase = "info" /\ transfer = {}
          /\ phase' = "threw"
          /\ UNCHANGED <<transfer, buffer, done>>
       \/ /\ phase = "sha1"
          /\ phase' = "asserted"
          /\ UNCHANGED <<transfer, buffer, done>>
    /\ UNCHANGED <<sinceRequest, asked>>

\* FT1 gives a transfer up; it has no callback for that.
LoseTransfer(x) ==
    /\ incoming' = incoming \ {x}
    /\ UNCHANGED <<phase, transfer, sinceRequest, buffer, done, asked, wrong>>

\* The program is killed, or has crashed, and is started again.  It comes back as
\* a new peer of the group, which nobody has an old request of.
Restart ==
    /\ phase' = Fresh.phase /\ transfer' = Fresh.transfer
    /\ sinceRequest' = Fresh.sinceRequest
    /\ size' = Fresh.size /\ right' = Fresh.right /\ done' = Fresh.done
    /\ incoming' = {} /\ asked' = {}
    /\ UNCHANGED wrong

Run ==
    \/ \E delta \in Deltas : Iterate(delta)
    \/ \E p \in Peers, t \in TransferIds : ReceiveInit(p, t)
    \/ \E x \in incoming, good \in BOOLEAN : ReceiveData(x, good)
    \/ \E x \in incoming : LoseTransfer(x)

Next == Run \/ Restart

Spec == Init /\ [][Next]_vars
-----------------------------------------------------------------------------
(* Properties.                                                             *)

\* The one transfer has not timed out; the buffer is empty or as large as the info.
TypeOK ==
    /\ phase \in {"info", "sha1", "threw", "asserted"}
    /\ transfer \subseteq [peer : Peers, id : TransferIds, time : 0 .. TransferTimeout - 1]
    /\ Cardinality(transfer) <= 1
    /\ sinceRequest \in 0 .. RequestInterval
    /\ size \in {0, InfoBlocks} /\ right \subseteq AllBlocks
    /\ done \in BOOLEAN
    /\ incoming \subseteq [peer : Peers, id : TransferIds, next : AllBlocks]
    /\ asked \subseteq Peers
    /\ wrong \in 0 .. WrongBound

\* Data that is taken is written inside the buffer: while there is a transfer the
\* buffer is as large as the info, although a mismatch clears it in the middle of
\* other transfers (receive_start_sha1.cpp 152-154, 164-168, 175-178).
WritesInside == phase = "info" /\ transfer # {} => size = InfoBlocks

\* "we have full info" (sha1.hpp 20): an info that was verified when FT1 had no other
\* transfer of it under way stays as it is, and none begins, through the switch and
\* after it: the entry that is kept holds off further offers, which would open the
\* buffer again, and runs out no sooner than the switch (receive_start_sha1.cpp 37-47,
\* 69, 147-150, 181; sha1.cpp 343-346).  With another transfer under way, one that was
\* given up or that took the place of one, neither needs to be.
VerifiedStays ==
    [][done /\ done' /\ right = AllBlocks /\ incoming = {}
          => right' = AllBlocks /\ incoming' = {}]_vars

\* Time passes, every request round that is repeated is answered in time at some
\* point, blocks arrive in time at some point, for each position, and FT1 does not
\* keep a transfer for ever that the program has given up.
Deliver(b) == \E x \in incoming : transfer # {} /\ x.next = b /\ ReceiveData(x, TRUE)

GivenUp(x) == \A e \in transfer : <<e.peer, e.id>> # <<x.peer, x.id>>

Fairness ==
    /\ WF_vars(\E delta \in Deltas \ {0} : Iterate(delta))
    /\ SF_vars(Accepts /\ \E p \in Peers, t \in TransferIds : ReceiveInit(p, t))
    /\ \A b \in AllBlocks : SF_vars(Deliver(b))
    /\ WF_vars(\E x \in incoming : GivenUp(x) /\ LoseTransfer(x))

LiveSpec == Spec /\ Fairness

\* Unless it is restarted again and again, the program does not go on asking for ever:
\* timeouts, rejected offers, wrong data and lost transfers only delay the end, which
\* is the switch, or the exception on data without a transfer (receive_start_sha1.cpp
\* 37-66, 147-150, 168, 175-178).
SwitchesOrEnds == <>[][Run]_vars => <>(phase # "info")
=============================================================================
