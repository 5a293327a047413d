------------------------------ MODULE PeerSpeed ------------------------------
(***************************************************************************)
(* How States::SHA1 (src/src/states/sha1.cpp, sha1.hpp) chooses the peer   *)
(* it asks for a chunk: the bytes received from each peer are added up in  *)
(* a ring buffer, every half second the sums become speeds, and the speeds *)
(* become the weights of a random choice among the peers that are there.   *)
(*                                                                         *)
(* The callbacks run before iterate, in the same step of the main loop, so *)
(* a peer that has gone is seen by the next measurement.  Time advances in *)
(* Iterate; Interval is half a second.                                     *)
(***************************************************************************)
EXTENDS Integers, Functions

CONSTANTS
    Peers,       \* (group_number, peer_number) of the other peers
    Slots,       \* _peer_speed_mesurement_interval_count
    Interval,    \* _peer_speed_mesurement_interval
    Deltas,      \* time units that may pass between two iterations
    UdpOnly,     \* _udp_only (no option sets it)
    MinWeight,   \* bytes in a window that give the least weight, 1
    MaxWeight,   \* bytes in a window that give the greatest weight, 20
    BlockSizes,  \* bytes of a data block
    SlotBound    \* bound of the model: bytes of a peer in an interval

ASSUME SpeedAssumption ==
    /\ Slots \in Nat \ {0}
    /\ Interval \in Nat \ {0}
    /\ Deltas \subseteq Nat
    /\ UdpOnly \in BOOLEAN
    /\ MinWeight \in Nat \ {0} /\ MaxWeight \in Nat /\ MinWeight <= MaxWeight
    /\ BlockSizes \subseteq Nat \ {0}
    /\ SlotBound \in Nat

VARIABLES
    timer,    \* _peer_speed_mesurement_interval_timer
    bytes,    \* _peer_in_bytes_array: peer -> slot -> bytes
    index,    \* _peer_in_bytes_array_index
    speed,    \* _peer_in_speed: peer -> bytes over the whole window
    targets,  \* _peer_in_targets
    weights,  \* _peer_in_targets_dist: target -> its weight
    link      \* getGroupPeerConnectionStatus: "none", "tcp" or "udp"

measured == <<timer, bytes, index, speed, targets, weights>>
vars     == <<measured, link>>

Ring == 0 .. Slots - 1

Init ==
    /\ timer = 0 /\ index = 0
    /\ bytes = <<>> /\ speed = <<>>
    /\ targets = {} /\ weights = <<>>
    /\ link \in [Peers -> {"none", "tcp"}]
-----------------------------------------------------------------------------
\* The slots of p, which operator[] creates with zeros.
SlotsOf(p) == IF p \in DOMAIN bytes THEN bytes[p] ELSE [s \in Ring |-> 0]

\* onFT1ReceiveDataSHA1Chunk, for a known transfer: a block of n bytes is counted,
\* whether its bytes are right or not.
ReceiveData(p, n) ==
    /\ link[p] # "none"
    /\ SlotsOf(p)[index] + n <= SlotBound
    /\ bytes' = [q \in DOMAIN bytes \cup {p} |->
                    IF q = p THEN [SlotsOf(p) EXCEPT ![index] = @ + n] ELSE bytes[q]]
    /\ UNCHANGED <<timer, index, speed, targets, weights, link>>

\* The sum over the whole ring.
Total(p) == FoldFunction(+, 0, bytes[p])

\* Faulty: a peer stays for as long as it is there.
KeptWhileThere == {p \in DOMAIN bytes : link[p] # "none"}

\* A peer is forgotten when nothing came from it in the window, or it has gone.
Kept == {p \in DOMAIN bytes : Total(p) # 0 /\ link[p] # "none"}

\* Faulty: the slot of the interval that has ended is reset.
ResetEnded(p, next) == [bytes[p] EXCEPT ![index] = 0]

\* "reset byte count for next round"
Reset(p, next) == [bytes[p] EXCEPT ![next] = 0]

\* Faulty: the weight of a peer that sends little is not raised to the least one.
ClampHigh(total) == IF total > MaxWeight THEN MaxWeight ELSE total

\* The weight of a speed.  Only the proportions of weights count, so the scale is
\* bytes in a window.
Clamp(total) ==
    IF total < MinWeight THEN MinWeight
    ELSE IF total > MaxWeight THEN MaxWeight
    ELSE total

\* forEachGroup, forEachGroupPeer: toxcore has announced all who are there, and
\* none that is not (PeersKnown of ToxClient).
Reachable ==
    {p \in Peers : IF UdpOnly THEN link[p] = "udp" ELSE link[p] # "none"}

\* The half second is over.  The distribution is left alone when there is no target.
Measure ==
    LET next == (index + 1) % Slots
    IN  /\ timer' = 0
        /\ index' = next
        /\ bytes' = [p \in Kept |-> Reset(p, next)]
        /\ speed' = [p \in (DOMAIN speed \ DOMAIN bytes) \cup Kept |->
                        IF p \in Kept THEN Total(p) ELSE speed[p]]
        /\ targets' = Reachable
        /\ weights' = IF Reachable = {} THEN weights
                      ELSE [p \in Reachable |->
                               IF p \in DOMAIN speed' THEN Clamp(speed'[p]) ELSE MinWeight]

\* iterate(delta), "update speeds and targets".
Iterate(delta) ==
    /\ \/ /\ timer + delta >= Interval
          /\ Measure
       \/ /\ timer + delta < Interval
          /\ timer' = timer + delta
          /\ UNCHANGED <<bytes, index, speed, targets, weights>>
    /\ UNCHANGED link

\* A peer comes, goes, or is reached in another way.
ChangeLink(p, l) ==
    /\ l # link[p]
    /\ link' = [link EXCEPT ![p] = l]
    /\ UNCHANGED measured

Next ==
    \/ \E p \in Peers, n \in BlockSizes : ReceiveData(p, n)
    \/ \E delta \in Deltas : Iterate(delta)
    \/ \E p \in Peers, l \in {"none", "tcp", "udp"} : ChangeLink(p, l)

Spec == Init /\ [][Next]_vars
-----------------------------------------------------------------------------
(* Properties.                                                             *)

\* A speed is only kept of a peer whose bytes are.
TypeOK ==
    /\ timer \in 0 .. Interval - 1
    /\ index \in Ring
    /\ DOMAIN bytes \subseteq Peers
    /\ \A p \in DOMAIN bytes : bytes[p] \in [Ring -> 0 .. SlotBound]
    /\ DOMAIN speed \subseteq DOMAIN bytes
    /\ \A p \in DOMAIN speed : speed[p] \in 1 .. Slots * SlotBound
    /\ targets \subseteq Peers
    /\ DOMAIN weights \subseteq Peers
    /\ link \in [Peers -> {"none", "tcp", "udp"}]

\* The targets and the distribution are in step whenever a target is chosen, every
\* target can be chosen, and none more than MaxWeight / MinWeight times as often as
\* another: a peer that was slow, or sent nothing yet, is still asked now and then
\* (sha1.cpp 232-260, 263-272).
EveryTargetAsked ==
    targets # {} =>
        /\ DOMAIN weights = targets
        /\ \A p \in targets : weights[p] \in MinWeight .. MaxWeight

\* A peer that sends nothing for a whole window has no speed that makes it a
\* preferred target, and takes no room (sha1.cpp 210-219).
SilentForgotten ==
    \A p \in Peers :
        []<><<\E n \in BlockSizes : ReceiveData(p, n)>>_vars \/ <>[](p \notin DOMAIN bytes)

\* The main loop runs and time passes.
Fairness == WF_vars(\E delta \in Deltas \ {0} : Iterate(delta))

LiveSpec == Spec /\ Fairness

\* The slot that has a given age in the interval that is running.
SlotOfAge(age) == (index - age) % Slots

Window == INSTANCE SlidingWindow WITH
    window <- [p \in Peers |-> [age \in Ring |-> SlotsOf(p)[SlotOfAge(age)]]],
    speed  <- [p \in Peers |-> IF p \in DOMAIN speed THEN speed[p] ELSE 0]

\* The ring buffer is a window that slides: a byte counts for exactly Slots
\* measurements, in the speed of the peer it came from, however the index wraps
\* around and peers are forgotten and come back (sha1.cpp 201-227, 456).
WindowSpec == Window!Spec
=============================================================================
