---------------------------- MODULE SlidingWindow ----------------------------
(***************************************************************************)
(* What the measuring of the peers' speeds promises, without its ring      *)
(* buffer: of every peer the bytes of the interval that is running and of  *)
(* the Slots - 1 before it are known, and the speed of a peer is what came *)
(* from it in the last Slots whole intervals, zero when it is not there.   *)
(***************************************************************************)
EXTENDS Integers, Functions

CONSTANTS
    Peers,      \* those who may send
    Slots,      \* the intervals a speed is measured over
    BlockSizes  \* the bytes that may arrive at once

VARIABLES
    window,  \* the bytes of each peer in the interval of each age, 0 the running one
    speed    \* the bytes of each peer in the window at the last measurement

view == <<window, speed>>

Ages == 0 .. Slots - 1

Nothing == [age \in Ages |-> 0]

Init ==
    /\ window = [p \in Peers |-> Nothing]
    /\ speed = [p \in Peers |-> 0]

\* Bytes arrive and are counted once, in the running interval.
Receive(p, n) ==
    /\ window' = [window EXCEPT ![p][0] = @ + n]
    /\ UNCHANGED speed

\* An interval ends, and the oldest leaves the window.  A peer that has gone
\* leaves nothing behind.
EndInterval(gone) ==
    /\ window' = [p \in Peers |->
                     IF p \in gone THEN Nothing
                     ELSE [age \in Ages |-> IF age = 0 THEN 0 ELSE window[p][age - 1]]]
    /\ speed' = [p \in Peers |->
                    IF p \in gone THEN 0 ELSE FoldFunction(+, 0, window[p])]

Next ==
    \/ \E p \in Peers, n \in BlockSizes : Receive(p, n)
    \/ \E gone \in SUBSET Peers : EndInterval(gone)

Spec == Init /\ [][Next]_view
=============================================================================
