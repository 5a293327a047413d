--------------------------- MODULE PeerSpeedProofs ---------------------------
(***************************************************************************)
(* Proofs about PeerSpeed, for all peers, every size of the ring, every    *)
(* interval and every weight.                                              *)
(***************************************************************************)
EXTENDS PeerSpeed, Sums
-----------------------------------------------------------------------------
(* The ring.                                                               *)

\* Slots of all ages are slots, each of one age, and with the next interval every
\* slot is one interval older, the one that is reset being the new one of age 0.
LEMMA RingFacts ==
    ASSUME NEW at \in Ring
    PROVE  LET next == (at + 1) % Slots IN
           /\ next \in Ring
           /\ \A age \in Ring : (at - age) % Slots \in Ring
           /\ \A a, b \in Ring : (at - a) % Slots = (at - b) % Slots => a = b
           /\ (at - 0) % Slots = at
           /\ (next - 0) % Slots = next
           /\ \A age \in Ring \ {0} : /\ age - 1 \in Ring
                                      /\ (next - age) % Slots = (at - (age - 1)) % Slots
                                      /\ (next - age) % Slots # next
<1> DEFINE next == (at + 1) % Slots
<1> USE SpeedAssumption DEF Ring
<1>1. next = (IF at + 1 = Slots THEN 0 ELSE at + 1) /\ next \in Ring
  OBVIOUS
<1> HIDE DEF next
<1>2. \A from \in Ring, age \in Ring :
         (from - age) % Slots = IF age <= from THEN from - age ELSE from - age + Slots
  OBVIOUS
<1>3. \A age \in Ring : (at - age) % Slots \in Ring
  BY <1>2
<1>4. \A a, b \in Ring : (at - a) % Slots = (at - b) % Slots => a = b
  BY <1>2
<1>5. (at - 0) % Slots = at /\ (next - 0) % Slots = next
  BY <1>1, <1>2
<1>6. ASSUME NEW age \in Ring \ {0}
      PROVE  /\ age - 1 \in Ring
             /\ (next - age) % Slots = (at - (age - 1)) % Slots
             /\ (next - age) % Slots # next
  <2>1. age - 1 \in Ring
    OBVIOUS
  <2>2. (next - age) % Slots = IF age <= next THEN next - age ELSE next - age + Slots
    BY <1>1, <1>2
  <2>3. (at - (age - 1)) % Slots
           = IF age - 1 <= at THEN at - (age - 1) ELSE at - (age - 1) + Slots
    BY <1>2, <2>1
  <2> QED  BY <1>1, <2>1, <2>2, <2>3
<1> QED  BY <1>1, <1>3, <1>4, <1>5, <1>6 DEF next

LEMMA RingIsFinite == IsFiniteSet(Ring) /\ Cardinality(Ring) = Slots
BY FS_Interval, SpeedAssumption DEF Ring

\* The bytes of a peer in the whole window are a number within bounds.
LEMMA TotalFacts ==
    ASSUME TypeOK, NEW p \in DOMAIN bytes
    PROVE  Total(p) \in 0 .. Slots * SlotBound
<1>1. bytes[p] \in [Ring -> 0 .. SlotBound]
  BY DEF TypeOK
<1>2. Sum(bytes[p]) \in 0 .. Cardinality(Ring) * SlotBound
  BY <1>1, SumBound, RingIsFinite, SpeedAssumption
<1> QED  BY <1>2, RingIsFinite DEF Total, Sum
-----------------------------------------------------------------------------
(* The invariants.                                                         *)

IInv ==
    /\ TypeOK
    /\ EveryTargetAsked

LEMMA InitInv == Init => IInv
<1> SUFFICES ASSUME Init PROVE IInv
  OBVIOUS
<1>1. DOMAIN bytes = {} /\ DOMAIN speed = {} /\ DOMAIN weights = {}
  BY DEF Init
<1>2. TypeOK
  BY <1>1, SpeedAssumption DEF Init, TypeOK, Ring
<1> QED  BY <1>2 DEF Init, IInv, EveryTargetAsked

LEMMA SlotsOfType == ASSUME TypeOK, NEW p PROVE SlotsOf(p) \in [Ring -> 0 .. SlotBound]
BY SpeedAssumption DEF TypeOK, SlotsOf

LEMMA ReceiveDataInv ==
    ASSUME IInv, NEW p \in Peers, NEW n \in BlockSizes, ReceiveData(p, n)
    PROVE  IInv'
<1> USE DEF IInv
<1>1. /\ bytes' = [q \in DOMAIN bytes \cup {p} |->
                      IF q = p THEN [SlotsOf(p) EXCEPT ![index] = @ + n] ELSE bytes[q]]
      /\ SlotsOf(p)[index] + n <= SlotBound
      /\ UNCHANGED <<timer, index, speed, targets, weights, link>>
  BY DEF ReceiveData
<1>2. [SlotsOf(p) EXCEPT ![index] = @ + n] \in [Ring -> 0 .. SlotBound]
  <2>1. SlotsOf(p) \in [Ring -> 0 .. SlotBound] /\ index \in Ring
    BY SlotsOfType DEF TypeOK
  <2>2. SlotsOf(p)[index] + n \in 0 .. SlotBound
    BY <1>1, <2>1, SpeedAssumption
  <2> QED  BY <2>1, <2>2
<1>3. DOMAIN bytes' = DOMAIN bytes \cup {p}
  BY <1>1
<1>4. \A q \in DOMAIN bytes' : bytes'[q] \in [Ring -> 0 .. SlotBound]
  BY <1>1, <1>2, <1>3 DEF TypeOK
<1>5. TypeOK'
  BY <1>1, <1>3, <1>4 DEF TypeOK
<1> QED  BY <1>1, <1>5 DEF EveryTargetAsked

LEMMA MeasureInv ==
    ASSUME IInv, Measure, UNCHANGED link
    PROVE  IInv'
<1> USE DEF IInv
<1> DEFINE next == (index + 1) % Slots
<1>1. /\ timer' = 0
      /\ index' = next
      /\ bytes' = [p \in Kept |-> Reset(p, next)]
      /\ speed' = [p \in (DOMAIN speed \ DOMAIN bytes) \cup Kept |->
                      IF p \in Kept THEN Total(p) ELSE speed[p]]
      /\ targets' = Reachable
      /\ weights' = IF Reachable = {} THEN weights
                    ELSE [p \in Reachable |->
                             IF p \in DOMAIN speed' THEN Clamp(speed'[p]) ELSE MinWeight]
  BY DEF Measure
<1>2. next \in Ring
  BY RingFacts DEF TypeOK
<1> HIDE DEF next
<1>3. Kept \subseteq DOMAIN bytes /\ Kept \subseteq Peers /\ Reachable \subseteq Peers
  BY DEF Kept, Reachable, TypeOK
<1>4. DOMAIN bytes' = Kept /\ DOMAIN speed' = Kept
  BY <1>1 DEF TypeOK
<1>5. ASSUME NEW p \in Kept
      PROVE  /\ bytes'[p] \in [Ring -> 0 .. SlotBound]
             /\ speed'[p] \in 1 .. Slots * SlotBound
  <2>1. bytes[p] \in [Ring -> 0 .. SlotBound]
    BY <1>3 DEF TypeOK
  <2>2. bytes'[p] = [bytes[p] EXCEPT ![next] = 0] /\ speed'[p] = Total(p)
    BY <1>1, <1>4 DEF Reset
  <2>3. Total(p) \in 0 .. Slots * SlotBound /\ Total(p) # 0
    BY <1>3, TotalFacts DEF Kept
  <2>4. bytes'[p] \in [Ring -> 0 .. SlotBound]
    <3>1. 0 \in 0 .. SlotBound
      BY SpeedAssumption
    <3>2. [bytes[p] EXCEPT ![next] = 0] \in [Ring -> 0 .. SlotBound]
      BY <2>1, <3>1
    <3> QED  BY <2>2, <3>2
  <2>5. speed'[p] \in 1 .. Slots * SlotBound
    <3>1. Slots * SlotBound \in Nat
      BY SpeedAssumption
    <3>2. \A n : n \in 0 .. Slots * SlotBound /\ n # 0 => n \in 1 .. Slots * SlotBound
      BY <3>1
    <3> QED  BY <2>2, <2>3, <3>2
  <2> QED  BY <2>4, <2>5
<1>6. ASSUME NEW p \in Reachable, Reachable # {}
      PROVE  DOMAIN weights' = Reachable /\ weights'[p] \in MinWeight .. MaxWeight
  <2>1. weights'[p] = IF p \in Kept THEN Clamp(speed'[p]) ELSE MinWeight
    BY <1>1, <1>4, <1>6
  <2>2. ASSUME p \in Kept PROVE Clamp(speed'[p]) \in MinWeight .. MaxWeight
    <3>1. speed'[p] \in Nat
      BY <1>5, <2>2
    <3> QED  BY <3>1, SpeedAssumption DEF Clamp
  <2>3. MinWeight \in MinWeight .. MaxWeight
    BY SpeedAssumption
  <2> QED  BY <1>1, <1>6, <2>1, <2>2, <2>3
<1>7. TypeOK'
  <2>1. DOMAIN weights' \subseteq Peers
    BY <1>1, <1>3 DEF TypeOK
  <2>2. timer' \in 0 .. Interval - 1 /\ index' \in Ring
    BY <1>1, <1>2, SpeedAssumption
  <2> QED  BY <1>1, <1>3, <1>4, <1>5, <2>1, <2>2 DEF TypeOK
<1>8. EveryTargetAsked'
  BY <1>1, <1>6 DEF EveryTargetAsked
<1> QED  BY <1>7, <1>8

LEMMA NextInv == IInv /\ [Next]_vars => IInv'
<1> SUFFICES ASSUME IInv, [Next]_vars PROVE IInv'
  OBVIOUS
<1>1. ASSUME NEW p \in Peers, NEW n \in BlockSizes, ReceiveData(p, n) PROVE IInv'
  BY <1>1, ReceiveDataInv
<1>2. ASSUME NEW delta \in Deltas, Iterate(delta) PROVE IInv'
  <2>1. CASE Measure
    BY <1>2, <2>1, MeasureInv DEF Iterate
  <2>2. CASE /\ timer + delta < Interval
             /\ timer' = timer + delta
             /\ UNCHANGED <<bytes, index, speed, targets, weights, link>>
    <3>1. timer' \in 0 .. Interval - 1
      BY <2>2, SpeedAssumption DEF IInv, TypeOK
    <3> QED  BY <2>2, <3>1 DEF IInv, TypeOK, EveryTargetAsked
  <2> QED  BY <1>2, <2>1, <2>2 DEF Iterate
<1>3. ASSUME NEW p \in Peers, NEW l \in {"none", "tcp", "udp"}, ChangeLink(p, l) PROVE IInv'
  BY <1>3 DEF ChangeLink, measured, IInv, TypeOK, EveryTargetAsked
<1>4. CASE UNCHANGED vars
  BY <1>4 DEF vars, measured, IInv, TypeOK, EveryTargetAsked
<1> QED  BY <1>1, <1>2, <1>3, <1>4 DEF Next

\* The inductive invariant holds in every reachable state: a measurement leaves
\* sums that are numbers, and a weight for every target (sha1.cpp 199-260).
THEOREM Invariance == Spec => []IInv
BY InitInv, NextInv, PTL DEF Spec

\* Every count stays within its bounds, whatever is added, reset and forgotten, and a
\* speed is never zero and only kept of a peer whose bytes are (sha1.cpp 199-227, 456).
THEOREM TypeCorrect == Spec => []TypeOK
<1>1. IInv => TypeOK
  BY DEF IInv
<1> QED  BY <1>1, Invariance, PTL

\* The random choice is over exactly the targets, and the weight of each is within
\* the bounds: none is never asked (sha1.cpp 232-260, 263-272).
THEOREM TargetsAreAsked == Spec => []EveryTargetAsked
<1>1. IInv => EveryTargetAsked
  BY DEF IInv
<1> QED  BY <1>1, Invariance, PTL
-----------------------------------------------------------------------------
(* The window.                                                             *)

\* What the refinement mapping shows of the ring buffer: the bytes of a peer by the
\* age of their interval, and its speed.
ByAge(p) == [age \in Ring |-> SlotsOf(p)[SlotOfAge(age)]]

SpeedOf(p) == IF p \in DOMAIN speed THEN speed[p] ELSE 0

LEMMA WindowIs ==
    /\ Window!view = <<[p \in Peers |-> ByAge(p)], [p \in Peers |-> SpeedOf(p)]>>
    /\ Window!view' = <<[p \in Peers |-> ByAge(p)'], [p \in Peers |-> SpeedOf(p)']>>
    /\ Window!Ages = Ring
    /\ Window!Nothing = [age \in Ring |-> 0]
    /\ \A g : Window!FoldFunction(+, 0, g) = Sum(g)
BY DEF Window!view, ByAge, SpeedOf, Window!Ages, Window!Nothing, Ring, SlotsOf, SlotOfAge, Sum,
       Window!FoldFunction, FoldFunction, Window!FoldFunctionOnSet, FoldFunctionOnSet,
       Window!MapThenFoldSet, MapThenFoldSet

\* At the start no bytes have come from anyone.
LEMMA WindowInit == Init => Window!Init
<1> SUFFICES ASSUME Init PROVE Window!Init
  OBVIOUS
<1>1. DOMAIN bytes = {} /\ DOMAIN speed = {} /\ index = 0 /\ 0 \in Ring
  BY SpeedAssumption DEF Init, Ring
<1>2. \A age \in Ring : SlotOfAge(age) \in Ring
  BY <1>1, RingFacts DEF SlotOfAge
<1>3. \A p \in Peers : ByAge(p) = [age \in Ring |-> 0] /\ SpeedOf(p) = 0
  BY <1>1, <1>2 DEF ByAge, SlotsOf, SpeedOf
<1>4. /\ [p \in Peers |-> ByAge(p)] = [p \in Peers |-> Window!Nothing]
      /\ [p \in Peers |-> SpeedOf(p)] = [p \in Peers |-> 0]
  BY <1>3, WindowIs
<1> QED  BY <1>4 DEF Window!Init, ByAge, SpeedOf

\* Bytes that arrive are those of age 0.
LEMMA WindowReceive ==
    ASSUME IInv, NEW p \in Peers, NEW n \in BlockSizes, ReceiveData(p, n)
    PROVE  Window!Receive(p, n)
<1>1. /\ bytes' = [q \in DOMAIN bytes \cup {p} |->
                      IF q = p THEN [SlotsOf(p) EXCEPT ![index] = @ + n] ELSE bytes[q]]
      /\ UNCHANGED <<index, speed>>
  BY DEF ReceiveData
<1>2. index \in Ring /\ SlotsOf(p) \in [Ring -> 0 .. SlotBound]
  BY SlotsOfType DEF IInv, TypeOK
<1>3. \A q \in Peers : SlotsOf(q)' = IF q = p THEN [SlotsOf(p) EXCEPT ![index] = @ + n]
                                     ELSE SlotsOf(q)
  BY <1>1 DEF SlotsOf
<1>4. /\ \A age \in Ring : SlotOfAge(age) \in Ring /\ SlotOfAge(age)' = SlotOfAge(age)
      /\ \A age \in Ring : SlotOfAge(age) = index <=> age = 0
      /\ 0 \in Ring
  <2>1. 0 \in Ring
    BY SpeedAssumption DEF Ring
  <2>2. /\ \A age \in Ring : SlotOfAge(age) \in Ring
        /\ \A a, b \in Ring : SlotOfAge(a) = SlotOfAge(b) => a = b
        /\ SlotOfAge(0) = index
    BY <1>2, RingFacts DEF SlotOfAge
  <2>3. \A age \in Ring : SlotOfAge(age)' = SlotOfAge(age)
    BY <1>1 DEF SlotOfAge
  <2>4. \A age \in Ring : SlotOfAge(age) = index <=> age = 0
    BY <2>1, <2>2
  <2> QED  BY <2>1, <2>2, <2>3, <2>4
<1>5. ByAge(p)' = [ByAge(p) EXCEPT ![0] = @ + n]
  <2>1. ByAge(p)' = [age \in Ring |-> [SlotsOf(p) EXCEPT ![index] = @ + n][SlotOfAge(age)]]
    BY <1>3, <1>4 DEF ByAge
  <2>2. \A age \in Ring : [SlotsOf(p) EXCEPT ![index] = @ + n][SlotOfAge(age)]
                             = IF age = 0 THEN ByAge(p)[0] + n ELSE ByAge(p)[age]
    BY <1>2, <1>4 DEF ByAge
  <2>3. ByAge(p) = [age \in Ring |-> ByAge(p)[age]]
    BY DEF ByAge
  <2> QED  BY <1>4, <2>1, <2>2, <2>3
<1>6. \A q \in Peers \ {p} : ByAge(q)' = ByAge(q)
  BY <1>3, <1>4 DEF ByAge
<1>7. [q \in Peers |-> ByAge(q)'] = [[q \in Peers |-> ByAge(q)] EXCEPT ![p][0] = @ + n]
  BY <1>5, <1>6
<1>8. [q \in Peers |-> SpeedOf(q)'] = [q \in Peers |-> SpeedOf(q)]
  BY <1>1 DEF SpeedOf
<1> QED  BY <1>7, <1>8 DEF Window!Receive, ByAge, SpeedOf

\* A measurement ends an interval, and leaves nothing of the peers it forgets.
LEMMA WindowMeasure ==
    ASSUME IInv, Measure, NEW gone \in SUBSET Peers, gone = Peers \ Kept
    PROVE  Window!EndInterval(gone)
<1> DEFINE next == (index + 1) % Slots
<1>1. /\ index' = next
      /\ bytes' = [p \in Kept |-> Reset(p, next)]
      /\ speed' = [p \in (DOMAIN speed \ DOMAIN bytes) \cup Kept |->
                      IF p \in Kept THEN Total(p) ELSE speed[p]]
  BY DEF Measure
<1>2. /\ index \in Ring /\ next \in Ring /\ 0 \in Ring
      /\ \A age \in Ring : SlotOfAge(age) \in Ring /\ SlotOfAge(age)' \in Ring
      /\ \A a, b \in Ring : SlotOfAge(a) = SlotOfAge(b) => a = b
      /\ SlotOfAge(0)' = next
      /\ \A age \in Ring \ {0} : /\ age - 1 \in Ring
                                 /\ SlotOfAge(age)' = SlotOfAge(age - 1)
                                 /\ SlotOfAge(age)' # next
  <2>1. index \in Ring /\ 0 \in Ring
    BY SpeedAssumption DEF IInv, TypeOK, Ring
  <2>2. next \in Ring
    BY <2>1, RingFacts
  <2>3. \A age \in Ring : SlotOfAge(age) \in Ring /\ SlotOfAge(age)' \in Ring
    BY <1>1, <2>1, <2>2, RingFacts DEF SlotOfAge
  <2> QED  BY <1>1, <2>1, <2>2, <2>3, RingFacts DEF SlotOfAge
<1> HIDE DEF next
<1>3. Kept \subseteq DOMAIN bytes /\ Kept \subseteq Peers /\ DOMAIN speed \subseteq DOMAIN bytes
  BY DEF Kept, IInv, TypeOK
<1>4. DOMAIN bytes' = Kept /\ DOMAIN speed' = Kept
  BY <1>1, <1>3
<1>5. ASSUME NEW p \in Peers \ Kept
      PROVE  ByAge(p)' = [age \in Ring |-> 0] /\ SpeedOf(p)' = 0
  <2>1. SlotsOf(p)' = [s \in Ring |-> 0]
    BY <1>4 DEF SlotsOf
  <2> QED  BY <1>2, <1>4, <2>1 DEF ByAge, SpeedOf
<1>6. ASSUME NEW p \in Kept
      PROVE  /\ ByAge(p)' = [age \in Ring |-> IF age = 0 THEN 0 ELSE ByAge(p)[age - 1]]
             /\ SpeedOf(p)' = Sum(ByAge(p))
  <2>1. /\ SlotsOf(p) = bytes[p] /\ bytes[p] \in [Ring -> 0 .. SlotBound]
        /\ SlotsOf(p)' = [bytes[p] EXCEPT ![next] = 0]
    BY <1>1, <1>3, <1>4 DEF SlotsOf, Reset, IInv, TypeOK
  <2>2. ByAge(p)' = [age \in Ring |-> IF age = 0 THEN 0 ELSE ByAge(p)[age - 1]]
    <3>1. SlotsOf(p)'[SlotOfAge(0)'] = 0
      BY <1>2, <2>1
    <3>2. ASSUME NEW age \in Ring \ {0}
          PROVE  SlotsOf(p)'[SlotOfAge(age)'] = ByAge(p)[age - 1]
      <4>1. SlotsOf(p)'[SlotOfAge(age)'] = bytes[p][SlotOfAge(age)']
        BY <1>2, <2>1
      <4>2. ByAge(p)[age - 1] = bytes[p][SlotOfAge(age - 1)]
        BY <1>2, <2>1 DEF ByAge
      <4> QED  BY <1>2, <4>1, <4>2
    <3>3. ByAge(p)' = [age \in Ring |-> SlotsOf(p)'[SlotOfAge(age)']]
      BY DEF ByAge
    <3> QED  BY <3>1, <3>2, <3>3
  <2>3. SpeedOf(p)' = Sum(bytes[p])
    BY <1>1, <1>4 DEF SpeedOf, Total, Sum
  <2>4. Sum(ByAge(p)) = Sum(bytes[p])
    <3> DEFINE f == [age \in Ring |-> SlotOfAge(age)]
    <3>1. f \in Injection(Ring, Ring)
      BY <1>2 DEF Injection, IsInjective
    <3>2. ByAge(p) = [age \in Ring |-> bytes[p][SlotOfAge(age)]]
      BY <2>1 DEF ByAge
    <3>3. \A age \in Ring : ByAge(p)[age] = bytes[p][f[age]]
      BY <3>2
    <3>4. bytes[p] \in [Ring -> Nat] /\ ByAge(p) \in [Ring -> Nat]
      <4>1. bytes[p] \in [Ring -> Nat]
        BY <2>1
      <4>2. \A age \in Ring : bytes[p][SlotOfAge(age)] \in Nat
        BY <1>2, <4>1
      <4> QED  BY <3>2, <4>1, <4>2
    <3> HIDE DEF f
    <3> QED  BY <3>1, <3>3, <3>4, RingIsFinite, SumReordered
  <2> QED  BY <2>2, <2>3, <2>4
<1> DEFINE W == [p \in Peers |-> ByAge(p)]
<1>7. [p \in Peers |-> ByAge(p)']
         = [p \in Peers |-> IF p \in gone THEN Window!Nothing
                            ELSE [age \in Window!Ages |->
                                     IF age = 0 THEN 0 ELSE W[p][age - 1]]]
  <2>1. \A p \in Peers \ Kept : ByAge(p)' = Window!Nothing
    BY <1>5, WindowIs
  <2>2. ASSUME NEW p \in Kept
        PROVE  ByAge(p)' = [age \in Window!Ages |-> IF age = 0 THEN 0 ELSE W[p][age - 1]]
    <3>1. W[p] = ByAge(p)
      BY <1>3
    <3> HIDE DEF W
    <3> QED  BY <1>6, <3>1, WindowIs
  <2> HIDE DEF W
  <2> QED  BY <1>3, <2>1, <2>2
<1>8. [p \in Peers |-> SpeedOf(p)']
         = [p \in Peers |-> IF p \in gone THEN 0
                            ELSE Window!FoldFunction(+, 0, W[p])]
  <2>1. \A p \in Peers : Window!FoldFunction(+, 0, W[p]) = Sum(ByAge(p))
    BY WindowIs
  <2> QED  BY <1>5, <1>6, <2>1
<1> QED  BY <1>7, <1>8 DEF Window!EndInterval, ByAge, SpeedOf

\* The ring buffer is a window that slides: the speed of a peer is what came from it
\* in the last Slots whole intervals, for every size of the ring, however the index
\* wraps around and peers are forgotten and come back (sha1.cpp 199-227, 456).
THEOREM ImplementsWindow == Spec => WindowSpec
<1>1. Init => Window!Init
  BY WindowInit
<1>2. IInv /\ [Next]_vars => [Window!Next]_(Window!view)
  <2> SUFFICES ASSUME IInv, [Next]_vars PROVE [Window!Next]_(Window!view)
    OBVIOUS
  <2>1. ASSUME UNCHANGED <<bytes, index, speed>> PROVE UNCHANGED Window!view
    BY <2>1 DEF Window!view, SlotsOf, SlotOfAge
  <2>2. ASSUME NEW p \in Peers, NEW n \in BlockSizes, ReceiveData(p, n)
        PROVE  Window!Next
    <3>1. Window!Receive(p, n)
      BY <2>2, WindowReceive
    <3> QED  BY <3>1 DEF Window!Next
  <2>3. CASE Measure
    <3>1. PICK gone \in SUBSET Peers : gone = Peers \ Kept
      OBVIOUS
    <3>2. Window!EndInterval(gone)
      BY <2>3, <3>1, WindowMeasure
    <3> QED  BY <3>2 DEF Window!Next
  <2>4. ASSUME NEW delta \in Deltas, Iterate(delta)
        PROVE  Measure \/ UNCHANGED <<bytes, index, speed>>
    BY <2>4 DEF Iterate
  <2>5. ASSUME NEW p \in Peers, NEW l \in {"none", "tcp", "udp"}, ChangeLink(p, l)
        PROVE  UNCHANGED <<bytes, index, speed>>
    BY <2>5 DEF ChangeLink, measured
  <2>6. CASE UNCHANGED vars
    BY <2>1, <2>6 DEF vars, measured
  <2> QED  BY <2>1, <2>2, <2>3, <2>4, <2>5, <2>6 DEF Next
<1> QED  BY <1>1, <1>2, Invariance, PTL DEF Spec, WindowSpec, Window!Spec
==============================================================================
