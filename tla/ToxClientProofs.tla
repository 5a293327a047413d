--------------------------- MODULE ToxClientProofs ---------------------------
(***************************************************************************)
(* Proofs about ToxClient, for all groups, peers and friends, and for all  *)
(* intervals of the rejoin timer.                                          *)
(***************************************************************************)
EXTENDS ToxClient, TLAPS
-----------------------------------------------------------------------------
(* The inductive invariant.                                                *)

\* toxcore announces peers only of groups it has: a group that is joined anew
\* starts without any.
PresentInGroups == \A g \in Groups : present[g] # {} => g \in tox.groups

\* What a running program would save is at least what the profile file holds: it has
\* started with it and leaves no group and no friend.  A file that is not complete
\* holds nothing.
DiskBehind ==
    /\ phase = "running" =>
        /\ disk.content.groups \subseteq tox.groups
        /\ disk.content.friends \subseteq tox.friends
    /\ disk.state # "complete" => disk.content = Nothing

\* A program that does not run reconnects no group.
Quiet == phase # "running" => reconnected = {}

IInv ==
    /\ TypeOK
    /\ Quiet
    /\ PeersKnown
    /\ PresentInGroups
    /\ DiskFollows
    /\ DiskBehind

LEMMA InitInv == Init => IInv
<1> SUFFICES ASSUME Init PROVE IInv
  OBVIOUS
<1> USE ToxClientAssumption DEF Init, Nothing, File
<1>1. DOMAIN groups = {}
  OBVIOUS
<1>2. TypeOK
  BY <1>1 DEF TypeOK, Contents
<1>3. PeersKnown
  BY <1>1 DEF PeersKnown, Known
<1> QED  BY <1>2, <1>3 DEF IInv, Quiet, PresentInGroups, DiskFollows, DiskBehind

\* _groups after a group's peers are replaced.
LEMMA PutFacts ==
    ASSUME NEW g, NEW peers, groups' = Put(g, peers)
    PROVE  /\ DOMAIN groups' = DOMAIN groups \cup {g}
           /\ groups'[g] = peers
           /\ \A x \in DOMAIN groups : x # g => groups'[x] = groups[x]
           /\ Known(g)' = peers
           /\ \A x : x # g => Known(x)' = Known(x)
BY DEF Put, Known

\* It stays a map from groups to sets of members, and no group leaves it.
LEMMA PutTyped ==
    ASSUME TypeOK, NEW g \in Groups \cup {NoGroup}, NEW peers \in SUBSET Peers,
           groups' = Put(g, peers)
    PROVE  /\ DOMAIN groups' \subseteq Groups \cup {NoGroup}
           /\ \A x \in DOMAIN groups' : groups'[x] \subseteq Peers
           /\ reconnected \subseteq DOMAIN groups'
<1>1. DOMAIN groups' = DOMAIN groups \cup {g}
  BY PutFacts
<1>2. ASSUME NEW x \in DOMAIN groups' PROVE groups'[x] \subseteq Peers
  <2>1. CASE x = g
    BY <2>1, PutFacts
  <2>2. CASE x # g
    BY <1>1, <1>2, <2>2, PutFacts DEF TypeOK
  <2> QED  BY <2>1, <2>2
<1> QED  BY <1>1, <1>2 DEF TypeOK
-----------------------------------------------------------------------------
(* Start and end.                                                          *)

LEMMA StartInv == ASSUME IInv, Start PROVE IInv'
<1> USE DEF IInv
<1>1. CASE disk.state = "cut"
  <2>1. /\ phase # "running" /\ phase' = "threw"
        /\ UNCHANGED <<client, toxcore, reconnected, disk>>
    BY <1>1 DEF Start
  <2> USE <2>1 DEF client, toxcore
  <2>2. TypeOK'
    BY DEF TypeOK, Contents
  <2>3. PeersKnown'
    BY DEF PeersKnown, Known
  <2> QED  BY <2>2, <2>3 DEF Quiet, PresentInGroups, DiskFollows, DiskBehind
<1>2. CASE disk.state # "cut"
  <2>1. /\ phase' = "running" /\ toJoin' \in BOOLEAN
        /\ groups' = <<>> /\ dirty' = TRUE /\ rejoinIn' = FirstRejoin
        /\ tox' = Loaded
        /\ present' = [g \in Groups |-> {}]
        /\ linked' = tox'.groups
        /\ UNCHANGED <<reconnected, disk>>
        /\ phase # "running"
    BY <1>2 DEF Start
  <2>2. tox' \in Contents
    BY <2>1 DEF TypeOK, Loaded, Nothing, Contents
  <2>3. DOMAIN groups' = {}
    BY <2>1
  <2>4. TypeOK'
    BY <2>1, <2>2, <2>3, ToxClientAssumption DEF TypeOK, Quiet
  <2>5. PeersKnown'
    BY <2>1, <2>3 DEF PeersKnown, Known
  <2>6. DiskBehind'
    BY <2>1 DEF DiskBehind, Loaded
  <2> QED  BY <2>1, <2>4, <2>5, <2>6 DEF Quiet, PresentInGroups, DiskFollows
<1> QED  BY <1>1, <1>2

\* Once the program is gone nothing is known, and the profile is what it is.
LEMMA StopInv ==
    ASSUME IInv, Stop,
           disk' \in [state : {"none", "empty", "cut", "complete"}, content : Contents],
           disk'.state # "complete" => disk'.content = Nothing
    PROVE  IInv'
<1> USE DEF IInv
<1>1. /\ phase' = "stopped"
      /\ toJoin' = FALSE /\ groups' = <<>> /\ dirty' = FALSE /\ rejoinIn' = FirstRejoin
      /\ tox' = Nothing /\ present' = [g \in Groups |-> {}] /\ linked' = {}
      /\ reconnected' = {}
  BY DEF Stop
<1>2. DOMAIN groups' = {}
  BY <1>1
<1>3. TypeOK'
  BY <1>1, <1>2, ToxClientAssumption DEF TypeOK, Nothing, Contents
<1>4. PeersKnown'
  BY <1>1, <1>2 DEF PeersKnown, Known
<1> QED  BY <1>1, <1>3, <1>4 DEF Quiet, PresentInGroups, DiskFollows, DiskBehind

LEMMA CrashInv == ASSUME IInv, Crash PROVE IInv'
BY StopInv DEF IInv, TypeOK, DiskBehind, Crash

LEMMA CrashInSaveInv == ASSUME IInv, CrashInSave PROVE IInv'
<1>1. disk' \in [state : {"none", "empty", "cut", "complete"}, content : Contents]
  BY DEF CrashInSave, File, Nothing, Contents
<1>2. disk'.content = Nothing
  BY DEF CrashInSave, File
<1> QED  BY <1>1, <1>2, StopInv DEF CrashInSave
-----------------------------------------------------------------------------
(* Callbacks of toxcore.                                                   *)

\* A group that is joined is new to toxcore, and empty.
LEMMA JoinedInv ==
    ASSUME IInv, phase = "running", NEW g \in Groups \ tox.groups, Joined(g), dirty' = TRUE,
           toJoin' \in BOOLEAN, UNCHANGED <<phase, rejoinIn, reconnected, disk>>
    PROVE  IInv'
<1> USE DEF IInv
<1>1. /\ tox' = [tox EXCEPT !.groups = @ \cup {g}]
      /\ linked' = linked \cup {g} /\ groups' = Put(g, {}) /\ present' = present
  BY DEF Joined
<1>2. tox' \in Contents /\ tox'.groups = tox.groups \cup {g} /\ tox'.friends = tox.friends
  BY <1>1 DEF TypeOK, Contents
<1>3. TypeOK'
  <2>1. linked' \subseteq tox'.groups
    BY <1>1, <1>2 DEF TypeOK
  <2> QED  BY <1>1, <1>2, <2>1, PutTyped DEF TypeOK
<1>4. present[g] = {}
  BY DEF PresentInGroups
<1>5. PeersKnown'
  BY <1>1, <1>4, PutFacts DEF PeersKnown
<1> QED
  BY <1>1, <1>2, <1>3, <1>5 DEF Quiet, PresentInGroups, DiskFollows, DiskBehind

LEMMA SelfConnectionStatusInv ==
    ASSUME IInv, NEW online \in BOOLEAN, SelfConnectionStatus(online)
    PROVE  IInv'
<1> USE DEF IInv
<1>1. /\ phase = "running" /\ dirty' = TRUE /\ toJoin' \in BOOLEAN
      /\ UNCHANGED <<phase, rejoinIn, reconnected, disk>>
  BY DEF SelfConnectionStatus, TypeOK
<1>2. CASE ChatGroup \notin tox.groups /\ Joined(ChatGroup)
  BY <1>1, <1>2, JoinedInv, ToxClientAssumption
<1>3. CASE UNCHANGED <<groups, toxcore>>
  <2> USE <1>1, <1>3 DEF toxcore
  <2>1. TypeOK'
    BY DEF TypeOK
  <2>2. PeersKnown'
    BY DEF PeersKnown, Known
  <2> QED  BY <2>1, <2>2 DEF Quiet, PresentInGroups, DiskFollows, DiskBehind
<1> QED  BY <1>2, <1>3 DEF SelfConnectionStatus

LEMMA FriendRequestInv ==
    ASSUME IInv, NEW f \in Friends, FriendRequest(f)
    PROVE  IInv'
<1> USE DEF IInv
<1>1. /\ phase = "running" /\ dirty' = TRUE /\ tox' = [tox EXCEPT !.friends = @ \cup {f}]
      /\ UNCHANGED <<phase, toJoin, groups, rejoinIn, present, linked, reconnected, disk>>
  BY DEF FriendRequest
<1>2. tox' \in Contents /\ tox'.groups = tox.groups /\ tox.friends \subseteq tox'.friends
  BY <1>1 DEF TypeOK, Contents
<1>3. TypeOK'
  BY <1>1, <1>2 DEF TypeOK
<1>4. PeersKnown'
  BY <1>1 DEF PeersKnown, Known
<1> QED
  BY <1>1, <1>2, <1>3, <1>4 DEF Quiet, PresentInGroups, DiskFollows, DiskBehind

LEMMA GroupInviteInv ==
    ASSUME IInv, NEW g \in Groups, GroupInvite(g)
    PROVE  IInv'
<1> USE DEF IInv
<1>1. phase = "running" /\ dirty' = TRUE /\ UNCHANGED <<phase, toJoin, rejoinIn, reconnected, disk>>
  BY DEF GroupInvite
<1>2. CASE g \notin tox.groups /\ Joined(g)
  BY <1>1, <1>2, JoinedInv DEF TypeOK
<1>3. CASE groups' = Put(NoGroup, {}) /\ UNCHANGED toxcore
  <2> USE <1>1, <1>3, ToxClientAssumption DEF toxcore
  <2>1. TypeOK'
    BY PutTyped DEF TypeOK
  <2>2. PeersKnown'
    BY PutFacts DEF PeersKnown
  <2> QED  BY <2>1, <2>2 DEF Quiet, PresentInGroups, DiskFollows, DiskBehind
<1> QED  BY <1>2, <1>3 DEF GroupInvite

\* A peer's callbacks put the peers of one group as toxcore has them now.
LEMMA PeersPutInv ==
    ASSUME IInv, phase = "running", NEW g \in Groups, NEW peers \in SUBSET Peers,
           groups' = Put(g, peers), present' = [present EXCEPT ![g] = peers],
           peers # {} => g \in tox.groups,
           dirty' = TRUE \/ dirty' = dirty,
           UNCHANGED <<phase, toJoin, rejoinIn, tox, linked, reconnected, disk>>
    PROVE  IInv'
<1> USE DEF IInv
<1>1. present' \in [Groups -> SUBSET Peers] /\ present'[g] = peers
      /\ \A x \in Groups : x # g => present'[x] = present[x]
  BY DEF TypeOK
<1>2. TypeOK'
  BY <1>1, PutTyped DEF TypeOK
<1>3. PeersKnown'
  BY <1>1, PutFacts DEF PeersKnown
<1>4. PresentInGroups'
  BY <1>1 DEF PresentInGroups
<1> QED  BY <1>2, <1>3, <1>4 DEF Quiet, DiskFollows, DiskBehind

LEMMA GroupPeerJoinInv ==
    ASSUME IInv, NEW g \in Groups, NEW p \in Peers, GroupPeerJoin(g, p)
    PROVE  IInv'
<1>1. Known(g) = present[g] /\ present[g] \subseteq Peers /\ g \in tox.groups
  BY DEF IInv, PeersKnown, TypeOK, GroupPeerJoin
<1> QED  BY <1>1, PeersPutInv DEF GroupPeerJoin

LEMMA GroupPeerNameInv ==
    ASSUME IInv, NEW g \in Groups, NEW p \in Peers, GroupPeerName(g, p)
    PROVE  IInv'
<1>1. /\ Known(g) = present[g] /\ present[g] \subseteq Peers /\ p \in present[g]
      /\ g \in tox.groups
  BY DEF IInv, PeersKnown, PresentInGroups, TypeOK, GroupPeerName
<1>2. present' = [present EXCEPT ![g] = Known(g) \cup {p}]
  BY <1>1 DEF GroupPeerName, toxcore, IInv, TypeOK
<1> QED  BY <1>1, <1>2, PeersPutInv DEF GroupPeerName, toxcore

LEMMA GroupPeerExitInv ==
    ASSUME IInv, NEW g \in Groups, NEW p \in Peers, GroupPeerExit(g, p)
    PROVE  IInv'
<1>1. Known(g) = present[g] /\ present[g] \subseteq Peers /\ g \in tox.groups
  BY DEF IInv, PeersKnown, PresentInGroups, TypeOK, GroupPeerExit
<1> QED  BY <1>1, PeersPutInv DEF GroupPeerExit

LEMMA GroupSelfJoinInv ==
    ASSUME IInv, NEW g \in Groups, GroupSelfJoin(g)
    PROVE  IInv'
<1> USE DEF IInv, GroupSelfJoin, toxcore
<1>1. TypeOK'
  BY DEF TypeOK
<1>2. PeersKnown'
  BY DEF PeersKnown, Known
<1> QED  BY <1>1, <1>2 DEF Quiet, PresentInGroups, DiskFollows, DiskBehind

LEMMA ChangeLinkInv ==
    ASSUME IInv, NEW g \in Groups, ChangeLink(g)
    PROVE  IInv'
<1> USE DEF IInv, ChangeLink, client
<1>1. TypeOK'
  BY DEF TypeOK
<1>2. PeersKnown'
  BY DEF PeersKnown, Known
<1> QED  BY <1>1, <1>2 DEF Quiet, PresentInGroups, DiskFollows, DiskBehind
-----------------------------------------------------------------------------
(* The rest of iterate().                                                  *)

LEMMA EndOfStepInv ==
    ASSUME IInv, NEW delta \in Deltas, EndOfStep(delta)
    PROVE  IInv'
<1> USE DEF IInv
<1>1. /\ phase = "running" /\ dirty' = FALSE
      /\ disk' = IF dirty THEN File("complete", tox) ELSE disk
      /\ UNCHANGED <<phase, toJoin, groups, tox, present, linked>>
  BY DEF EndOfStep, toxcore
<1>2. rejoinIn' \in 1 .. RejoinInterval /\ reconnected' \subseteq DOMAIN groups
  <2>1. CASE Due(rejoinIn - delta)
    BY <2>1, ToxClientAssumption DEF EndOfStep
  <2>2. CASE ~Due(rejoinIn - delta)
    BY <2>2, ToxClientAssumption DEF EndOfStep, Due, TypeOK
  <2> QED  BY <2>1, <2>2
<1>3. TypeOK'
  BY <1>1, <1>2 DEF TypeOK, File
<1>4. PeersKnown'
  BY <1>1 DEF PeersKnown, Known
<1>5. disk' = File("complete", tox)
  BY <1>1 DEF DiskFollows
<1> QED
  BY <1>1, <1>3, <1>4, <1>5 DEF Quiet, PresentInGroups, DiskFollows, DiskBehind, File
-----------------------------------------------------------------------------
(* The theorems.                                                           *)

LEMMA NextInv == IInv /\ [Next]_vars => IInv'
<1> SUFFICES ASSUME IInv, [Next]_vars PROVE IInv'
  OBVIOUS
<1>1. CASE Start
  BY <1>1, StartInv
<1>2. CASE Crash
  BY <1>2, CrashInv
<1>3. CASE CrashInSave
  BY <1>3, CrashInSaveInv
<1>4. CASE \E online \in BOOLEAN : SelfConnectionStatus(online)
  BY <1>4, SelfConnectionStatusInv
<1>5. CASE \E f \in Friends : FriendRequest(f)
  BY <1>5, FriendRequestInv
<1>6. CASE \E g \in Groups : GroupInvite(g) \/ GroupSelfJoin(g) \/ ChangeLink(g)
  BY <1>6, GroupInviteInv, GroupSelfJoinInv, ChangeLinkInv
<1>7. CASE \E g \in Groups, p \in Peers :
              GroupPeerJoin(g, p) \/ GroupPeerName(g, p) \/ GroupPeerExit(g, p)
  BY <1>7, GroupPeerJoinInv, GroupPeerNameInv, GroupPeerExitInv
<1>8. CASE \E delta \in Deltas : EndOfStep(delta)
  BY <1>8, EndOfStepInv
<1>9. CASE UNCHANGED vars
  <2> USE <1>9 DEF vars, client, toxcore, IInv
  <2>1. TypeOK'
    BY DEF TypeOK
  <2>2. PeersKnown'
    BY DEF PeersKnown, Known
  <2> QED  BY <2>1, <2>2 DEF Quiet, PresentInGroups, DiskFollows, DiskBehind
<1> QED  BY <1>1, <1>2, <1>3, <1>4, <1>5, <1>6, <1>7, <1>8, <1>9 DEF Next

\* The parts together are inductive, over any number of runs of the program.
THEOREM Invariance == Spec => []IInv
BY InitInv, NextInv, PTL DEF Spec

\* The state stays well-formed: _groups names groups of toxcore or the failed invite,
\* and the rejoin timer is reset whenever it ends (tox_client.cpp 215-236).
THEOREM TypeCorrect == Spec => []TypeOK
<1>1. IInv => TypeOK
  BY DEF IInv
<1> QED  BY <1>1, Invariance, PTL

\* The known peers of each group are those toxcore has announced in it
\* (tox_client.cpp 279-284, 299-302, 322-356).
THEOREM PeersAreKnown == Spec => []PeersKnown
<1>1. IInv => PeersKnown
  BY DEF IInv
<1> QED  BY <1>1, Invariance, PTL

\* A profile that is not marked as changed is on disk as it is
\* (tox_client.cpp 188, 234-236, 288-363).
THEOREM DiskIsFollowing == Spec => []DiskFollows
<1>1. IInv => DiskFollows
  BY DEF IInv
<1> QED  BY <1>1, Invariance, PTL

\* A step that is not a kill in the middle of saving leaves every group and friend of
\* the profile in it (tox_client.cpp 45-79, 234-236).
THEOREM OnlySavesLose == Spec => LostOnlyInSave
<1> DEFINE Keeps == /\ disk.content.groups \subseteq disk'.content.groups
                    /\ disk.content.friends \subseteq disk'.content.friends
           Torn  == disk'.state \in {"empty", "cut"}
<1>1. IInv /\ [Next]_vars => [Torn \/ Keeps]_vars
  <2> SUFFICES ASSUME IInv, Next PROVE Torn \/ Keeps
    OBVIOUS
  <2>1. CASE disk' = disk
    BY <2>1
  <2>2. CASE CrashInSave
    BY <2>2 DEF CrashInSave, File
  <2>3. CASE \E delta \in Deltas : EndOfStep(delta)
    <3>1. phase = "running" /\ (disk' = disk \/ disk' = File("complete", tox))
      BY <2>3 DEF EndOfStep
    <3> QED  BY <3>1 DEF File, IInv, DiskBehind
  <2> QED  BY <2>1, <2>2, <2>3 DEF Next, Start, Crash, SelfConnectionStatus, FriendRequest,
                 GroupInvite, GroupSelfJoin, ChangeLink, GroupPeerJoin, GroupPeerName,
                 GroupPeerExit
<1> QED  BY <1>1, Invariance, PTL DEF Spec, LostOnlyInSave
=============================================================================
