------------------------------ MODULE ToxClient ------------------------------
(***************************************************************************)
(* ToxClient (src/src/tox_client.cpp), without the state object it runs:   *)
(* the groups and peers it knows, the group it is told to join, the rejoin *)
(* timer, and the profile file, written when something has changed.        *)
(*                                                                         *)
(* Each callback of toxcore is an action; the rest of ToxClient::iterate,  *)
(* which comes after them, is EndOfStep.  The program may be killed at any *)
(* point, also while it writes the profile, and is started again by hand,  *)
(* with the profile (option -F) and with or without a group to join (-G).  *)
(*                                                                         *)
(* A group is named by its chat; the number toxcore gives it is left out.  *)
(* Time advances in EndOfStep, in units of two minutes.                    *)
(***************************************************************************)
EXTENDS Integers

CONSTANTS
    Groups,          \* the chats there are
    NoGroup,         \* the group number of a failed invite, UINT32_MAX
    ChatGroup,       \* the chat named by option -G
    Peers,           \* their members
    Friends,         \* those who may send a friend request
    Deltas,          \* time units that may pass between two steps
    FirstRejoin,     \* 4 minutes: the rejoin timer's value at the start
    RejoinInterval   \* 6 minutes between two rounds

ASSUME ToxClientAssumption ==
    /\ NoGroup \notin Groups
    /\ ChatGroup \in Groups
    /\ Deltas \subseteq Nat
    /\ FirstRejoin \in 1 .. RejoinInterval
    /\ RejoinInterval \in Nat

VARIABLES
    phase,        \* "stopped", "running", or "threw" at the start
    toJoin,       \* _join_group_after_dht_connect is not empty
    groups,       \* _groups: group -> the peers known in it
    dirty,        \* _tox_profile_dirty
    rejoinIn,     \* _rejoin_group_timer
    tox,          \* what toxcore would save: its groups and friends
    present,      \* the peers toxcore has announced in each group
    linked,       \* the groups tox_group_is_connected holds of
    reconnected,  \* the groups tox_group_reconnect was called for in the last step
    disk          \* the profile file

client  == <<toJoin, groups, dirty, rejoinIn>>
toxcore == <<tox, present, linked>>
vars    == <<phase, client, toxcore, reconnected, disk>>

Nothing == [groups |-> {}, friends |-> {}]

File(state, content) == [state |-> state, content |-> content]

Init ==
    /\ phase = "stopped" /\ disk = File("none", Nothing)
    /\ toJoin = FALSE /\ groups = <<>> /\ dirty = FALSE /\ rejoinIn = FirstRejoin
    /\ tox = Nothing /\ present = [g \in Groups |-> {}] /\ linked = {}
    /\ reconnected = {}
-----------------------------------------------------------------------------
(* Start and end.                                                          *)

\* Faulty: the profile is not read.
LoadedNothing == Nothing

\* A missing or empty profile is a new one.
Loaded == IF disk.state = "complete" THEN disk.content ELSE Nothing

\* The constructor.  toxcore refuses a profile that is cut off.
Start ==
    /\ phase # "running"
    /\ \/ /\ disk.state = "cut"
          /\ phase' = "threw"
          /\ UNCHANGED <<client, toxcore, reconnected>>
       \/ /\ disk.state # "cut"
          /\ phase' = "running"
          /\ toJoin' \in BOOLEAN
          /\ groups' = <<>> /\ dirty' = TRUE /\ rejoinIn' = FirstRejoin
          /\ tox' = Loaded
          /\ present' = [g \in Groups |-> {}]
          /\ linked' = tox'.groups
          /\ UNCHANGED reconnected
    /\ UNCHANGED disk

\* The program is gone, and its memory with it.
Stop ==
    /\ phase = "running"
    /\ phase' = "stopped"
    /\ toJoin' = FALSE /\ groups' = <<>> /\ dirty' = FALSE /\ rejoinIn' = FirstRejoin
    /\ tox' = Nothing /\ present' = [g \in Groups |-> {}] /\ linked' = {}
    /\ reconnected' = {}

\* Killed.
Crash ==
    /\ Stop
    /\ UNCHANGED disk

\* Killed while saveToxProfile, which empties the file first, writes it.
CrashInSave ==
    /\ dirty
    /\ Stop
    /\ \E state \in {"empty", "cut"} : disk' = File(state, Nothing)
-----------------------------------------------------------------------------
(* Callbacks of toxcore.                                                   *)

Known(g) == IF g \in DOMAIN groups THEN groups[g] ELSE {}

\* _groups with the peers of g replaced; g is inserted when it is not there.
Put(g, peers) ==
    [x \in DOMAIN groups \cup {g} |-> IF x = g THEN peers ELSE groups[x]]

Joined(g) ==
    /\ tox' = [tox EXCEPT !.groups = @ \cup {g}]
    /\ linked' = linked \cup {g}
    /\ groups' = Put(g, {})
    /\ UNCHANGED present

\* onToxSelfConnectionStatus: once online, the group is joined.  toxcore fails to
\* join a group it has already, and may fail otherwise; it is not tried again.
SelfConnectionStatus(online) ==
    /\ phase = "running"
    /\ dirty' = TRUE
    /\ toJoin' = (toJoin /\ ~online)
    /\ \/ /\ online /\ toJoin /\ ChatGroup \notin tox.groups
          /\ Joined(ChatGroup)
       \/ UNCHANGED <<groups, toxcore>>
    /\ UNCHANGED <<phase, rejoinIn, reconnected, disk>>

\* Faulty: the profile is not marked.
FriendRequestUnsaved(f) ==
    /\ phase = "running"
    /\ tox' = [tox EXCEPT !.friends = @ \cup {f}]
    /\ UNCHANGED <<phase, client, present, linked, reconnected, disk>>

\* onToxFriendRequest
FriendRequest(f) ==
    /\ phase = "running"
    /\ tox' = [tox EXCEPT !.friends = @ \cup {f}]
    /\ dirty' = TRUE
    /\ UNCHANGED <<phase, toJoin, groups, rejoinIn, present, linked, reconnected, disk>>

\* onToxGroupInvite: every invite is accepted.  toxcore fails to accept one to a
\* group it has already, and may fail otherwise; the result is used all the same.
GroupInvite(g) ==
    /\ phase = "running"
    /\ \/ g \notin tox.groups /\ Joined(g)
       \/ groups' = Put(NoGroup, {}) /\ UNCHANGED toxcore
    /\ dirty' = TRUE
    /\ UNCHANGED <<phase, toJoin, rejoinIn, reconnected, disk>>

\* onToxGroupPeerJoin
GroupPeerJoin(g, p) ==
    /\ phase = "running"
    /\ g \in tox.groups /\ p \notin present[g]
    /\ present' = [present EXCEPT ![g] = @ \cup {p}]
    /\ groups' = Put(g, Known(g) \cup {p})
    /\ dirty' = TRUE
    /\ UNCHANGED <<phase, toJoin, rejoinIn, tox, linked, reconnected, disk>>

\* onToxGroupPeerName, which inserts a peer that is not there
GroupPeerName(g, p) ==
    /\ phase = "running"
    /\ p \in present[g]
    /\ groups' = Put(g, Known(g) \cup {p})
    /\ UNCHANGED <<phase, toJoin, dirty, rejoinIn, toxcore, reconnected, disk>>

\* Faulty: the peer stays among the known ones.
GroupPeerExitKept(g, p) ==
    /\ phase = "running"
    /\ p \in present[g]
    /\ present' = [present EXCEPT ![g] = @ \ {p}]
    /\ dirty' = TRUE
    /\ UNCHANGED <<phase, toJoin, groups, rejoinIn, tox, linked, reconnected, disk>>

\* onToxGroupPeerExit
GroupPeerExit(g, p) ==
    /\ phase = "running"
    /\ p \in present[g]
    /\ present' = [present EXCEPT ![g] = @ \ {p}]
    /\ groups' = Put(g, Known(g) \ {p})
    /\ dirty' = TRUE
    /\ UNCHANGED <<phase, toJoin, rejoinIn, tox, linked, reconnected, disk>>

\* onToxGroupSelfJoin
GroupSelfJoin(g) ==
    /\ phase = "running" /\ g \in tox.groups
    /\ dirty' = TRUE
    /\ UNCHANGED <<phase, toJoin, groups, rejoinIn, toxcore, reconnected, disk>>

\* toxcore loses a group or finds it again; it has no callback for that.
ChangeLink(g) ==
    /\ phase = "running" /\ g \in tox.groups
    /\ linked' = IF g \in linked THEN linked \ {g} ELSE linked \cup {g}
    /\ UNCHANGED <<phase, client, tox, present, reconnected, disk>>
-----------------------------------------------------------------------------
(* The rest of iterate().                                                  *)

\* Faulty: the timer runs one step of time longer.
DueLate(timer) == timer < 0

Due(timer) == timer <= 0

\* Faulty: the negation is missing.
LonelyUnlinked(g) == g \notin linked /\ groups[g] = {}

\* "never seen another peer", and connected or trying to connect
Lonely(g) == g \in linked /\ groups[g] = {}

\* The rejoin timer, then the profile is saved if something has changed.
EndOfStep(delta) ==
    /\ phase = "running"
    /\ \/ /\ Due(rejoinIn - delta)
          /\ rejoinIn' = RejoinInterval
          /\ reconnected' = {g \in DOMAIN groups : Lonely(g)}
       \/ /\ ~Due(rejoinIn - delta)
          /\ rejoinIn' = rejoinIn - delta
          /\ reconnected' = {}
    /\ dirty' = FALSE
    /\ disk' = IF dirty THEN File("complete", tox) ELSE disk
    /\ UNCHANGED <<phase, toJoin, groups, toxcore>>

Next ==
    \/ Start \/ Crash \/ CrashInSave
    \/ \E online \in BOOLEAN : SelfConnectionStatus(online)
    \/ \E f \in Friends : FriendRequest(f)
    \/ \E g \in Groups : GroupInvite(g) \/ GroupSelfJoin(g) \/ ChangeLink(g)
    \/ \E g \in Groups, p \in Peers :
          GroupPeerJoin(g, p) \/ GroupPeerName(g, p) \/ GroupPeerExit(g, p)
    \/ \E delta \in Deltas : EndOfStep(delta)

Spec == Init /\ [][Next]_vars
-----------------------------------------------------------------------------
(* Properties.                                                             *)

Contents == [groups : SUBSET Groups, friends : SUBSET Friends]

\* Groups are known or the failed invite's; the rejoin timer never stays at its end.
TypeOK ==
    /\ phase \in {"stopped", "running", "threw"}
    /\ toJoin \in BOOLEAN /\ dirty \in BOOLEAN
    /\ DOMAIN groups \subseteq Groups \cup {NoGroup}
    /\ \A g \in DOMAIN groups : groups[g] \subseteq Peers
    /\ rejoinIn \in 1 .. RejoinInterval
    /\ tox \in Contents
    /\ present \in [Groups -> SUBSET Peers]
    /\ linked \subseteq tox.groups
    /\ reconnected \subseteq DOMAIN groups
    /\ disk \in [state : {"none", "empty", "cut", "complete"}, content : Contents]

\* The peers the states ask and offer to are those that are in the groups: joining
\* by chat, by invite and from the profile, names and exits keep _groups right
\* (tox_client.cpp 279-284, 299-302, 322-356).
PeersKnown == \A g \in Groups : Known(g) = present[g]

\* When nothing is marked as changed the profile is complete and up to date: every
\* callback that changes what is saved marks it (tox_client.cpp 188, 234-236, 288-363).
DiskFollows == phase = "running" /\ ~dirty => disk = File("complete", tox)

\* Whatever a step does, and a start or a kill between two saves is one, the profile
\* file holds every group and friend it held before, unless the step is a kill in the
\* middle of saving (tox_client.cpp 45-79, 234-236).  Such a kill loses all of it: the
\* file is emptied first (404-409); left empty it is taken as a new profile, and left
\* cut it is refused.
LostOnlyInSave ==
    [][\/ disk'.state \in {"empty", "cut"}
       \/ /\ disk.content.groups \subseteq disk'.content.groups
          /\ disk.content.friends \subseteq disk'.content.friends]_vars

\* The main loop runs and time passes.
Fairness == WF_vars(\E delta \in Deltas \ {0} : EndOfStep(delta))

LiveSpec == Spec /\ Fairness

\* A group in _groups that stays empty and connected is reconnected again and
\* again (tox_client.cpp 215-232).
KnownGroupReconnected ==
    \A g \in Groups :
        phase = "running" /\ g \in DOMAIN groups /\ groups[g] = {} /\ g \in linked
            ~> phase # "running" \/ g \in reconnected \/ Known(g) # {} \/ g \notin linked
=============================================================================
