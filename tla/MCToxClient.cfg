\* Two groups, one of which is named by -G, two peers and one friend.
SPECIFICATION LiveSpec
CONSTANTS
    g1 = g1
    g2 = g2
    p1 = p1
    p2 = p2
    f1 = f1
    Groups = {g1, g2}
    NoGroup = NoGroup
    ChatGroup = g1
    Peers = {p1, p2}
    Friends = {f1}
    Deltas = {0, 1}
    FirstRejoin = 2
    RejoinInterval = 3
INVARIANTS TypeOK PeersKnown DiskFollows
PROPERTIES LostOnlyInSave KnownGroupReconnected
