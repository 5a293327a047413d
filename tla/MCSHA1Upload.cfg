\* One chunk, two peers, two slots; FT1 gives an idle transfer up after thirty seconds,
\* its default, and the program after ten.
SPECIFICATION LiveSpec
CONSTANTS
    a = a
    b = b
    c = c
    p1 = p1
    p2 = p2
    NumChunks = 1
    Hashes = {a}
    HashOf <- Single
    BlocksPerChunk = 2
    LastBlocks = 2
    Peers = {p1, p2}
    TransferIds = {0}
    MaxOut = 2
    Deltas = {0, 1}
    TransferTimeout = 2
    QueueTimeout = 2
    GiveUp = 6
    InfoBlocks = 2
INVARIANTS TypeOK OneInfoPerPeer OnePlaceInQueue
PROPERTIES InfoServed
