\* One chunk, two peers of which one may stay away for good, one slot.
SPECIFICATION LiveSpec
CONSTANTS
    a = a
    b = b
    c = c
    p1 = p1
    p2 = p2
    NumChunks = 1
    Hashes = {a}
    HashOf <- Single
    BlocksPerChunk = 2
    LastBlocks = 2
    Peers = {p1, p2}
    TransferIds = {0}
    MaxOut = 1
    Deltas = {1}
    TransferTimeout = 2
    QueueTimeout = 2
    GiveUp = 6
    InfoBlocks = 1
PROPERTIES StayingPeerServed
