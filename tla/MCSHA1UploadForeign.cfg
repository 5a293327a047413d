\* Two chunks; a peer of the group asks for a chunk of another file.
SPECIFICATION Spec
CONSTANTS
    a = a
    b = b
    c = c
    p1 = p1
    p2 = p2
    NumChunks = 2
    Hashes = {a, b, c}
    HashOf <- Distinct
    BlocksPerChunk = 2
    LastBlocks = 1
    Peers = {p1}
    TransferIds = {0, 1, 2}
    MaxOut = 2
    Deltas = {0, 1}
    TransferTimeout = 2
    QueueTimeout = 2
    GiveUp = 6
    InfoBlocks = 1
INVARIANTS KeepsRunning
