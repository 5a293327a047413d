\* As MCSHA1Download: what two chunks with the same hash do.
SPECIFICATION Spec
CONSTANTS
    a = a
    b = b
    c = c
    p1 = p1
    p2 = p2
    NumChunks = 3
    Hashes = {a, b, c}
    HashOf <- Duplicated
    BlocksPerChunk = 2
    LastBlocks = 2
    Peers = {p1, p2}
    TransferIds = {0}
    MaxIn = 2
    Deltas <- AnyStep
    TransferTimeout = 2
    RequestTimeout = 3
    TokenBound = 3
    AskBound = 2
SYMMETRY PeerSymmetry
INVARIANTS NeverStalls
