\* Three different chunks, one peer that has all, 2 chunks at a time: up to two
\* entries too many, which is as many as there are slots.
SPECIFICATION LiveSpec
CONSTANTS
    a = a
    b = b
    c = c
    p1 = p1
    NumChunks = 3
    Hashes = {a, b, c}
    HashOf <- ThreeChunks
    BlocksPerChunk = 1
    LastBlocks = 1
    Peers = {p1}
    TransferIds = {0}
    MaxIn = 2
    Deltas = {1}
    TransferTimeout = 2
    RequestTimeout = 3
    TokenBound = 4
    AskBound = 1
INVARIANTS NeverStalls StartsUp
PROPERTIES CompletesUnlessStarved
