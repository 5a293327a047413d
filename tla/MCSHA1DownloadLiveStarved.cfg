\* Two different chunks, one peer that has both, 1 chunk at a time.
SPECIFICATION LiveSpec
CONSTANTS
    a = a
    b = b
    c = c
    p1 = p1
    NumChunks = 2
    Hashes = {a, b}
    HashOf <- TwoChunks
    BlocksPerChunk = 2
    LastBlocks = 1
    Peers = {p1}
    TransferIds = {0, 1}
    MaxIn = 1
    Deltas = {1}
    TransferTimeout = 2
    RequestTimeout = 3
    TokenBound = 3
    AskBound = 1
PROPERTIES Completes
