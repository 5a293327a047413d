\* Two chunks and a hash of another file, one peer, one slot for downloads and two
\* for uploads; FT1 gives an idle transfer up after thirty seconds, its default.
SPECIFICATION Spec
CONSTANTS
    a = a
    b = b
    c = c
    p1 = p1
    NumChunks = 2
    Hashes = {a, b, c}
    HashOf <- Distinct
    BlocksPerChunk = 2
    LastBlocks = 1
    Peers = {p1}
    InIds = {0}
    OutIds = {0}
    MaxIn = 1
    MaxOut = 2
    Deltas = {0, 1}
    TransferTimeout = 2
    RequestTimeout = 3
    QueueTimeout = 2
    GiveUp = 6
    InfoBlocks = 1
    TokenBound = 3
    AskBound = 1
INVARIANTS HandsOutVerified
PROPERTIES UploadSpec
