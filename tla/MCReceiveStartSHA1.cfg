\* Two peers, an info of two blocks.
SPECIFICATION LiveSpec
CONSTANTS
    p1 = p1
    p2 = p2
    Peers = {p1, p2}
    TransferIds = {0, 1}
    InfoBlocks = 2
    Deltas = {0, 1}
    TransferTimeout = 2
    RequestInterval = 3
    FirstRequest = 1
    WrongBound = 2
INVARIANTS TypeOK WritesInside
PROPERTIES VerifiedStays SwitchesOrEnds
