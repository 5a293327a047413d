\* Two peers, a ring of four slots, speeds below, within and above the weights.
SPECIFICATION LiveSpec
CONSTANTS
    p1 = p1
    p2 = p2
    Peers = {p1, p2}
    Slots = 4
    Interval = 2
    Deltas = {1, 3}
    UdpOnly = FALSE
    MinWeight = 3
    MaxWeight = 5
    BlockSizes = {2}
    SlotBound = 2
INVARIANTS TypeOK EveryTargetAsked
PROPERTIES SilentForgotten WindowSpec
