\* Every pair of frames of the set, one after the other.
SPECIFICATION PathSpec
CONSTANTS
    Frames <- MCFrames
    WordMod = 65536
    Address = {1, 2, 3, 4, 5, 6, 7}
    MaxPackets = 2
    Free = Free
    NULL = NULL
INVARIANTS ContentInside UserDataKept PlainContentExact UserDataForwarded
           OneOwnerPerBuffer OfOneFrame
CHECK_DEADLOCK FALSE
