\* config.ini says that with useNullPkg = 0 empty packets are thrown away.
SPECIFICATION PathSpec
CONSTANTS
    Frames <- MCFrames
    WordMod = 65536
    Address = {1, 2, 3, 4, 5, 6, 7}
    MaxPackets = 1
    Free = Free
    NULL = NULL
INVARIANT EmptyDiscarded
CHECK_DEADLOCK FALSE
