\* Two workers and the capture thread race to create the queue.
SPECIFICATION Spec
CONSTANTS
    w1 = w1
    w2 = w2
    o1 = o1
    o2 = o2
    o3 = o3
    Capture = Capture
    NULL = NULL
    Workers = {w1, w2}
    Objects = {o1, o2, o3}
    MaxFrames = 3
INVARIANT TypeOK
PROPERTIES StaysSettled SurvivorServed
CHECK_DEADLOCK FALSE
