\* The same race; the README says there is one queue.
SPECIFICATION Spec
CONSTANTS
    w1 = w1
    w2 = w2
    o1 = o1
    o2 = o2
    o3 = o3
    Capture = Capture
    NULL = NULL
    Workers = {w1, w2}
    Objects = {o1, o2, o3}
    MaxFrames = 1
INVARIANT SingleQueue
CHECK_DEADLOCK FALSE
