\* Two workers, a ring of two slots, an output queue of two packets.
SPECIFICATION Spec
CONSTANTS
    w1 = w1
    w2 = w2
    a1 = a1
    a2 = a2
    a3 = a3
    a4 = a4
    Capture = Capture
    Output = Output
    WordMod = 16
    NULL = NULL
    Nobody = Nobody
    NoFrame = NoFrame
    Workers = {w1, w2}
    Address = {a1, a2, a3, a4}
    MaxFrames = 4
    Traffic = {"notIp", "noContent", "content"}
    TASK_QUEUE_LEN = 2
    MaxSize = 2
    UseNullPkg = FALSE
SYMMETRY Symmetry
INVARIANTS OneOwner EveryFrameOnce
PROPERTY OvertakenByWorkersOnly
CHECK_DEADLOCK FALSE
