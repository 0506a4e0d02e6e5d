\* One worker, so that the stalled output can back up; the rings hold one packet.
SPECIFICATION FairSpec
CONSTANTS
    w1 = w1
    w2 = w2
    a1 = a1
    a2 = a2
    a3 = a3
    a4 = a4
    Capture = Capture
    Output = Output
    WordMod = 16
    NULL = NULL
    Nobody = Nobody
    NoFrame = NoFrame
    Workers = {w1}
    Address = {a1, a2, a3}
    MaxFrames = 4
    Traffic = {"notIp", "noContent"}
    TASK_QUEUE_LEN = 1
    MaxSize = 1
    UseNullPkg = TRUE
PROPERTIES EveryFrameSettles CaptureGoesOn
CHECK_DEADLOCK FALSE
