\* Two handles, a function to register besides ShowAc.
SPECIFICATION MCLifeSpec
CONSTANTS
    Main = Main
    CaptureThread = CaptureThread
    OutThread = OutThread
    Nobody = Nobody
    Loggers = {Main, CaptureThread, OutThread}
    ShowAc = ShowAc
    Functions = {f}
    Later = Later
    NoPacket = NoPacket
    Settings <- MCSettings
    m_strNetName = "known"
    Limits <- MCLimits
    TASK_QUEUE_LEN = 1
    MaxSize = 1
INVARIANTS HandleAlive RegisteredServed
PROPERTIES AbortEnds ExitHonoured CrashRecorded
CHECK_DEADLOCK FALSE
