\* Two threads, without a queue and with one.
SPECIFICATION AsyncSpec
CONSTANTS
    t1 = t1
    t2 = t2
    Threads = {t1, t2}
    m_split_lines = 2
    LOG_SAVE_DAY = 2
    Limits <- MCLimits
    MaxLate = 1
    MaxDay = 5
    MaxLines = 4
    Absent = Absent
    NoLine = NoLine
    NULL = NULL
SYMMETRY Symmetry
INVARIANTS   FilesBounded  WriterEnds LinesAccounted
CHECK_DEADLOCK FALSE
