\* Two pushers and two poppers race on a ring of three slots.
SPECIFICATION Spec
CONSTANTS
    p1 = p1
    p2 = p2
    c1 = c1
    c2 = c2
    x = x
    y = y
    Producers = {p1, p2}
    Consumers = {c1, c2}
    Items = {x, y}
    TASK_QUEUE_LEN = 3
    NoItem = NoItem
    Nobody = Nobody
INVARIANTS TypeOK Exclusion Accounting Position IsEmptyAnswer
PROPERTY FifoSpec
