\* Two pushers race with two poppers, blocking and timed.
SPECIFICATION Spec
CONSTANTS
    w1 = w1
    w2 = w2
    o1 = o1
    o2 = o2
    x = x
    y = y
    Producers = {w1, w2}
    Consumers = {o1, o2}
    Items = {x, y}
    MaxSize = 3
    WordMod = 16
    NoItem = NoItem
INVARIANTS TypeOK RingShape NoLostWakeup
 
CHECK_DEADLOCK FALSE
