SPECIFICATION ReturningSpec
CONSTANTS
    o1 = o1
    o2 = o2
    o3 = o3
    w1 = w1
    w2 = w2
    Nobody = Nobody
    Stop = Stop
    Owner = {o1, o2, o3}
    Worker = {w1, w2}
    MaxQueue = 4
INVARIANT OneThreadPerOwner
INVARIANT NoWaitBelowCap
CHECK_DEADLOCK FALSE
PROPERTY CallsAreMade
