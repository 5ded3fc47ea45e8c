SPECIFICATION Spec
CONSTANTS
    a = a
    b = b
    healthy = healthy
    degraded = degraded
    unhealthy = unhealthy
    Wake = Wake
    NoTime = NoTime
    Quiet = Quiet
    Name = {a, b}
    Status = {healthy, unhealthy}
    Healthy = healthy
    Interval = 2
    QueueCap = 2
    Removable = {b}
    Restarts = TRUE
INVARIANT ChainIsContiguous
INVARIANT NoLostWakeup
PROPERTY FlapLimited
