SPECIFICATION FairSpec
CONSTANTS
    a = a
    b = b
    healthy = healthy
    degraded = degraded
    unhealthy = unhealthy
    Wake = Wake
    NoTime = NoTime
    Quiet = Quiet
    Name = {a}
    Status = {healthy, degraded, unhealthy}
    Healthy = healthy
    Interval = 2
    QueueCap = 1
    Removable = {}
    Restarts = TRUE
PROPERTY CoalescedIsSent
PROPERTY FinalStateAnnounced
