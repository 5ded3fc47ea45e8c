SPECIFICATION ReplicaSpec
CONSTANTS
    r1 = r1
    r2 = r2
    healthy = healthy
    degraded = degraded
    unhealthy = unhealthy
    NoClaim = NoClaim
    NoAlert = NoAlert
    Replica = {r1, r2}
    Status = {healthy, degraded, unhealthy}
    Healthy = healthy
    MaxChanges = 4
SYMMETRY ReplicaSymmetry
INVARIANT SentOnce
INVARIANT FinalIsSent
