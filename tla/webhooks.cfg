SPECIFICATION FairSpec
CONSTANTS
    a = a
    b = b
    Alerter = {a, b}
    Unlimited = {b}
    MaxThreads = 2
    MaxAddress = 1
    MaxAlerts = 2
INVARIANT CutAtDeadline
INVARIANT ReceivedInOrder
PROPERTY AlertsFlow
CHECK_DEADLOCK FALSE
