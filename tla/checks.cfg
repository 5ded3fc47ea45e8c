SPECIFICATION RecoverySpec
CONSTANTS
    p1 = p1
    s1 = s1
    n1 = n1
    c1 = c1
    NoResult = NoResult
    Probe = {p1, s1}
    Name = {n1}
    NameOf <- SharedName
    Registrable = {p1}
    Route = {p1}
    StartupProbe = {s1}
    CircuitProbe = {p1}
    Threshold = 2
    Options <- BothStorages
    IntervalCalls = {FALSE}
    Client = {c1}
INVARIANT AtMostOneCheck
INVARIANT WaitersHaveRuns
INVARIANT OpenCircuitSuspends
INVARIANT AnswersAreComplete
PROPERTY RequestsAreAnswered
PROPERTY FailuresClear
