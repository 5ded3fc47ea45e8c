SPECIFICATION RequestsSpec
CONSTANTS
    q1 = q1
    q2 = q2
    w1 = w1
    x = x
    y = y
    h = h
    OtherRoute = OtherRoute
    Request = {q1, q2}
    Socket = {w1}
    Route = {x, y, h}
    HealthRoute = {h}
    Watched = {x}
    Streamed = {y}
    MaxRoutes = 1
    Code = {200, 500}
    WindowSize = 2
    MaxErrors = 50
    HalfRoundsUp = FALSE
    MinActive = 1
    MaxArrivals = 3
SYMMETRY RequestSymmetry
CHECK_DEADLOCK FALSE
INVARIANT RecordedOnce
INVARIANT CountsAgree
