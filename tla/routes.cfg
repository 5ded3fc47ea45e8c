SPECIFICATION Spec
CONSTANTS
    app = app
    inc = inc
    v1 = v1
    v2 = v2
    r1 = r1
    r2 = r2
    r3 = r3
    w = w
    h = h
    u = u
    list = list
    read = read
    write = write
    custom = custom
    BadName = BadName
    Unbuilt = Unbuilt
    Route = {r1, r2, r3, w, h}
    Container = {app, inc, v1, v2}
    Application = app
    Children <- Tree
    Segment = {inc, v1, v2}
    Prefix <- TreePrefixes
    Included = {inc}
    Router = {inc}
    Function <- Functions
    RouteName <- Names
    Qualified <- Qualifications
    HealthRoute = {h}
    LateRoute = {r3}
    ManualRoute = {w}
    UserProbe = {u}
    UserName <- UserNames
    ManualProbe = u
    Copy = {1, 2, 3}
    Selections <- Filters
    CustomName <- CustomNames
INVARIANT ProbesMatchRoutes
INVARIANT ServedAsMonitored
INVARIANT HandlersHaveOwnNames
INVARIANT RefreshKeepsNames
PROPERTY PriorityHolds
