SPECIFICATION Spec
CONSTANTS
    a = a
    b = b
    z = z
    t = t
    o = o
    NoResult = NoResult
    Probe = {a, b}
    Tag <- Tags
    Critical = {a, b}
    Declared <- DeclaredTags
    OwnTags <- TagsOfTheirOwn
    Replaceable = {b}
    Query <- Queries
    MaxUnknown = 2
    IntervalCalls = {TRUE, FALSE}
INVARIANT UnknownAreMostRecent
PROPERTY ReadyIsEarned
PROPERTY FiltersAreExact
