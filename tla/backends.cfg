SPECIFICATION Spec
SYMMETRY NameSymmetry
CONSTANTS
    a = a
    b = b
    Forever = Forever
    Name = {a, b}
    MaxResults = 2
    MaxAlerts = 2
    ResultTtl = 2
    AlertTtl = 0
    MaxLag = 1
    Margin = 1
    MaxKept = 2
INVARIANT IndexCovers
PROPERTY MemoryKeepsPromise
PROPERTY RedisKeepsPromise
