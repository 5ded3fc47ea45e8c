SPECIFICATION WriterSpec
SYMMETRY Names
CONSTANTS
    a = a
    b = b
    Name = {a, b}
    MaxUnwritten = 2
    MaxMade = 4
    MaxLate = 1
INVARIANT NoResultLeftBehind
INVARIANT TrackedUnlessRaced
INVARIANT AlertsStoredInOrder
PROPERTY StoreNeverGoesBack
