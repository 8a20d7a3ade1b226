SPECIFICATION TimedSpec
CONSTANTS
    Lookup = {p1, p2}
    User = {u1}
    Role = {r1}
    r1 = r1
    Written <- MCWritten
    Scoped <- MCScoped
    cacheSize = 1
    MaxVersion = 3
    TTL = 1
    MaxRun = 1
SYMMETRY
    Interchangeable
INVARIANTS
    BoundedStaleness
    QuietAnswersCurrent
