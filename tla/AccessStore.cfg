SPECIFICATION FairSpec
CONSTANTS
    Lookup = {p1}
    User = {u1, u2}
    Role = {r1}
    r1 = r1
    Written <- MCWritten
    Scoped <- MCScoped
    cacheSize = 1
    MaxVersion = 4
INVARIANTS
    TypeOK
    NeverOlderThanHash
    QuietAnswersCurrent
PROPERTIES
    EventuallyCurrent
