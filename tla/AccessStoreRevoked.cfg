SPECIFICATION Spec
CONSTANTS
    Lookup = {p1, p2}
    User = {u1}
    Role = {r1}
    r1 = r1
    Written <- MCWritten
    Scoped <- NoScoped
    cacheSize = 2
    MaxVersion = 3
INVARIANTS
    MetricsUserCanAccess
