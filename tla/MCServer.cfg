SPECIFICATION Spec
SYMMETRY Symmetric
CONSTANTS
    Conn = {c1, c2}
    Scripts <- TalkingScripts
    maxConnections = 2
    connBuffer = 1
INVARIANTS
    TypeOK
    SlotsExact
    CachesFirst
    RightServer
    
    OnlyThroughBackend
PROPERTIES
    Dispatches
