SPECIFICATION FairSpec
CONSTANTS
    Conn = {c1}
    Scripts <- AllScripts
    maxConnections = 1
    connBuffer = 1
PROPERTIES
    ReadTimeoutClosesIdle
