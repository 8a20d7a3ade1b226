SPECIFICATION LiveSpec
CONSTANTS
    Conn = {c1, c2}
    Scripts <- LiveScripts
    maxConnections = 1
    connBuffer = 1
PROPERTIES
    EveryConnectionSettled
    FailureEndsProcess
