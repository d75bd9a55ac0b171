SPECIFICATION OutageSpec
CONSTANTS
    Conn = {c1}
    ID = {a, b}
    Name = {alice}
    FileName = {f}
    Content = {x}
    NoClient = NoClient
    NoKey = NoKey
    Partial = Partial
    MaxRestart = 1
    MaxOutage = 1
    MaxFiles = 2
INVARIANTS OutageTypeOK ClientsDurable VerifiedProtected
PROPERTIES LockReleased
CHECK_DEADLOCK FALSE
