SPECIFICATION ServerSpec
CONSTANTS
    Conn = {c1, c2}
    ID = {a}
    Name = {alice}
    FileName = {f}
    Content = {garbage}
    Garbage = garbage
    None = None
    NoClient = NoClient
    NoKey = NoKey
    Partial = Partial
    TIMES = 2
    MaxRestart = 1
INVARIANTS ServerTypeOK LockOwned ReplyAgrees SendsCounted KeyLoaded
PROPERTIES ThreadsServe
CHECK_DEADLOCK FALSE
