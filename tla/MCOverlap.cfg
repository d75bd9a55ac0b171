SPECIFICATION SystemSpec
CONSTANTS
    c1 = c1
    c2 = c2
    c3 = c3
    h1 = h1
    h2 = h2
    alice = alice
    bob = bob
    f = f
    x = x
    y = y
    z = z
    Conn = {c1, c2}
    Host = {h1, h2}
    ID = {a, b}
    Name = {alice, bob}
    FileName = {f}
    Content = {x, y, z, garbage}
    Garbage = garbage
    None = None
    NoClient = NoClient
    NoKey = NoKey
    Partial = Partial
    HostOf <- MCHostOf
    NameOf <- MCNameOf
    FileOf <- MCFileOf
    ContentOf <- MCContentOf
    SizeOf <- MCSomeSizeLost
    ZeroByteID = {}
    TIMES = 4
    FILE_SENDING_TIMES = 3
    MaxRestart = 1
    Sequential = FALSE
    MaxCrash = 1
INVARIANTS SystemTypeOK NeverStuck InfoIsRegistered ClientsAgree UniqueNames
PROPERTIES Termination
