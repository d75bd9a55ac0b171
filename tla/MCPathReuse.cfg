SPECIFICATION Spec
CONSTANTS
    Conn = {c1}
    ID = {a}
    Name = {alice}
    FileName = {f, g}
    Content = {x}
    NoClient = NoClient
    NoKey = NoKey
    Partial = Partial
    MaxRestart = 1
SYMMETRY Symmetry
PROPERTIES VerifiedContentKept
