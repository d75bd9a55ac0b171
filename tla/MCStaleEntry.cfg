SPECIFICATION Spec
CONSTANTS
    Conn = {c1}
    ID = {a}
    Name = {alice}
    FileName = {f}
    Content = {x}
    NoClient = NoClient
    NoKey = NoKey
    Partial = Partial
    MaxRestart = 0
SYMMETRY Symmetry
PROPERTIES ApprovalRecorded
