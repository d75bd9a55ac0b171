SPECIFICATION RemovalsSpec
CONSTANTS
    Conn = {c1}
    ID = {a}
    Name = {alice}
    FileName = {f, g, h}
    Content = {x}
    NoClient = NoClient
    NoKey = NoKey
    Partial = Partial
    MaxRestart = 1
SYMMETRY Symmetry
INVARIANTS TypeOK OneEntryPerFile RowsListed InsertIsNew PathsDistinct RowsOnDisk RowsKept
PROPERTIES VerifiedContentStable VerifiedKept ImplementsVault
