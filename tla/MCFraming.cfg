SPECIFICATION Spec
CONSTANTS
    HEADER = 2
    BUFFER_SIZE = 2
    REPLY = 2
    MAX_REPLY_LEN = 4
    Request <- MCRequest
    PhantomSize = {0, 3}
    MaxRequest = 2
INVARIANTS TypeOK InStep OwnReply CutAtBlock
PROPERTIES Served ThreadEnds
CHECK_DEADLOCK FALSE
