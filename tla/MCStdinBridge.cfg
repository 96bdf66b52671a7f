\* More input than the worker's buffer or the connection holds; three socket values
\* are reused by every part.
CONSTANTS
    Callers = {c1, c2}
    Values = {s1, s2, s3}
    NoSocket = NoSocket
    INPUT = 3
    BUFFER = 2
    SOCKBUF = 2
SPECIFICATION Spec
INVARIANTS
    TypeOK
    SocketsAccounted
    UseOwnReader
    EndAfterData
PROPERTIES
    RefinesByteStream
    InputArrives
    CloseReturns
