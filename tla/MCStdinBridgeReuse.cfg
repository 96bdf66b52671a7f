\* One caller and one byte are enough to send input to a socket of somebody else.
CONSTANTS
    Callers = {c1}
    Values = {s1, s2, s3}
    NoSocket = NoSocket
    INPUT = 1
    BUFFER = 1
    SOCKBUF = 1
SPECIFICATION Spec
PROPERTIES
    WorkerForwardsToBridge
