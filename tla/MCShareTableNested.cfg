\* The application keeps a nested proxy and drops the root.
CONSTANTS
    a = a
    b = b
    a1 = a1
    a2 = a2
    b1 = b1
    Clients = {a}
    Coroutines = {a1}
    Home <- Single
    Names = {n}
    Lists <- Singly
    Ptr = {p1, p2}
    Nil = Nil
    LOADS = 2
    VIEWS = 1
    REPEATS = 0
SPECIFICATION Spec
PROPERTIES
    UpdateReachesHeld
\* Every client may have exited.
CHECK_DEADLOCK FALSE
