\* One service whose two coroutines load, query and update the same name.
CONSTANTS
    a = a
    b = b
    a1 = a1
    a2 = a2
    b1 = b1
    Clients = {a}
    Coroutines = {a1, a2}
    Home <- Alone
    Names = {n}
    Lists <- Singly
    Ptr = {p1, p2}
    Nil = Nil
    LOADS = 2
    VIEWS = 2
    REPEATS = 0
SPECIFICATION Spec
INVARIANTS
    UpdateAllowed
PROPERTIES
    NeverOlder
    CallsReturn
\* Every client may have exited.
CHECK_DEADLOCK FALSE
