\* Two services with a view each; three loads on two addresses reuse one.
CONSTANTS
    a = a
    b = b
    a1 = a1
    a2 = a2
    b1 = b1
    Clients = {a, b}
    Coroutines = {a1, b1}
    Home <- OneEach
    Names = {n}
    Lists <- Twice
    Ptr = {p1, p2}
    Nil = Nil
    LOADS = 3
    VIEWS = 1
    REPEATS = 1
SPECIFICATION Spec
SYMMETRY Symmetry
INVARIANTS
    TypeOK
    RefExact
    NoUseAfterFree
    NoGraphForgotten
\* Every client may have exited.
CHECK_DEADLOCK FALSE
