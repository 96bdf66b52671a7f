\* Two sets of all encodings as operands of each other.
CONSTANTS
    BASE = 2
    short = short
    long = long
    other = other
    Handles = {h1, h2}
    Ints <- FewInts
    Strings = {short, other}
    Long = {other}
    ByteOrder <- FewOrder
    NULL = NULL
    Freed = Freed
    set_max_intset_entries = 3
    set_max_listpack_entries = 2
    RL_SPOP_MOVE_STRATEGY_MUL = 1
    ARGS = 2
    OPERANDS = 4
    LIMIT = 2
SPECIFICATION Spec
INVARIANTS
    SmoveExact
    OperationsExact
    DumpCanonical
