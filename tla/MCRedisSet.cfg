\* One set, members at the edges of the intset encodings.
CONSTANTS
    BASE = 2
    short = short
    long = long
    other = other
    Handles = {h1}
    Ints <- EdgeInts
    Strings = {short, long}
    Long = {long}
    ByteOrder <- EdgeOrder
    NULL = NULL
    Freed = Freed
    set_max_intset_entries = 3
    set_max_listpack_entries = 3
    RL_SPOP_MOVE_STRATEGY_MUL = 1
    ARGS = 4
    OPERANDS = 1
    LIMIT = 0
SPECIFICATION Spec
INVARIANTS
    TypeOK
    IntsetOrdered
    CompactWithinLimits
    Settled
    CommandsExact
