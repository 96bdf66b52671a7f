\* Registers of 0..3, of which 3 is beyond the sparse code; runs of two.
CONSTANTS
    h1 = h1
    h2 = h2
    Handles = {h1, h2}
    Calls <- TwoFeeds
    Sources <- TwoSources
    Lossy = {h2}
    Bad = Bad
    Freed = Freed
    Invalid = Invalid
    HLL_REGISTERS = 5
    HLL_Q = 2
    HLL_SPARSE_ZERO_MAX_LEN = 2
    HLL_SPARSE_VAL_MAX_LEN = 2
    HLL_SPARSE_VAL_MAX_VALUE = 2
    HLL_HDR_SIZE = 1
    hll_sparse_max_bytes = 6
SPECIFICATION Spec
INVARIANTS
    TypeOK
    OpcodesTight
    PfaddExact
    PfmergeExact
    CacheExact
