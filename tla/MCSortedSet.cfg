SPECIFICATION Spec
CONSTANTS
    Members = {1, 2, 3}
    LongMembers = {}
    Scores = {1, 9}
    INF = 9
    Deltas <- MCDeltas
    Adds <- MCAdds
    Removals <- MCRemovals
    Bad = Bad
    Operands <- MCOperands
    Aggregates = {"min", "sum"}
    Flags <- MCFlags
    Spans <- MCSpans
    Ranges <- MCRanges
    Offsets <- MCOffsets
    PAUSES = 1
    zset_max_listpack_entries = 2
    Hash <- MCHash
    DICT_HT_INITIAL_EXP = 0
    HASHTABLE_MIN_FILL = 2
    EMPTY_VISITS = 1
    ZSKIPLIST_MAXLEVEL = 2
    ZSKIPLIST_MAX_SEARCH = 1
INVARIANTS
    TypeOK
    SkiplistSound
    DictSound
    CommandsExact
    QueriesExact
