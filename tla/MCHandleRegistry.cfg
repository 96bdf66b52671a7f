\* Tokens are 6..8 and overlap the native values 6 and 7; 3 is a raw socket value.
\* Three slots for four objects: registry_add also fails at its limit.
CONSTANTS
    Threads = {t1, t2}
    SocketValues = {3, 6, 7}
    EpollValues = {7}
    HANDLE_ID_BASE = 6
    FIRST_CAPACITY = 3
    MAX_CAPACITY = 3
SPECIFICATION Spec
SYMMETRY Symmetry
INVARIANTS
    TypeOK
    NoSharedObject
    OpenIffOwned
    OneHolder
    LookupCurrent
PROPERTIES
    StableBinding
    RefinesFdTable
