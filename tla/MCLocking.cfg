CONSTANTS
    a = a
    b = b
    k1 = k1
    NULL = NULL
    Conns = {c1, c2}
    Names = {a, b}
    Early = {a, b}
    Keys = {k1}
    IntMin <- Int3Min
    IntMax <- Int3Max
    MaxStack = 1
    FreshLogin = {"garbage"}
    Faults = {}
    Requests <- LockRequests
SPECIFICATION FairSpec
INVARIANTS
    LocksAreHeld
    UnlockedTablesAreClean
    WaitersHoldOnlyLeaked
PROPERTIES
    OnlyCommitsAreVisible
    TransactionsAreAtomic
    TransactionsNeverWait
CHECK_DEADLOCK FALSE
