CONSTANTS
    a = a
    k1 = k1
    c1 = c1
    c2 = c2
    c3 = c3
    c4 = c4
    NULL = NULL
    Conns = {c1, c2, c3, c4}
    Names = {a}
    Early = {a}
    Keys = {k1}
    IntMin <- Int3Min
    IntMax <- Int3Max
    MaxStack = 3
    FreshLogin = {"no"}
    Faults = {"read", "SIGPIPE"}
    Requests <- SmallRequests
    Casts <- SmallCasts
    Killable = {c2}
SPECIFICATION ClientsSpec
INVARIANTS
    EveryIncrementCounts
    PrintsWhatWasCommitted
    OnlyKilledLeaveLocks
    WaitersAreServed
    SIGPIPENeedsKill
PROPERTIES
    EveryClientEnds
CHECK_DEADLOCK FALSE
