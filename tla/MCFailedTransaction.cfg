CONSTANTS
    a = a
    b = b
    k1 = k1
    NULL = NULL
    Conns = {c1}
    Names = {a}
    Early = {a}
    Keys = {k1}
    IntMin <- Int3Min
    IntMax <- Int3Max
    MaxStack = 1
    FreshLogin = {"no"}
    Faults = {}
    Requests <- PopRequests
SPECIFICATION Spec
INVARIANTS
    FailedTransactionIsRecoverable
CHECK_DEADLOCK FALSE
