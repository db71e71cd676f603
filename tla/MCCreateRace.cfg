CONSTANTS
    a = a
    b = b
    k1 = k1
    NULL = NULL
    Conns = {c1, c2}
    Names = {a}
    Early = {}
    Keys = {k1}
    IntMin <- Int3Min
    IntMax <- Int3Max
    MaxStack = 1
    FreshLogin = {"no"}
    Faults = {}
    Requests <- CreateOnlyRequests
SPECIFICATION Spec
PROPERTIES
    TablesAreNotDuplicated
CHECK_DEADLOCK FALSE
