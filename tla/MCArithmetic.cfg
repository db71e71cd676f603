CONSTANTS
    a = a
    b = b
    k1 = k1
    NULL = NULL
    Conns = {c1}
    Names = {a}
    Early = {a}
    Keys = {k1}
    IntMin <- Int3Min
    IntMax <- Int3Max
    MaxStack = 2
    FreshLogin = {"no", "garbage"}
    Faults = {"thread", "read", "out_of_range", "SIGPIPE"}
    Requests <- ArithmeticRequests
SPECIFICATION Spec
INVARIANTS
    TypeOK
    ArithmeticFitsInt64
CHECK_DEADLOCK FALSE
