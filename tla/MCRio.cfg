CONSTANTS
    Messages <- SmallMessages
    MaxMessages = 3
    Capacity = 3
    BufSize = 2
    maxlen = 4
    MaxSignals = 1
    Faults = {"crash", "reset"}
SPECIFICATION Spec
PROPERTIES
    MessagesArriveWhole
    MessagesArrive
CHECK_DEADLOCK FALSE
