CONSTANTS
    Char = {"PUSH", "GET", "FAILED", "digit", "space", "newline", "quote"}
    MaxLen = 6
SPECIFICATION Spec
INVARIANT MalformedLinesAreInvalid
CHECK_DEADLOCK FALSE
