CONSTANTS
    Char = {"PUSH", "GET", "FAILED", "digit", "space", "newline", "quote"}
    MaxLen = 6
SPECIFICATION Spec
INVARIANTS
    DecodeInvertsEncode
    AcceptedLinesAreCanonical
    ClosedQuotesAreAnswered
    ArgumentsAreWordsAndQuotes
CHECK_DEADLOCK FALSE
