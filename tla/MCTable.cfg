CONSTANTS
    Keys = {k1, k2}
    IntMin <- Int3Min
    IntMax <- Int3Max
    Values <- TwoStrings
SPECIFICATION Spec
INVARIANT TypeOK
PROPERTY ImplementsStagedMap
