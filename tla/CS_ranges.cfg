CONSTANTS
    Words = 3
    Bits = 3
    Size = 9
SPECIFICATION Spec
INVARIANTS
    TypeOK
    NothingLost
    RangesApart
    RoundTrip
