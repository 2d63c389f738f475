CONSTANTS
    NumMessages = 2
    Bodies = {0, 1, 2, 3, 5}
    Oversized = 3
    IntSize = 10
    RcvCap = 2
    SndCap = 1
SPECIFICATION Spec
INVARIANT TypeOK
INVARIANT NoLostEdge
INVARIANT InterestMatchesOutput
INVARIANT Echoes
PROPERTY RequestAnswered
PROPERTY EofCloses
