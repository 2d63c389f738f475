CONSTANTS
    NumMessages = 2
    Bodies = {1, 3}
    Oversized = 3
    IntSize = 10
    RcvCap = 2
    SndCap = 1
SPECIFICATION Spec
PROPERTY OversizedCloses
