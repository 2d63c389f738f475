CONSTANTS
    Byte = {0, 1}
    Zero = 0
    Prepend = 2
    InitialSize = 2
    Extra = 2
    Inputs <- ShortStrings
    MaxReadable = 5
SPECIFICATION Spec
INVARIANT TypeOK
PROPERTY ImplementsQueue
