CONSTANTS
    NumLoops = 2
    IoThreads = {i1, i2}
    Workers = {}
    Messages = {m1}
    MaxClients = 1
    SignalInLock = TRUE
    NoTask = NoTask
SPECIFICATION Spec
PROPERTY StopReturns
CHECK_DEADLOCK FALSE
