CONSTANTS
    NumLoops = 2
    IoThreads = {i1, i2}
    Workers = {w1, w2}
    Messages = {m1}
    MaxClients = 1
    SignalInLock = FALSE
    NoTask = NoTask
SPECIFICATION Spec
INVARIANT TypeOK
INVARIANT LoopRunsOnce
INVARIANT PromisedReachesLoop
INVARIANT RepliesFindLoop
INVARIANT ThreadsAreJoined
PROPERTY StopReturns
