CONSTANTS
    Conns = {c1, c2, c3}
    Fds = {4, 5, 6}
    NumLoops = 2
    Workers = {}
    Timeout = 1
    MaxAge = 0
    MaxTasks = 1
    NoConn = NoConn
    NoFd = NoFd
SPECIFICATION Spec
INVARIANT NoDanglingChannel
INVARIANT MainFindsConnection
INVARIANT IteratorsValid
INVARIANT OnlyClosedAreErased
PROPERTY ImplementsLifecycle
SYMMETRY ConnSymmetry
