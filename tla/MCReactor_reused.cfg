CONSTANTS
    Conns = {c1, c2}
    Fds = {4}
    NumLoops = 1
    Workers = {}
    Timeout = 1
    MaxAge = 1
    MaxTasks = 1
    NoConn = NoConn
    NoFd = NoFd
SPECIFICATION Spec
INVARIANT OnlyClosedAreErased
