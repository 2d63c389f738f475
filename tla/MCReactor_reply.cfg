CONSTANTS
    Conns = {c1, c2}
    Fds = {4, 5}
    NumLoops = 1
    Workers = {w1}
    Timeout = 1
    MaxAge = 0
    MaxTasks = 1
    NoConn = NoConn
    NoFd = NoFd
SPECIFICATION Spec
INVARIANT NoDanglingTask
