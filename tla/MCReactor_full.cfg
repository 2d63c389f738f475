CONSTANTS
    Conns = {c1, c2, c3}
    Fds = {4, 5}
    NumLoops = 1
    Workers = {w1}
    Timeout = 1
    MaxAge = 1
    MaxTasks = 1
    NoConn = NoConn
    NoFd = NoFd
SPECIFICATION Spec
INVARIANT TypeOK
INVARIANT NoStaleEntry
INVARIANT RoundLeavesNoneClosed
INVARIANT Tracked
INVARIANT OnlyIdleAreEvicted
SYMMETRY ConnSymmetry
VIEW Visible
