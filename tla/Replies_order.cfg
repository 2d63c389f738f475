SPECIFICATION Spec
CONSTANTS
    Fds = {5, 6, 7}
    NumLoops = 2
    Workers = {w1, w2}
    MaxMessages = 3
INVARIANTS
    TypeOK
    BoundedOvertaking
    AnsweredOnce
    NoLostWakeup
PROPERTY ReplyArrives
CHECK_DEADLOCK FALSE
