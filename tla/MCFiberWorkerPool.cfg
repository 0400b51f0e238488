\* Once the workers left nothing happens any more.
SPECIFICATION FairSpec
CONSTANTS
    Workers = {w1, w2}
    Publishers = {p1}
    Fibers = {f1}
    Null = Null
INVARIANTS TypeOK NoFiberForgottenUnderLock SignalsWithinParked
PROPERTY WorkersLeave
CHECK_DEADLOCK FALSE
