SPECIFICATION Spec
CONSTANTS
    Workers = {w1}
    Publishers = {p1}
    Fibers = {f1}
    Null = Null
INVARIANT NoFiberForgotten
CHECK_DEADLOCK FALSE
