\* Two clients may block for good (see MCThreadPool): the system stops then.
SPECIFICATION MCSpec
CONSTANTS
    Workers = {w1, w2}
    Clients = {c1, c2, c3}
    Owner = c1
    Tasks = {t1, t2, t3}
    AloneTasks = {t3}
    Null = Null
    SizeMax = 7
    CreateMayFail = TRUE
INVARIANTS TypeOK TasksExact RunningExact NoIdleWorkerForgotten
PROPERTIES WaitsHonoured ImplementsPromise ClientIsServed
CHECK_DEADLOCK FALSE
