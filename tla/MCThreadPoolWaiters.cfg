SPECIFICATION FairSpec
CONSTANTS
    Workers = {w1, w2}
    Clients = {c1, c2}
    Owner = c1
    Tasks = {t1, t2}
    Null = Null
    SizeMax = 7
    CreateMayFail = FALSE
PROPERTY DoneTaskReleasesCaller
CHECK_DEADLOCK FALSE
