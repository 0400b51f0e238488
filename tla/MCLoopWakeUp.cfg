SPECIFICATION MonitorFairSpec
CONSTANTS
    Requests = {w1, w3, m}
    Threads = {t1, t2, a}
    Null = Null
    Coalesce = {w1, m}
    Usage = {}
    MaxStarts = 3
    MaxWakeUps = 3
    App = a
    MonitorWakeUp = m
    MaxMonitored = 2
    Recreates = FALSE
INVARIANTS TypesOK NoLostWakeUp WalkSound
PROPERTIES WakeUpDelivered MonitorHandsOver
