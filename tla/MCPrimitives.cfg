SPECIFICATION MCSpec
CONSTANTS
    Threads = {t1, t2, t3, t4}
    Generations = 2
    InitialCount = 1
    MaxReleases = 5
    Items = {a, b}
    Nothing = Nothing
    Size = 4
    f1 = f1
    f2 = f2
    f3 = f3
    Outside = {o1}
    Null = Null
    MaxCredit = 2
INVARIANTS TypesOK CountersExact NoLostWakeup WaitsSound
PROPERTIES ImplementsPromise PromisesKept BlockedGetOut
