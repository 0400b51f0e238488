SPECIFICATION FairSpec
CONSTANTS
    r1 = r1
    r2 = r2
    r3 = r3
    seq1 = seq1
    Requests = {r1, r2, r3}
    Sequences = {seq1}
    Null = Null
    Settings <- AllSettings
INVARIANTS TypeOK BookkeepingExact WatchersExact NoAssertionFails SequenceSerial CloseLeavesNothing
PROPERTIES CallbackIsOwed OneShotEnds
