\* When a pipeline has come to its end nothing happens any more.
SPECIFICATION Spec
CONSTANTS
    src = src
    t1 = t1
    k1 = k1
    k2 = k2
    Source = src
    Transforms = {t1}
    Sinks = {k1, k2}
    Settings <- AllSettings
INVARIANTS TypeOK RefsExact NoAssertionFails ClosedOnce
PROPERTIES ImplementsBroadcast PipelineEnds
CHECK_DEADLOCK FALSE
