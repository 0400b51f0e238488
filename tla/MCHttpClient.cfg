SPECIFICATION FairSpec
CONSTANTS
    o1 = o1
    o2 = o2
    b1 = b1
    b2 = b2
    b3 = b3
    Operations = {o1, o2}
    Buffers = {b1, b2, b3}
    Settings <- AllSettings
    Nothing = Nothing
INVARIANT HandOverSound
PROPERTIES ImplementsResponse RequestsEnd
