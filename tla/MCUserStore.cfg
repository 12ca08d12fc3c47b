SPECIFICATION StoreSpec
CONSTANTS
    Friends = {1, 2, 3}
    Refused = {1}
    Handlers = {h1}
    MaxUid = 3
    MaxTexts = 2
    MaxFaults = 1
INVARIANTS
    StoreTypeOK
    OneUidEach
    MemoryMatchesRows
    HistoryIsOwn
PROPERTIES
    NobodyVanishes
