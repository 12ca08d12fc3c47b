SPECIFICATION HistorySpec
CONSTANTS
    PageSize = 3
    MaxRecords = 10
INVARIANTS
    HistoryTypeOK
PROPERTIES
    BackIsSeamless
    ForwardGoesOn
