SPECIFICATION FilesSpec
CONSTANTS
    t1 = t1
    t2 = t2
    Texts = {t1, t2}
    Used <- UsedNumbers
    Rank <- OneDigitRank
    MaxTryTimes = 2
    MaxNumber = 3
    MaxFiles = 2
    MaxCopies = 1
    MaxStrangers = 1
    MaxMishaps = 1
INVARIANTS
    FilesTypeOK
    NoDangling
    ShownIsOfText
PROPERTIES
    TakenIsShown
CHECK_DEADLOCK FALSE
