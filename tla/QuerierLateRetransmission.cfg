SPECIFICATION Spec
CONSTANTS
    Sources = {s1}
    Groups = {g1}
    NoTimer = NoTimer
    MaxStamp = 8
    Stamps <- StampRange
    NewestVersion = 2
    QuerierVersion = 2
    RecordVersions = {2}
    LLQI = 1
    LLQC = 2
    MALI = 3
    OHPI = 3
    MaxRecords = 4
    MaxLate = 1
INVARIANTS RetransmissionHasFilterTimer
