SPECIFICATION Spec
CONSTANTS
    Sources = {s1, s2}
    Groups = {g1}
    NoTimer = NoTimer
    MaxStamp = 7
    Stamps <- StampRange
    NewestVersion = 2
    QuerierVersion = 2
    RecordVersions = {2}
    LLQI = 1
    LLQC = 2
    MALI = 4
    OHPI = 3
    MaxRecords = 4
    MaxLate = 0
SYMMETRY Symmetry
INVARIANTS TypeOK NoZombieSource FilterModeInv NoUnusedGroup PublishedIsCurrent
PROPERTIES ImplementsFilterState
