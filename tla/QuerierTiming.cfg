SPECIFICATION FairSpec
CONSTANTS
    Sources = {s1}
    Groups = {g1}
    NoTimer = NoTimer
    MaxStamp = 8
    Stamps <- StampRange
    NewestVersion = 3
    QuerierVersion = 3
    RecordVersions = {2, 3}
    LLQI = 1
    LLQC = 3
    MALI = 4
    OHPI = 3
    MaxRecords = 3
    MaxLate = 0
INVARIANTS RetransmissionScheduled RetransmissionHasFilterTimer CompatibilityEnds PublishedCoversCurrent
PROPERTIES QueriedBeforeExpiry MembershipsTimeOut StepsFollowTables
