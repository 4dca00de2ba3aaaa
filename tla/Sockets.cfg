SPECIFICATION MCSpec
CONSTANTS
    Protocols = {"IGMPv3", "MLDv2"}
    Upstreams = {2, 3}
    Downstreams = {1, 2}
    Groups = {10, 11}
    RouterGroups <- MCRouterGroups
    Sources = {20, 21}
    RecordFilters <- MCFilters
    MaxMemberships = 5
    MaxSources = 1
    Subnets <- MCSubnets
    MaxWords = 13
    Reports <- MCReports
    OlderPackets = {"report", "leave", "query"}
INVARIANTS TypeOK RecordsInForce RouterGroupsStay ReportsAreAttributed
CHECK_DEADLOCK FALSE
