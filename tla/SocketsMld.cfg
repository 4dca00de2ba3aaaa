SPECIFICATION Spec
CONSTANTS
    Protocols = {"MLDv2"}
    Upstreams = {2, 3}
    Downstreams = {1, 2}
    Groups = {10, 11}
    RouterGroups <- MCRouterGroups
    Sources = {20, 21}
    RecordFilters <- MCFilters
    MaxMemberships = 5
    MaxSources = 1
    Subnets <- OneSubnet
    MaxWords = 13
    Reports = {}
    OlderPackets = {}
INVARIANTS MldRecordsAreAccepted
CHECK_DEADLOCK FALSE
