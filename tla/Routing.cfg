SPECIFICATION Spec
CONSTANTS
    eth0 = eth0
    eth1 = eth1
    peer = peer
    s1 = s1
    s2 = s2
    Sources = {s1, s2}
    Upstreams <- TwoUpstreams
    Downstreams <- TwoDownstreams
    Configs <- MCConfigs
    Memberships <- MCMemberships
    Senders = {s1}
    SourceLifeTime = 2
    MaxStamp = 4
    Stamps <- StampRange
    MaxPackets = 3
    MaxChanges = 2
INVARIANTS RoutesAreCurrent RecordsAreCurrent SeenSourceAtOneUpstream UnfilteredAggregation SilentSourcesAreForgotten
CHECK_DEADLOCK FALSE
