SPECIFICATION Spec
CONSTANTS
    eth0 = eth0
    eth1 = eth1
    peer = peer
    s1 = s1
    s2 = s2
    Sources = {s1, s2}
    Upstreams <- TwoUpstreams
    Downstreams <- OneDownstream
    Configs <- MutexConfig
    Memberships <- MCMemberships
    Senders = {s1}
    SourceLifeTime = 2
    MaxStamp = 4
    Stamps <- StampRange
    MaxPackets = 3
    MaxChanges = 2
INVARIANTS OthersUnsubscribe
CHECK_DEADLOCK FALSE
