SPECIFICATION Spec
CONSTANTS
    Protocols = {"IGMPv3", "MLDv2"}
    Choices <- MCChoices
    Millis = 1000
    Intervals <- MCIntervals
    MaxLeaves = 2
INVARIANTS QuerierKeepsItsValues CodesRoundDown ListenersAreKept
PROPERTIES QueriesGoOn
CHECK_DEADLOCK FALSE
