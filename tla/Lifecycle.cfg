SPECIFICATION Spec
CONSTANTS
    Definitions <- MCDefinitions
    Filters <- MCFilters
    Ifs = {"a", "b", "c", "t", "x"}
    UpIfs = {"a", "b", "c", "t"}
    Tunnels = {"t"}
    MaxVifs = 3
    MaxInsts = 2
    MaxTable = 5
    MaxSignals = 1
INVARIANTS InstancesMatchDefinition AllInstancesRun ReversePathFilters
PROPERTIES ProgramEnds
CHECK_DEADLOCK FALSE
