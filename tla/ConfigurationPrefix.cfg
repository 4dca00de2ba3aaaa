SPECIFICATION MCSpec
CONSTANTS
    WordBits = 2
    Commands <- HostCommands
    Number <- MCNumber
    AddrOf <- MCAddrOf
    Packets <- MCPackets
    BuildChoices = {"modulo"}
    Letters <- MCLetters
    Lower <- MCLower
    Keywords <- MCKeywords
    MaxText = 0
    PrefixLengths = {"1", "2"}
    PrefixLengths6 = {"3", "8"}
    Deviations <- ParserDeviations
    MaxCommands = 3
    MaxEdited = 0
INVARIANT FiltersMeanTheScript
CHECK_DEADLOCK FALSE
