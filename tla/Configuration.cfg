SPECIFICATION MCSpec
CONSTANTS
    WordBits = 2
    Commands <- MCCommands
    Number <- MCNumber
    AddrOf <- MCAddrOf
    Packets <- MCPackets
    BuildChoices = {"modulo", "zero"}
    Letters <- MCLetters
    Lower <- MCLower
    Keywords <- MCKeywords
    MaxText = 5
    PrefixLengths = {"0", "1", "2"}
    PrefixLengths6 = {"1", "3", "8"}
    Deviations <- ParserDeviations
    MaxCommands = 5
    MaxEdited = 2
INVARIANTS AcceptsTheLanguage ExactFiltersMeanTheScript CommandsOfTheFile TokensOfTheCommands
PROPERTIES BoundFiltersAreStable
CHECK_DEADLOCK FALSE
