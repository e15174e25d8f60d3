SPECIFICATION Spec
CONSTANTS
    MaxNodes = 11
    MaxDepth = 2
    MaxAliases = 3
    WordValues = 16
    MaxWord = 2
    Utf8 <- Ascii
    MaxMillis = 8000
    FirstYear <- EarliestYear
    LastYear = 7500
    MaxHeaders = 4
    MaxReceived = 3
    NoTime = 99
    LineTexts <- HeaderTexts
    StampTime <- Zoned
    Inputs <- AllInputs
INVARIANTS
    JsonSurvives
    YamlIsUnfolded
    MatchesAreExact
    EntropyIsTrue
    ConversionsAreExact
    HeadersAreTrue
CHECK_DEADLOCK FALSE
