CONSTANTS
    Records <- MCRecords
    Datasets <- MCDatasets
    PageSize = 1
    Limits <- MCLimits
    NoLimit = NoLimit
    MaxRecords = 2
    Redacted <- RedactValue
    MaxChanges = 2
    Names <- MCNames
    Tokens <- MCTokens
    Others <- MCOthers
    Depth = 4
    Fields <- MCFields
    Patterns <- MCPatterns
    Lower <- MCLower
    MASK = "[REDACTED]"
SPECIFICATION FairSpec
INVARIANTS TypeOK NoRepeatUnlessInserted NoSkipUnlessRemoved PrefixUnlessChanged SentExactlyMasked
PROPERTIES WalkEnds
CHECK_DEADLOCK FALSE
