INIT Init
NEXT Next
INVARIANTS
    GrammarSteers
    SchemaLanguage
    SplitsAsDocumented
    TokensSpellText
    SamplerKeepsChoice
    CallsReadAsWritten
    WeightsPlaced
    FilesLoadBack
    DownloadIsWhole
CHECK_DEADLOCK FALSE
