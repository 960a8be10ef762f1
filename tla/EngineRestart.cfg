CONSTANTS
    a = a
    b = b
    NCtx = 8
    SeqIds = {1, 2}
    Free = Free
    NoRow <- NoRowSeq
    Defrag = TRUE
    Tokens = {a, b}
    Prompts <- RestartPrompts
    MaxTokens = {2}
    MaxJobs = 3
    MaxArrivals = 2
    NBatch = 0
    MaxPrefillBatch = 4
    MaxBatch = 2
    Gathers = FALSE
    GroupPrefill = FALSE
    Faults = {"decode"}
    MaxCrashes = 1
SPECIFICATION RSpec
INVARIANTS
    FileWholeOrRefused
    ResumedRowsHoldMirror
