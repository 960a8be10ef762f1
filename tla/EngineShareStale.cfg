CONSTANTS
    a = a
    b = b
    NCtx = 8
    SeqIds = {1, 2}
    Free = Free
    NoRow <- NoRowSeq
    Defrag = TRUE
    Tokens = {a, b}
    Prompts <- ShortPrompts
    MaxTokens = {2}
    MaxJobs = 3
    MaxArrivals = 2
    NBatch = 2
    MaxPrefillBatch = 4
    MaxBatch = 2
    Gathers = TRUE
    GroupPrefill = TRUE
    Faults = {"decode"}
SPECIFICATION Spec
INVARIANT RowsHoldMirror
