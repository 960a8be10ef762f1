CONSTANTS
    a = a
    b = b
    NCtx = 9
    SeqIds = {1, 2, 3}
    Free = Free
    NoRow <- NoRowSeq
    Defrag = TRUE
    Tokens = {a, b}
    Prompts <- MixedPrompts
    MaxTokens <- MixedBudgets
    MaxJobs = 3
    MaxArrivals = 2
    NBatch = 2
    MaxPrefillBatch = 4
    MaxBatch = 3
    Gathers = TRUE
    GroupPrefill = TRUE
    Faults = {"prefill", "decode"}
SPECIFICATION Spec
INVARIANTS
    CommittedTokensWritten
    RunFitsReservation
