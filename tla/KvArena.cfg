CONSTANTS
    NCtx = 4
    SeqIds = {1, 2, 3}
    Free = Free
    NoRow = NoRow
    Defrag = TRUE
    Vals = {a, b}
    MaxFeed = 1
    Callers <- CopyAndShare
SYMMETRY ValSymmetry
SPECIFICATION Spec
INVARIANTS
    RunsDisjoint
    RowsHoldLog
    OwnersMatchRuns
    WrittenCovered
