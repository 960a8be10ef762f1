SPECIFICATION Spec
CONSTANTS
    Callers = {c1, c2}
    MaxThreads = 3
    AutoThreads = 2
    Totals = {1, 3}
    MinMacs = 6
    MaxCalls = 2
INVARIANTS EveryRowOnce NoDeadContext
PROPERTY CallsReturn
