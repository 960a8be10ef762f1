SPECIFICATION Spec
CONSTANTS
    j1 = j1
    j2 = j2
    j3 = j3
    j4 = j4
    Jobs <- TwoJobs
    NSlots = 1
    ChanCap = 1
    QueueMax = 1
    RunSteps = 2
    StallLimit = 2
    MaxRestarts = 1
    Faults = {"step", "stall", "panic"}
PROPERTIES EveryRequestResolved DrainCompletes ImplementsService
