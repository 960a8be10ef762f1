SPECIFICATION Spec
CONSTANTS
    j1 = j1
    j2 = j2
    j3 = j3
    j4 = j4
    Jobs <- FourJobs
    NSlots = 2
    ChanCap = 1
    QueueMax = 1
    RunSteps = 1
    StallLimit = 2
    MaxRestarts = 1
    Faults = {"step", "stall", "panic"}
SYMMETRY AnyJob
INVARIANTS TypeOK OneHolder DropsOnlyWhenDown QueueDepthExact BoundsHold
PROPERTY NoOvertaking
