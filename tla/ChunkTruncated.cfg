\* One job at a time, one of them stopped: does .done stand for a complete output?
SPECIFICATION Spec
CONSTANTS
    NumChunks = 2
    NumSamples = 3
    DependentJobs = 1
    Modes <- MCOneStop
    NoFile = NoFile
    Hole = Hole
CHECK_DEADLOCK FALSE
INVARIANT DoneIsComplete
