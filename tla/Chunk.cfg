\* Three chunks: jobs one at a time, stopped and resubmitted, or at once and undisturbed.
SPECIFICATION FairSpec
CONSTANTS
    NumChunks = 3
    NumSamples = 4
    DependentJobs = 1
    Modes <- MCModes
    NoFile = NoFile
    Hole = Hole
CHECK_DEADLOCK FALSE
INVARIANTS TypeOK InOrder MergeExact DoneIsTrue
PROPERTIES NothingLost Merged
