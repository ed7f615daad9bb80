\* Three tasks on one machine; uv commands that fail and tasks that are killed, three in all.
SPECIFICATION VenvFairSpec
CONSTANTS
    Tasks = {t1, t2, t3}
    MaxFaults = 3
INVARIANTS WholeInUse
PROPERTIES SetUp
CHECK_DEADLOCK FALSE
