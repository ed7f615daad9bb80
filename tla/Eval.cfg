\* Two submissions of two benchmarks, under every choice of judges and grouping; one task stopped.
CONSTANTS
    NumBenchmarks = 2
    MaxSeeds = 2
    Configs <- MCConfigs
    MaxSubmits = 2
    MaxStops = 1
    NoFile = NoFile
SPECIFICATION Spec
INVARIANTS TypeOK ReadsSettled Consistent
