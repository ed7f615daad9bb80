\* Two nodes with two workers each.
SPECIFICATION FairSpec
CONSTANTS
    NODE_COUNT = 2
    NUM_WORKERS = 2
    PORT_INCREMENT = 2
    MAX_STARTUP_RETRIES = 2
    Environments <- MCEnvironments
    NoFile = NoFile
    NoPort = NoPort
INVARIANTS Routed
PROPERTIES Starts Restored
CHECK_DEADLOCK FALSE
