\* Four requests; batches of one, two and three, with and without a timeout.
SPECIFICATION BatcherFairSpec
CONSTANTS
    Requests = {r1, r2, r3, r4}
    Sizes = {1, 2, 3}
    Timeouts = {0, 1}
INVARIANTS Scheduled
PROPERTIES Implements
CHECK_DEADLOCK FALSE
