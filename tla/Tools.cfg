\* Two generations that share two providers, with a budget or a limit on calls, or neither.
SPECIFICATION FairSpec
CONSTANTS
    Requests = {r1, r2}
    Providers = {p1, p2}
    Names = {n1, n2}
    Budgets = {1, None}
    Limits = {1, None}
    Streams = {TRUE, FALSE}
    MaxCalls = 2
    MaxOutput = 1
    MaxSessions = 2
    None = None
INVARIANTS TypeOK Routed NoLeak
PROPERTIES Ends
CHECK_DEADLOCK FALSE
