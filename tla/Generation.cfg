\* Short prompts and one longer than the window; a budget that fits, one that does not, or none.
SPECIFICATION FairSpec
CONSTANTS
    Prompts <- MCPrompts
    Budgets = {3, 7, None}
    Windows = {8}
    Special = 2
    Overhead = 2
    Count <- MCCount
    None = None
    Rounds = {0, 1, 2}
    CodeEnd = 1
    Continue = 1
    MaxOutput = 1
INVARIANTS Fits Accounted 
PROPERTIES Ends
CHECK_DEADLOCK FALSE
