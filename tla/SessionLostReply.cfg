\* One caller that may give up on a request the worker still serves.
SPECIFICATION Spec
CONSTANTS
    Tasks = {a}
    MaxCells = 3
    Environments <- MCTimeouts
    Nobody = Nobody
    NoReply = NoReply
CHECK_DEADLOCK FALSE
INVARIANT StateHeld
