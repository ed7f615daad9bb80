\* Three changes over three processes on one cache file.
SPECIFICATION FairSpec
CONSTANTS
    MaxChanges = 3
    MaxStarts = 3
    None = None
INVARIANTS TypeOK Loadable Synced CleanedUp
PROPERTIES NeverOlder Persisted
CHECK_DEADLOCK FALSE
