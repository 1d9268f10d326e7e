SPECIFICATION PersistenceSpec
CONSTANTS
    MaxFills = 5
    MaxRestarts = 3
    Faults = {"crash", "read", "write"}
INVARIANTS PersistenceTypeOK PublishedIsSaved QuietIsSaved
CHECK_DEADLOCK FALSE
