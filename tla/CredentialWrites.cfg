CONSTANTS
    Slots = {"access", "refresh", "github", "token", "key"}
    EnvSlots = {"key"}
    MaxEntries = 1
    Requests = {1, 2}
    Keys = {1, 2}
    MaxAttempts = 2
    Sessions = {9}
    MaxPolls = 2
    MaxWriters = 2
    MaxFaults = 2
SPECIFICATION Spec
INVARIANTS
    LastWriteHolds
    AppliedOnce
    Truthful
PROPERTIES
    DuplicatesAnswered
    SessionsEnd
CHECK_DEADLOCK FALSE
