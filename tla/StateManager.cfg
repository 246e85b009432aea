SPECIFICATION Spec
CONSTANTS
    Process = {p1, p2}
    Client = {u1}
    Config = {c1, c2}
    InitialConfig = c1
    NoFile = NoFile
    None = None
    MaxRevision = 4
INVARIANTS
    RevisionNamesConfig
    
    AcknowledgedSurvives
