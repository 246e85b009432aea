CONSTANTS
    Provider = {codex, kilo}
    Codex = codex
    Value = {v1, v2}
    Mode = {chatgpt, api_key}
    RefreshMode = chatgpt
    Client = {c1, c2}
    None = None
    MaxRevision = 4
    MaxToken = 1
    MaxBuilds = 4
    MaxFaults = 1
SPECIFICATION Spec
SYMMETRY ClientSymmetry
INVARIANTS
    RuntimeMatchesState
    
CHECK_DEADLOCK FALSE
