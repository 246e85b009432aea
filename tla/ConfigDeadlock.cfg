CONSTANTS
    Provider = {codex, kilo}
    Codex = codex
    Value = {v1, v2}
    Mode = {chatgpt, api_key}
    RefreshMode = chatgpt
    Client = {c1}
    None = None
    MaxRevision = 4
    MaxToken = 1
    MaxBuilds = 7
    MaxFaults = 0
SPECIFICATION FairSpec
PROPERTIES
    CommittedIsAnswered
CHECK_DEADLOCK FALSE
