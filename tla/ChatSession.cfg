CONSTANTS
    MaxChats = 2
    MaxTurns = 2
    QueueSize = 2
    EventBuffer = 2
    OutboundQueue = 1
SPECIFICATION FairSpec
INVARIANTS
    SessionTypeOK
    TerminalLast
    OwnText
    Fresh
PROPERTIES
    ChatReturns
    QuitReturns
CHECK_DEADLOCK FALSE
