CONSTANTS
    Operation = {o1, o2}
    Client = {c1, c2}
    MaxEvents = 2
    Buffer = 1
    MaxSequence = 4
    NoEvent = NoEvent
SPECIFICATION EventsSpec
INVARIANTS
    SequenceNamesOneEvent
    ReceivedIsDurable
