SPECIFICATION Spec
CONSTANTS
    ann = ann  bob = bob  dan = dan
    Client = {ann, bob, dan}
    NoClient = NoClient
    NumConns = 2
    Backlog = 2
    MsgCells = 2
    BufCells = 3
    MaxCalls <- MCMaxCalls
INVARIANTS
    TypeOK
    SlotsAreConnections
    SelectSeesAll
PROPERTIES
    ImplementsCall
    CallAnswered
    SlotFreed
CHECK_DEADLOCK FALSE
