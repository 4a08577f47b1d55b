SPECIFICATION Spec
CONSTANTS
    ann = ann  bob = bob  dan = dan
    Client = {ann}
    NoClient = NoClient
    NumConns = 2
    Backlog = 2
    MsgCells = 2
    BufCells = 3
    MaxCalls <- MCMaxCalls
PROPERTIES
    DoneCalled
CHECK_DEADLOCK FALSE
