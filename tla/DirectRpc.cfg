SPECIFICATION Spec
CONSTANTS
    MaxCalls = 3
    Buffer = {b1, b2, b3, b4}
    NoBuffer = NoBuffer
INVARIANTS
    TypeOK
    BuffersOwned
    CallerTold
PROPERTIES
    ImplementsCall
    CallReturns
CHECK_DEADLOCK FALSE
