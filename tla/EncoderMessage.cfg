SPECIFICATION Spec
CONSTANTS
    v = v  s = s  p = p  c = c  x = x
    R = R  C = C
    NoField = NoField
    NoMsg = NoMsg
    Field = {v, s, p, c, x}
    Msg = {R, C}
    RootMsg = R
    Typ <- MCTyp
    Packed <- MCPacked
    SubMsg <- MCSubMsg
    FieldsOf <- MCFieldsOf
    KeyLen <- MCKeyLen
    VarintSteps = {4}
    ValueLens <- MCValueLens
    BufLen = 13
    Reserve = 4
    MaxDepth = 3
    MaxStarts = 1
    Careful = TRUE
INVARIANTS
    FinishedIsMessage
PROPERTIES
    ImplementsBuilder
CHECK_DEADLOCK FALSE
