SPECIFICATION Spec
CONSTANTS
    v = v  s = s  p = p  c = c  x = x
    R = R  C = C
    NoField = NoField
    NoMsg = NoMsg
    Field = {v, s, p, c, x}
    Msg = {R, C}
    RootMsg = R
    Typ <- MCTyp
    Packed <- MCPacked
    SubMsg <- MCSubMsg
    FieldsOf <- MCFieldsOf
    KeyLen <- MCOneKeyLen
    VarintSteps = {}
    ValueLens <- MCValueLens
    BufLen = 5
    Reserve = 2
    MaxDepth = 3
    MaxStarts = 2
    Careful = FALSE
INVARIANTS
    TypeOK
    FramesNested
    PackedIsTop
PROPERTIES
    WritesOnlyAppend
    EndAlwaysFits
CHECK_DEADLOCK FALSE
