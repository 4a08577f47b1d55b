SPECIFICATION CSpec
CONSTANTS
    v = v  s = s  z = z  p = p  c = c  w = w  d = d  u = u  x = x  y = y
    R = R  C = C  RS = RS  CS = CS  DS = DS
    NoField = NoField
    NoMsg = NoMsg
    Field = {v, s, z, p, c, w, d, u, x, y}
    Msg = {R, C}
    RootMsg = R
    Typ <- MCTyp
    Packed <- MCPacked
    SubMsg <- MCSubMsg
    FieldsOf <- MCFieldsOf
    Number <- MCNumber
    KeyLen <- MCKeyLen
    VarintSteps = {4}
    ValueLens <- MCValueLens
    BufLen = 30
    Input <- MCInput
    MaxDepth = 3
    Repeated <- MCRepeated
    StructMap <- MCStructMap
    RootMap = RS
    NoMap = NoMap
    BytesField <- MCBytesField
    Clients = {"debug", "python", "struct"}
INVARIANTS
    TypeOK
    FramesNested
    DeliversMessage
    DeliversPrefix
    ContextBalanced
    PyReturnsMessage
    StructIsMessage
PROPERTIES
    Terminates
CHECK_DEADLOCK FALSE
