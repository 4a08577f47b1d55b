SPECIFICATION Spec
CONSTANTS
    s = s  c = c  p = p  v = v  q = q  d = d  w = w
    R = R  C = C  D = D
    NoField = NoField
    NoMsg = NoMsg
    Field = {s, c, p, v, q, d, w}
    Msg = {R, C, D}
    RootMsg = R
    Typ <- MCTyp
    Packed <- MCPacked
    SubMsg <- MCSubMsg
    FieldsOf <- MCFieldsOf
    FieldOrder <- MCFieldOrder
    KeyLen <- MCKeyLen
    VarintSteps = {8}
    ValueLens <- MCValueLens
    BufLen = 150
    Object <- MCObject
    Height <- MCHeight
    Batch <- MCBatch
INVARIANTS
    TypeOK
    SizeSuffices
    EncodesRecord
    ReadsWritten
PROPERTIES
    ReaderEnds
    ReadsAll
CHECK_DEADLOCK FALSE
