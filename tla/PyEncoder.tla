----------------------------- MODULE PyEncoder -----------------------------
(***************************************************************************)
(* Encoding a Python dict: Encoder_encode and pyobject_encode              *)
(* (python/encoder.c) over the two-pass encoder (core/encoder2.c), with    *)
(* the conversion of values (python/primitives.c).                         *)
(*                                                                         *)
(* pass 0 walks the dict without a buffer, to learn the size; pass 1 walks *)
(* it again and writes.  The walk is recursive: frames is its call stack.  *)
(* A nested message or a packed run is written behind MSG_RESERVE_BYTES    *)
(* free bytes, and moved down once its length is known.                    *)
(*                                                                         *)
(* A pointer is an offset into the buffer, or NULL.  A size_t holds -1 as  *)
(* SIZE_MAX; sums with it wrap around, as sums with -1 do here.  A value   *)
(* is the number of bytes it is encoded in.  Fields of 64-bit signed types *)
(* are left out: on them primitives.c sets only half of the value.         *)
(***************************************************************************)
EXTENDS WireFormat

CONSTANTS
    FieldOrder    \* FieldOrder[m]: the fields of m, as in its descriptor

ASSUME OrderAssumption ==
    /\ FieldOrder \in [Msg -> Seq(Field)]
    /\ \A m \in Msg : {FieldOrder[m][i] : i \in DOMAIN FieldOrder[m]} = FieldsOf[m]

VARIABLES
    status,       \* "idle", "encoding", or what the process has come to
    dict,         \* the dict being encoded
    pass,         \* pass
    mem,          \* the buffer of pass 1
    packed,       \* encoder->packed
    frames,       \* calls of pyobject_encode, innermost last
    ret,          \* what the last of them returned, if not used yet
    raised,       \* an exception is set
    string        \* the strings encode returned: none or one

encoderVars == <<status, dict, pass, mem, packed, frames, ret, raised, string>>

(* Python values: a dict gives for some fields a list of values.  A value  *)
(* that is not in a list is like a list with one item.                     *)
Number_(n) == [kind |-> "number", n |-> n, of |-> << >>]
Dict(d)    == [kind |-> "dict", n |-> 0, of |-> d]
Other      == [kind |-> "other", n |-> 0, of |-> << >>]

MSG_RESERVE_BYTES == 10
NULL == -1
SizeMax == -1
SizeMaxLen == 10          \* bytes of the varint 2^64 - 1

\* Mutant: a pointer is advanced without a look whether there is a buffer.
PlusAlways(p, n) == p + n

\* if (buf) buf += n;
Plus(p, n) == IF p = NULL THEN NULL ELSE p + n

-----------------------------------------------------------------------------
(* lwpb_encoder2_add_field: a value of n bytes for f at p; those of a      *)
(* message or of a packed run are in the buffer already, from data on.     *)

HeaderLen(f, n, raw) ==
    (IF raw THEN 0 ELSE KeyLen[f])
    + (CASE WireTypeAs(f, raw) = "VARINT" -> n
         [] WireTypeAs(f, raw) = "STRING" -> IF n = SizeMax THEN SizeMaxLen
                                             ELSE VarintLen[n]
         [] OTHER -> 0)

AddedLen(f, n, raw) == HeaderLen(f, n, raw) + BodyLen(f, n, raw)

Overlay(m, p, cells) ==
    [k \in DOMAIN m |-> IF k - p \in DOMAIN cells THEN cells[k - p] ELSE m[k]]

\* The key and the length come first, then the bytes are moved behind them.
Written(f, n, data, p, raw) ==
    LET head  == Header(f, n, raw)
        m     == Overlay(mem, p, head)
        moved == Typ[f] = "message" \/ (Packed[f] /\ ~raw)
        body  == IF moved THEN SubSeq(m, data + 1, data + n) ELSE ValueBytes(f, n)
    IN  Overlay(m, p + Len(head), SubSeq(body, 1, BodyLen(f, n, raw)))

Store(f, n, data, p, raw) ==
    LET room == p + AddedLen(f, n, raw) <= Len(mem)
    IN  \/ p = NULL /\ UNCHANGED <<mem, status>>
        \/ p # NULL /\ n = SizeMax /\ status' = "undefined" /\ UNCHANGED mem
        \/ p # NULL /\ n # SizeMax /\ ~room /\ status' = "overflow" /\ UNCHANGED mem
        \/ /\ p # NULL /\ n # SizeMax /\ room
           /\ mem' = Written(f, n, data, p, raw)
           /\ UNCHANGED status

-----------------------------------------------------------------------------
(* pyobject_encode.  A frame holds its arguments and locals; j is 0        *)
(* between two fields.                                                     *)

Frame(d, m, buf) ==
    [obj |-> d, msg |-> m, buf |-> buf, len |-> 0, extralen |-> 0, i |-> 1,
     j |-> 0, fieldbuf |-> NULL, fieldlen |-> 0, valuebuf |-> NULL]

Top == frames[Len(frames)]
Field_ == FieldOrder[Top.msg][Top.i]
Values == Top.obj.of[Field_]

SetTop(fr) == frames' = [frames EXCEPT ![Len(frames)] = fr]

ReturnWith(n) ==
    /\ frames' = SubSeq(frames, 1, Len(frames) - 1)
    /\ ret' = << n >>

\* In the body of a call, in or between its fields.
Between == status = "encoding" /\ frames # << >> /\ ret = << >> /\ Top.j = 0
AtValue == status = "encoding" /\ frames # << >> /\ Top.j > 0 /\ Top.j <= Len(Values)

\* "encode expects a dict".
NotADict ==
    /\ Between /\ Top.obj.kind # "dict"
    /\ raised' = TRUE
    /\ ReturnWith(SizeMax)
    /\ UNCHANGED <<status, dict, pass, mem, packed, string>>

HasField == Between /\ Top.obj.kind = "dict" /\ Top.i <= Len(FieldOrder[Top.msg])

\* Mutant: continue, in a loop that does not count by itself.
AbsentFieldForever ==
    /\ HasField /\ Field_ \notin DOMAIN Top.obj.of
    /\ UNCHANGED encoderVars

AbsentField ==
    /\ HasField /\ Field_ \notin DOMAIN Top.obj.of
    /\ SetTop([Top EXCEPT !.i = @ + 1])
    /\ UNCHANGED <<status, dict, pass, mem, packed, ret, raised, string>>

\* A packed run leaves room for its key and length.
StartField ==
    /\ HasField /\ Field_ \in DOMAIN Top.obj.of
    /\ \/ /\ Packed[Field_] /\ packed
          /\ status' = "aborted"          \* "... must not be nested"
          /\ UNCHANGED <<packed, frames>>
       \/ /\ ~(Packed[Field_] /\ packed)
          /\ LET room == IF Packed[Field_] THEN MSG_RESERVE_BYTES ELSE 0
                 from == Plus(Top.buf, room)
             IN  SetTop([Top EXCEPT !.j = 1, !.extralen = @ + room, !.fieldbuf = from,
                                    !.fieldlen = 0, !.valuebuf = from])
          /\ packed' = (packed \/ Packed[Field_])
          /\ UNCHANGED status
    /\ UNCHANGED <<dict, pass, mem, ret, raised, string>>

\* The value is added to the field; on to the next one.
AddValue(n, data) ==
    LET len == AddedLen(Field_, n, packed)
    IN  /\ Store(Field_, n, data, Top.valuebuf, packed)
        /\ SetTop([Top EXCEPT !.j = @ + 1, !.fieldlen = @ + len,
                              !.valuebuf = Plus(@, len)])

\* A nested message: recurse, leaving room for its key and length.
StartNested ==
    /\ AtValue /\ Typ[Field_] = "message" /\ ret = << >>
    /\ LET fr == [Top EXCEPT !.extralen = @ + MSG_RESERVE_BYTES]
       IN  frames' = Append([frames EXCEPT ![Len(frames)] = fr],
                            Frame(Values[Top.j], SubMsg[Field_],
                                  Plus(Top.valuebuf, MSG_RESERVE_BYTES)))
    /\ UNCHANGED <<status, dict, pass, mem, packed, ret, raised, string>>

\* The size_t that comes back is never below zero, so the error is not seen.
EndNested ==
    /\ AtValue /\ Typ[Field_] = "message" /\ ret # << >>
    /\ AddValue(ret[1], Plus(Top.valuebuf, MSG_RESERVE_BYTES))
    /\ ret' = << >>
    /\ UNCHANGED <<dict, pass, packed, raised, string>>

\* Mutant: a value that cannot be converted ends the field, without an error.
ScalarDropped ==
    /\ AtValue /\ Typ[Field_] # "message"
    /\ \/ /\ Values[Top.j].kind # "number"
          /\ SetTop([Top EXCEPT !.j = Len(Values) + 1])
          /\ UNCHANGED <<status, mem, ret, raised>>
       \/ /\ Values[Top.j].kind = "number"
          /\ AddValue(Values[Top.j].n, NULL)
          /\ UNCHANGED <<ret, raised>>
    /\ UNCHANGED <<dict, pass, packed, string>>

\* A scalar, if py_to_lwpb can convert it.  If not, packed mode is not left.
Scalar ==
    /\ AtValue /\ Typ[Field_] # "message"
    /\ \/ /\ Values[Top.j].kind # "number"
          /\ raised' = TRUE
          /\ ReturnWith(SizeMax)
          /\ UNCHANGED <<status, mem>>
       \/ /\ Values[Top.j].kind = "number"
          /\ AddValue(Values[Top.j].n, NULL)
          /\ UNCHANGED <<ret, raised>>
    /\ UNCHANGED <<dict, pass, packed, string>>

\* Behind the last value.  A packed run is moved down behind its length.
EndField ==
    /\ status = "encoding" /\ frames # << >> /\ Top.j > 0 /\ Top.j > Len(Values)
    /\ LET len == IF Packed[Field_] THEN AddedLen(Field_, Top.fieldlen, FALSE)
                                    ELSE Top.fieldlen
       IN  SetTop([Top EXCEPT !.i = @ + 1, !.j = 0, !.len = @ + len,
                              !.buf = Plus(@, len)])
    /\ IF Packed[Field_]
       THEN Store(Field_, Top.fieldlen, Top.fieldbuf, Top.buf, FALSE) /\ packed' = FALSE
       ELSE UNCHANGED <<mem, status, packed>>
    /\ UNCHANGED <<dict, pass, ret, raised, string>>

\* Mutant: the room that was left free is not counted.
EncodedLenBare(fr) == fr.len

\* Without a buffer the result also counts the room that is left free.
EncodedLen(fr) == IF fr.buf = NULL THEN fr.len + fr.extralen ELSE fr.len

EndMessage ==
    /\ Between /\ Top.obj.kind = "dict" /\ Top.i > Len(FieldOrder[Top.msg])
    /\ ReturnWith(EncodedLen(Top))
    /\ UNCHANGED <<status, dict, pass, mem, packed, raised, string>>

-----------------------------------------------------------------------------
(* Encoder_encode.                                                         *)

Encode(d) ==
    /\ status = "idle"
    /\ status' = "encoding"
    /\ dict' = d
    /\ pass' = 0
    /\ mem' = << >>
    /\ packed' = FALSE
    /\ frames' = << Frame(d, RootMsg, NULL) >>
    /\ ret' = << >> /\ raised' = FALSE /\ string' = << >>

\* After pass 0 the buffer is allocated; SIZE_MAX bytes never can be.
EndPass0 ==
    /\ status = "encoding" /\ frames = << >> /\ pass = 0
    /\ \/ /\ raised' = TRUE                 \* "unable to allocate string"
          /\ status' = "encoded"
          /\ UNCHANGED <<pass, mem, packed, frames>>
       \/ /\ ret[1] # SizeMax
          /\ pass' = 1
          /\ mem' = [k \in 1..ret[1] |-> Junk]
          /\ packed' = FALSE
          /\ frames' = << Frame(dict, RootMsg, 0) >>
          /\ UNCHANGED <<status, raised>>
    /\ ret' = << >>
    /\ UNCHANGED <<dict, string>>

EndPass1 ==
    /\ status = "encoding" /\ frames = << >> /\ pass = 1
    /\ status' = "encoded"
    /\ string' = << SubSeq(mem, 1, ret[1]) >>
    /\ mem' = << >>                         \* free(buf)
    /\ ret' = << >>
    /\ UNCHANGED <<dict, pass, packed, frames, raised>>

EncoderInit ==
    /\ status = "idle" /\ dict = Other
    /\ pass = 0 /\ mem = << >> /\ packed = FALSE
    /\ frames = << >> /\ ret = << >> /\ raised = FALSE /\ string = << >>

EncoderStep == \/ NotADict \/ AbsentField \/ StartField \/ StartNested \/ EndNested
               \/ Scalar \/ EndField \/ EndMessage \/ EndPass0 \/ EndPass1
=============================================================================
