----------------------------- MODULE LwpbDecoder -----------------------------
(***************************************************************************)
(* src/src/lwpb/core/decoder.c: one call of lwpb_decoder_decode.  It walks *)
(* the data once, with a stack of buffers for the nested messages and the  *)
(* packed runs, and reports what it meets to three handlers.               *)
(*                                                                         *)
(* The data is the bytes some writer produced, perhaps with a newer schema *)
(* than the reader's, perhaps cut short.  A step is one turn of the inner  *)
(* loop (one field) or the end of a frame.  The handlers, which the code   *)
(* calls synchronously, are modelled by the sequence of their calls.       *)
(***************************************************************************)
EXTENDS WireFormat

CONSTANTS
    Input,        \* the inputs: records, in.data the bytes of in
    Number,       \* Number[f]: the field number; the reader goes by it
    MaxDepth      \* LWPB_MAX_DEPTH

ASSUME DecoderAssumption ==
    /\ MaxDepth \in Nat \ {0}
    /\ Number \in [Field -> Nat]
    \* the fields of a message have different numbers
    /\ \A m \in Msg : \A f, g \in FieldsOf[m] : Number[f] = Number[g] => f = g

\* What the bytes of an input are bytes of (KeyBytes, LenBytes, ValueBytes).
Byte == ({"key"} \X Field \X WireTypes \X Nat) \cup ({"len"} \X (0..BufLen) \X Nat)
        \cup ({"val"} \X Field \X (0..BufLen) \X Nat)

ASSUME InputAssumption ==
    \A i \in Input : i.data \in Seq(Byte) /\ Len(i.data) <= BufLen

VARIABLES
    in,           \* the input being decoded
    depth,        \* decoder->depth
    packed,       \* decoder->packed
    stack,        \* decoder->stack, the frames in use
    field_desc,   \* the local of that name: it outlives an iteration
    events,       \* history: the calls of the handlers, oldest first
    status        \* "running", or how the call ended

vars == <<in, depth, packed, stack, field_desc, events, status>>

NewBuf(base, len) == [base |-> base, pos |-> base, end |-> base + len]
Used(b) == b.pos - b.base
Left(b) == b.end - b.pos

Cells(from, len) == SubSeq(in.data, from + 1, from + len)

-----------------------------------------------------------------------------
(* Reading numbers.  A read gives the position behind it, what it read     *)
(* (cell), and how it went.                                                *)

\* Bytes of the varint or fixed value a cell is the first of.
Width(cell) == CASE cell[1] = "key" -> KeyLen[cell[2]]
                 [] cell[1] = "len" -> VarintLen[cell[2]]
                 [] OTHER           -> cell[3]

\* A number starts in this cell.  If not, bytes are being read for what they
\* are not, and what comes of it depends on them: the read is "garbled".
Starts(cell, what) == /\ cell[1] = what
                      /\ what = "val" => WireType(cell[2]) # "STRING"

\* lwpb_decode_varint looks at *pos before it looks at the end.
Varint(what, pos, end) ==
    LET cell == IF pos < end THEN in.data[pos + 1] ELSE Junk
        to   == pos + Width(cell)
    IN  IF pos >= end THEN [res |-> "undefined", pos |-> pos, cell |-> cell]
        ELSE IF ~Starts(cell, what) THEN [res |-> "garbled", pos |-> pos, cell |-> cell]
        ELSE IF to > end THEN [res |-> "END_OF_BUF", pos |-> pos, cell |-> cell]
        ELSE [res |-> "ok", pos |-> to, cell |-> cell]

\* lwpb_decode_32bit and lwpb_decode_64bit check first.
Bits(pos, end) ==
    IF pos >= end THEN [res |-> "END_OF_BUF", pos |-> pos, cell |-> Junk]
    ELSE Varint("val", pos, end)

\* Mutant: the bytes of a string are not stepped over.
ValueLeftBehind(wt, pos, end) ==
    LET r == CASE wt = "VARINT" -> Varint("val", pos, end)
               [] wt = "BITS"   -> Bits(pos, end)
               [] wt = "STRING" -> Varint("len", pos, end)
        n == IF wt = "STRING" /\ r.res = "ok" THEN r.cell[2] ELSE r.pos - pos
    IN  [res |-> IF wt = "STRING" /\ r.res = "ok" /\ n > end - r.pos
                 THEN "END_OF_BUF" ELSE r.res,
         pos |-> r.pos, from |-> IF wt = "STRING" THEN r.pos ELSE pos, len |-> n]

\* A wire value: how the read went, the position behind it, and the bytes of
\* the number or the string, [from, len].
Value(wt, pos, end) ==
    LET r == CASE wt = "VARINT" -> Varint("val", pos, end)
               [] wt = "BITS"   -> Bits(pos, end)
               [] wt = "STRING" -> Varint("len", pos, end)
        n == r.cell[2]
        failed(how) == [res |-> how, pos |-> pos, from |-> pos, len |-> 0]
    IN  IF r.res # "ok" THEN failed(r.res)
        ELSE IF wt # "STRING"
        THEN [res |-> "ok", pos |-> r.pos, from |-> pos, len |-> r.pos - pos]
        ELSE IF n > end - r.pos THEN failed("END_OF_BUF")
        ELSE [res |-> "ok", pos |-> r.pos + n, from |-> r.pos, len |-> n]

\* The field of message m with the number of the key's field, if any.
Lookup(m, f) ==
    IF \E g \in FieldsOf[m] : Number[g] = Number[f]
    THEN CHOOSE g \in FieldsOf[m] : Number[g] = Number[f]
    ELSE NoField

-----------------------------------------------------------------------------
(* The handlers.  They can read decoder->packed, and the Python one does.  *)

StartEvent(m, pk) == [call |-> "start", msg |-> m, packed |-> pk]
EndEvent(m, pk)   == [call |-> "end", msg |-> m, packed |-> pk]
FieldEvent(m, f, bytes) == [call |-> "field", msg |-> m, field |-> f, value |-> bytes]

\* Mutant: the start handler is called each time round the outer loop.
EnteredAgain(stk, d, pk) ==
    IF d >= 1 /\ stk[d].msg # NoMsg THEN << StartEvent(stk[d].msg, pk) >> ELSE << >>

\* The message start handler is called on (re)entering a frame none of whose
\* bytes was read.
Entered(stk, d, pk) ==
    IF d >= 1 /\ stk[d].msg # NoMsg /\ Used(stk[d].buf) = 0
    THEN << StartEvent(stk[d].msg, pk) >>
    ELSE << >>

\* The value a handler gets for field f out of a wire value val of type wt: the
\* bytes of the value; of a union member that was not read, something else.
Delivered(f, wt, val) ==
    IF WireType(f) = wt \/ (WireType(f) # "STRING" /\ wt # "STRING")
    THEN Cells(val.from, val.len)
    ELSE IF wt = "STRING" THEN LenBytes(val.len)   \* the length, as a number
    ELSE << Junk >>                              \* a stale pointer

-----------------------------------------------------------------------------

Root == [buf |-> NewBuf(0, Len(in.data)), msg |-> RootMsg]

Init ==
    /\ in \in Input
    /\ depth = 1
    /\ packed = FALSE
    /\ stack = << Root >>
    /\ field_desc = NoField
    /\ events = Entered(stack, 1, FALSE)
    /\ status = "running"

Stop(how) == /\ status' = how
             /\ UNCHANGED <<depth, packed, stack, events>>

\* Mutant: the depth is checked before it is incremented.
PushTooDeep(old, m, val, pk, calls) ==
    \/ /\ depth > MaxDepth
       /\ status' = "aborted"
       /\ events' = events \o calls
       /\ UNCHANGED <<depth, packed, stack>>
    \/ /\ depth <= MaxDepth
       /\ depth' = depth + 1
       /\ stack' = Append(old, [buf |-> NewBuf(val.from, val.len), msg |-> m])
       /\ packed' = pk
       /\ events' = events \o calls \o Entered(stack', depth', pk)
       /\ UNCHANGED status

\* Push a frame for the value val of message m; old is the stack below it.
Push(old, m, val, pk, calls) ==
    \/ /\ depth = MaxDepth                     \* "Message nesting too deep"
       /\ status' = "aborted"
       /\ events' = events \o calls
       /\ UNCHANGED <<depth, packed, stack>>
    \/ /\ depth < MaxDepth
       /\ depth' = depth + 1
       /\ stack' = Append(old, [buf |-> NewBuf(val.from, val.len), msg |-> m])
       /\ packed' = pk
       /\ events' = events \o calls \o Entered(stack', depth', pk)
       /\ UNCHANGED status

\* Mutant: an unknown field is met again and again.
SkipNothing(next) == UNCHANGED <<depth, packed, stack, events, status>>

\* Skip an unknown field: go on behind its value.
Skip(next) == /\ stack' = next
              /\ UNCHANGED <<depth, packed, events, status>>

\* One wire value of type wt at pos, for field f (possibly none).
DecodeValue(f, wt, pos) ==
    LET frame == stack[depth]
        val   == Value(wt, pos, frame.buf.end)
        next  == [stack EXCEPT ![depth].buf.pos = val.pos]
        run   == wt = "STRING" /\ Packed[f]
    IN  \/ /\ val.res # "ok"
           /\ Stop(val.res)
        \/ /\ val.res = "ok" /\ f = NoField
           /\ Skip(next)
        \/ /\ val.res = "ok" /\ f # NoField /\ run
           /\ Push(next, frame.msg, val, TRUE, << >>)
        \/ /\ val.res = "ok" /\ f # NoField /\ Typ[f] = "message"
           /\ wt = "STRING"
           \* the handler is given the root message, not the frame's
           /\ Push(next, SubMsg[f], val, packed, << FieldEvent(RootMsg, f, << >>) >>)
        \/ /\ val.res = "ok" /\ f # NoField /\ Typ[f] = "message"
           /\ wt # "STRING"                    \* a frame over a stale pointer
           /\ Stop("undefined")
        \/ /\ val.res = "ok" /\ f # NoField /\ ~run /\ Typ[f] # "message"
           /\ stack' = next
           /\ events' = Append(events, FieldEvent(frame.msg, f, Delivered(f, wt, val)))
           /\ UNCHANGED <<depth, packed, status>>

\* An iteration of the inner loop: an element of a packed run has no key.
DecodeField ==
    LET frame == stack[depth]
        key   == Varint("key", frame.buf.pos, frame.buf.end)
        found == Lookup(frame.msg, key.cell[2])
        \* field_desc is assigned only when the lookup succeeds
        f     == IF found # NoField THEN found ELSE field_desc
    IN  /\ status = "running" /\ depth >= 1
        /\ Left(frame.buf) > 0
        /\ \/ /\ packed
              /\ DecodeValue(field_desc, WireType(field_desc), frame.buf.pos)
              /\ UNCHANGED field_desc
           \/ /\ ~packed /\ key.res # "ok"
              /\ Stop(key.res)
              /\ UNCHANGED field_desc
           \/ /\ ~packed /\ key.res = "ok"
              /\ field_desc' = f
              /\ DecodeValue(f, key.cell[3], key.pos)
        /\ UNCHANGED in

\* The frame is used up: notify, pop, and go on in the frame below, or return.
EndFrameIn(mode) ==
    /\ status = "running" /\ depth >= 1
    /\ Left(stack[depth].buf) <= 0
    /\ LET m == stack[depth].msg
           ended == IF m # NoMsg THEN << EndEvent(m, packed) >> ELSE << >>
       IN  events' = events \o ended \o Entered(stack, depth - 1, mode)
    /\ depth' = depth - 1
    /\ stack' = IF depth > 1 THEN SubSeq(stack, 1, depth - 1) ELSE stack
    /\ packed' = mode
    /\ status' = IF depth = 1 THEN "OK" ELSE status
    /\ UNCHANGED <<in, field_desc>>

\* Mutant: popping does not leave packed repeated mode.
EndFrameStaysPacked == EndFrameIn(packed)

\* Popping always leaves packed repeated mode.
EndFrame == EndFrameIn(FALSE)

Next == DecodeField \/ EndFrame

\* The decoder runs in its caller's thread: a step it can take, it takes.
Spec == Init /\ [][Next]_vars /\ WF_vars(Next)

-----------------------------------------------------------------------------
(* Properties, and the invariant of the decoder they follow from.          *)

\* Every open message or run lies where its parent's position has passed, to
\* its last byte, and inside the data: a child never reads its parent's bytes.
FramesNested ==
    \A i \in 1..depth :
        LET b == stack[i].buf
        IN  /\ b.base <= b.pos /\ b.pos <= b.end
            /\ b.end <= Len(in.data)
            /\ i > 1 => b.end = stack[i - 1].buf.pos /\ stack[i - 1].buf.base < b.base

\* The frames in use and the calls of the handlers.
Frame == [buf : [base : Nat, pos : Nat, end : Nat], msg : Msg]
Event == [call : {"start", "end"}, msg : Msg, packed : BOOLEAN]
         \cup [call : {"field"}, msg : Msg, field : Field, value : Seq(Byte \cup {Junk})]

\* Behind FramesNested: a frame for every open message and run; in packed mode
\* the innermost is the run of the field decoded last, and not a message.
DecoderInv ==
    /\ in.data \in Seq(Byte) /\ Len(in.data) <= BufLen
    /\ depth \in 0..MaxDepth /\ packed \in BOOLEAN
    /\ stack \in Seq(Frame) /\ Len(stack) = IF depth = 0 THEN 1 ELSE depth
    /\ field_desc \in Field \cup {NoField}
    /\ events \in Seq(Event)
    /\ status \in {"running", "OK", "END_OF_BUF", "aborted", "undefined", "garbled"}
    /\ status # "OK" => depth >= 1
    /\ packed => depth > 1 /\ field_desc \in Field /\ Packed[field_desc]
    /\ FramesNested
=============================================================================
