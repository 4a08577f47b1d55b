----------------------------- MODULE LwpbEncoder -----------------------------
(***************************************************************************)
(* src/src/lwpb/core/encoder.c with buf.c: the encoder builds a message    *)
(* with nested messages and packed runs in ONE caller's buffer.  Each open *)
(* message owns a frame of the stack; a frame's buffer is the tail of its  *)
(* parent's, Reserve bytes further on, so that the parent's key and length *)
(* can be written once the child is complete and the child's bytes moved   *)
(* down behind them.                                                       *)
(*                                                                         *)
(* The caller may make any call at any time and may ignore what a call     *)
(* returned (the tests and the examples do), unless it is Careful.  A      *)
(* failed LWPB_ASSERT ends in status "aborted"; a use of a NULL or         *)
(* uninitialised pointer, of which the C build may make anything, in       *)
(* status "undefined".                                                     *)
(***************************************************************************)
EXTENDS WireFormat

CONSTANTS
    MaxDepth,     \* LWPB_MAX_DEPTH
    Reserve,      \* MSG_RESERVE_BYTES
    Careful,      \* does the caller give a message up at the first error
    MaxStarts     \* bound: messages the caller starts with one encoder

ASSUME EncoderAssumption ==
    /\ MaxDepth \in Nat \ {0}
    /\ Reserve \in Nat
    /\ Careful \in BOOLEAN
    /\ MaxStarts \in Nat
    \* MSG_RESERVE_BYTES is 10: a key is a varint of 32 bits, at most 5
    \* bytes, and so is a length below 2^35.
    /\ \A f \in Field, n \in 0..BufLen : KeyLen[f] + VarintLen[n] <= Reserve

VARIABLES
    mem,          \* the caller's memory, BufLen bytes
    depth,        \* encoder->depth
    packed,       \* encoder->packed
    stack,        \* encoder->stack; popped frames keep their contents
    ret,          \* what the last call returned
    status,       \* "running", "aborted" or "undefined"
    starts,       \* how often lwpb_encoder_start was called
    damage        \* history: what ignored errors have spoilt since Start

vars == <<mem, depth, packed, stack, ret, status, starts, damage>>

Addr == 0..(BufLen - 1)
Cell == {Junk} \cup {<<"key", f, wt, i>> : f \in Field, wt \in WireTypes, i \in 1..Reserve}
               \cup {<<"len", n, i>> : n \in 0..BufLen, i \in 1..Reserve}
               \cup {<<"val", f, n, i>> : f \in Field, n \in 0..BufLen, i \in 1..BufLen}

\* struct lwpb_buf; Uninit is memory nothing was ever stored in.
Uninit == [base |-> 0, pos |-> 0, end |-> -1]
Buf == {b \in [base : 0..BufLen, pos : 0..BufLen, end : 0..BufLen] :
            b.base <= b.pos /\ b.pos <= b.end}
Frame == [buf : Buf \cup {Uninit}, field : Field \cup {NoField},
          msg : Msg \cup {NoMsg}]

\* Mutant: the end lies one byte too far.
NewBufPastEnd(base, len) == [base |-> base, pos |-> base, end |-> base + len + 1]

NewBuf(base, len) == [base |-> base, pos |-> base, end |-> base + len]
Used(b) == b.pos - b.base

\* Mutant: what is left is counted from the base, not from the position.
LeftFromBase(b) == b.end - b.base

Left(b) == b.end - b.pos

-----------------------------------------------------------------------------
(* Memory. *)

Bytes(m, from, len) == [i \in 1..len |-> m[from + i - 1]]

Write(m, at, s) ==
    [a \in Addr |-> IF a \in at..(at + Len(s) - 1) THEN s[a - at + 1] ELSE m[a]]

-----------------------------------------------------------------------------
(* Outcomes of a call that is cut short. *)

Abort == /\ status' = "aborted"
         /\ UNCHANGED <<mem, stack, ret, damage>>

Undefined == /\ status' = "undefined"
             /\ UNCHANGED <<mem, stack, ret, damage>>

\* "frames" outlasts "bytes": it is the worse of the two.
Spoil(d) == damage' = IF damage = "frames" THEN "frames" ELSE d

-----------------------------------------------------------------------------
(* lwpb_encoder_add_field, into frame d, where raw is encoder->packed.     *)
(* The n bytes of the value are the caller's (src = 0) or the bytes of     *)
(* frame src, somewhere in the same buffer.                                *)

WriteField(d, raw, f, n, src) ==
    LET buf  == stack[d].buf
        head == Header(f, n, raw)
        put  == IF Len(head) <= Left(buf) THEN head
                                          ELSE SubSeq(head, 1, Left(buf))
        len  == BodyLen(f, n, raw)
        fits == Len(head) + len <= Left(buf)
        m    == Write(mem, buf.pos, put)
        body == IF ~fits THEN << >>
                ELSE IF src = 0 THEN SubSeq(ValueBytes(f, n), 1, len)
                ELSE Bytes(m, stack[src].buf.base, len)
    IN  /\ mem' = Write(m, buf.pos + Len(put), body)
        /\ stack' = [stack EXCEPT ![d].buf.pos = @ + Len(put) + Len(body)]
        /\ IF fits THEN ret' = "OK" /\ UNCHANGED damage
                   ELSE ret' = "END_OF_BUF" /\ Spoil("bytes")
        /\ UNCHANGED status

\* Mutant: the fields of the message are not searched.
BelongsAnywhere(d, raw, f) == IF raw THEN stack[d].field = f
                              ELSE stack[d].msg # NoMsg

Belongs(d, raw, f) == IF raw THEN stack[d].field = f
                      ELSE stack[d].msg # NoMsg /\ f \in FieldsOf[stack[d].msg]

Initialised(d, src) == \A i \in {d, src} \ {0} : stack[i].buf # Uninit

AddFieldTo(d, raw, f, n, src) ==
    \/ /\ raw /\ ~Belongs(d, raw, f)      \* "must not be interleaved"
       /\ Abort
    \/ /\ ~raw /\ stack[d].msg = NoMsg    \* frame->msg_desc is NULL
       /\ Undefined
    \/ /\ ~raw /\ stack[d].msg # NoMsg /\ ~Belongs(d, raw, f)
       /\ ret' = "UNKNOWN_FIELD"
       /\ UNCHANGED <<mem, stack, status, damage>>
    \/ /\ Belongs(d, raw, f) /\ ~Initialised(d, src)
       /\ Undefined
    \/ /\ Belongs(d, raw, f) /\ Initialised(d, src)
       /\ WriteField(d, raw, f, n, src)

-----------------------------------------------------------------------------
(* The calls. *)

\* lwpb_encoder_init sets depth and nothing else.
Init ==
    /\ mem = [a \in Addr |-> Junk]
    /\ depth = 0
    /\ packed \in BOOLEAN
    /\ stack = [i \in 1..MaxDepth |->
                    [buf |-> Uninit, field |-> NoField, msg |-> NoMsg]]
    /\ ret = "OK"
    /\ status = "running"
    /\ starts = 0
    /\ damage = "none"

\* lwpb_encoder_start over the first len bytes of the caller's memory, whose
\* contents are of no interest any more.
Start(len) ==
    /\ starts < MaxStarts
    /\ starts' = starts + 1
    /\ mem' = [a \in Addr |-> Junk]
    /\ depth' = 1
    /\ packed' = FALSE
    /\ stack' = [stack EXCEPT ![1] = [buf |-> NewBuf(0, len),
                                      field |-> NoField, msg |-> RootMsg]]
    /\ ret' = "OK"
    /\ damage' = "none"
    /\ UNCHANGED status

\* lwpb_encoder_finish: the bytes the caller is told are the message.
Finished == Bytes(mem, stack[1].buf.base, Used(stack[1].buf))

\* Mutant: room for the reserve is not asked for, only room.
HasRoomForByte(buf) == Left(buf) >= 1

HasRoom(buf) == Left(buf) >= Reserve

\* Mutant: the reserve is not left free in front of the child.
ChildBufAtOnce(parent) == NewBuf(parent.pos, Left(parent) - Reserve)

\* The child's buffer: what its parent has left, behind the reserve.
ChildBuf(parent) == NewBuf(parent.pos + Reserve, Left(parent) - Reserve)

\* Push a frame for f and reserve the parent's key and length.  The new
\* frame's descriptors are set before the room is checked; its buffer is not.
PushFrame(f, m, pack) ==
    LET parent == stack[depth].buf
        new    == [stack EXCEPT ![depth + 1].field = f, ![depth + 1].msg = m]
    IN  \/ /\ depth = 0                        \* the parent is stack[-1]
           /\ Undefined
           /\ UNCHANGED <<depth, packed>>
        \/ /\ depth = MaxDepth                 \* "Message nesting too deep"
           /\ Abort
           /\ UNCHANGED <<depth, packed>>
        \/ /\ depth \in 1..(MaxDepth - 1) /\ parent = Uninit
           /\ Undefined
           /\ UNCHANGED <<depth, packed>>
        \/ /\ depth \in 1..(MaxDepth - 1) /\ parent # Uninit
           /\ ~HasRoom(parent)
           /\ depth' = depth + 1
           /\ stack' = new
           /\ ret' = "END_OF_BUF"
           /\ damage' = "frames"
           /\ UNCHANGED <<mem, packed, status>>
        \/ /\ depth \in 1..(MaxDepth - 1) /\ parent # Uninit
           /\ HasRoom(parent)
           /\ depth' = depth + 1
           /\ stack' = [new EXCEPT ![depth + 1].buf = ChildBuf(parent)]
           /\ packed' = (packed \/ pack)
           /\ ret' = "OK"
           \* nested_start does not look at encoder->packed: a message opened
           \* inside a packed run can never be closed
           /\ IF packed THEN Spoil("bytes") ELSE UNCHANGED damage
           /\ UNCHANGED <<mem, status>>

NestedStart(f) ==
    /\ Typ[f] = "message"
    /\ PushFrame(f, SubMsg[f], FALSE)

PackedRepeatedStart(f) ==
    /\ Packed[f]
    /\ \/ /\ packed                            \* "must not be nested"
          /\ Abort
          /\ UNCHANGED <<depth, packed>>
       \/ /\ ~packed
          /\ PushFrame(f, NoMsg, TRUE)

\* Pop the top frame and add its bytes, as the value of its field, to the
\* frame below; raw is encoder->packed at that point.
PopInto(raw) ==
    /\ depth > 1
    /\ depth' = depth - 1
    /\ AddFieldTo(depth - 1, raw, stack[depth].field, Used(stack[depth].buf), depth)

NestedEnd ==
    \/ /\ depth <= 1                           \* "Message nesting too shallow"
       /\ Abort
       /\ UNCHANGED <<depth, packed>>
    \/ /\ PopInto(packed)
       /\ UNCHANGED packed

\* Mutant: packed mode is not left.
PackedEndKeepsMode ==
    \/ /\ ~packed \/ depth <= 1
       /\ Abort
       /\ UNCHANGED <<depth, packed>>
    \/ /\ packed
       /\ PopInto(FALSE)
       /\ UNCHANGED packed

PackedRepeatedEnd ==
    \/ /\ ~packed \/ depth <= 1                \* "Not in packed repeated mode"
       /\ Abort
       /\ UNCHANGED <<depth, packed>>
    \/ /\ packed
       /\ PopInto(FALSE)
       /\ packed' = FALSE

\* lwpb_encoder_add_field with a value of the shape f is written in: for a
\* packed field outside its run that is the bytes of a whole run.
AddField(f, n) ==
    /\ \/ /\ depth = 0                         \* "only be added inside a message"
          /\ Abort
       \/ /\ depth > 0
          /\ AddFieldTo(depth, packed, f, n, 0)
    /\ UNCHANGED <<depth, packed>>

\* lwpb_encoder_add_<scalar> for a packed field outside its run: add_field
\* reads message.data and message.len of a union in which the scalar is set.
AddScalarOutsideRun(f) ==
    /\ Packed[f]
    /\ depth > 0 /\ ~packed /\ Belongs(depth, FALSE, f)
    /\ Undefined
    /\ UNCHANGED <<depth, packed>>

Next ==
    /\ status = "running"
    /\ \/ \E len \in 0..BufLen : Start(len)
       \/ /\ Careful => ret = "OK"
          /\ \/ \E f \in Field : \/ NestedStart(f)
                                 \/ PackedRepeatedStart(f)
                                 \/ AddScalarOutsideRun(f)
                                 \/ \E n \in ValueLens[f] : AddField(f, n)
             \/ NestedEnd
             \/ PackedRepeatedEnd
          /\ UNCHANGED starts

Spec == Init /\ [][Next]_vars

-----------------------------------------------------------------------------
(* Properties. *)

\* A message is being built and no error was ignored.
Intact == depth > 0 /\ status = "running" /\ damage = "none"

\* Every value has its type: also the buffer of a popped or spoilt frame is
\* a buffer inside the caller's memory, or was never set (buf.c, encoder.c).
TypeOK ==
    /\ mem \in [Addr -> Cell]
    /\ depth \in 0..MaxDepth
    /\ packed \in BOOLEAN
    /\ stack \in [1..MaxDepth -> Frame]
    /\ ret \in {"OK", "UNKNOWN_FIELD", "END_OF_BUF"}
    /\ status \in {"running", "aborted", "undefined"}
    /\ starts \in 0..MaxStarts
    /\ damage \in {"none", "bytes", "frames"}

\* Every frame but the first was pushed for a message or a packed run.
PushedFields ==
    \A i \in 2..depth :
        stack[i].field \in Field
        /\ (Typ[stack[i].field] = "message" \/ Packed[stack[i].field])

\* The open frames are nested: each lies Reserve bytes behind the position of
\* its parent, which does not move while the child is open, and ends where the
\* caller's buffer ends.  It holds whatever the caller ignored, until it
\* ignores the END_OF_BUF of a start call (push_stack_frame, nested_start).
FramesNested ==
    damage # "frames" =>
        \A i \in 1..depth :
            /\ stack[i].buf # Uninit
            /\ stack[i].buf.end = stack[1].buf.end
            /\ i > 1 => stack[i].buf.base = stack[i - 1].buf.pos + Reserve

\* The inductive invariant behind FramesNested.
FramesInv == TypeOK /\ PushedFields /\ FramesNested

\* encoder->packed says that the top frame, and no other, is a packed run
\* (the one frame without a message descriptor), across every push and pop.
PackedIsTop ==
    Intact => \A i \in 1..depth : stack[i].msg = NoMsg <=> (packed /\ i = depth)

\* A frame is the root message's, or it has the descriptors it was pushed with:
\* those of a nested message, or of a packed run, which has no message.
FramesPushed ==
    /\ depth > 0 => stack[1].field = NoField /\ stack[1].msg = RootMsg
    /\ \A i \in 2..depth :
          \/ Typ[stack[i].field] = "message" /\ stack[i].msg = SubMsg[stack[i].field]
          \/ Packed[stack[i].field] /\ stack[i].msg = NoMsg

\* The inductive invariant behind PackedIsTop.
PackedInv == FramesInv /\ FramesPushed /\ PackedIsTop

\* A call writes only the bytes it appends to the frame it leaves on top: no
\* byte already written for an open message is touched, nor any byte beyond
\* the buffer, in spite of the reserve and the overlapping move.
WritesOnlyAppend ==
    [][starts' = starts /\ damage' # "frames" =>
        \A a \in Addr : mem'[a] # mem[a] =>
            /\ a >= stack[depth'].buf.pos
            /\ a < stack'[depth'].buf.pos
            /\ a < stack[1].buf.end]_vars

\* Once a start call has succeeded, the matching end call finds room for the
\* key, the length and the bytes, however full the buffer has become.
EndAlwaysFits ==
    [][starts' = starts /\ depth' < depth /\ damage # "frames"
          /\ status' = "running" => ret' # "END_OF_BUF"]_vars

\* What the buffer holds is what a stack of separate strings would hold.
OpenStrings ==
    IF Intact
    THEN [i \in 1..depth |->
            [field |-> stack[i].field,
             bytes |-> Bytes(mem, stack[i].buf.base, Used(stack[i].buf))]]
    ELSE << >>

Builder == INSTANCE MessageBuilder WITH open <- OpenStrings, valid <- Intact

\* The encoder, with its one buffer, reserved bytes and moves, implements the
\* abstract builder as long as no error was ignored.
ImplementsBuilder == Builder!BSpec
=============================================================================
