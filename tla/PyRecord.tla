------------------------------ MODULE PyRecord ------------------------------
(***************************************************************************)
(* What encode promises of a record: which dicts are of the right types,   *)
(* what their encoding is, and how much room the two passes need for it.   *)
(* These are functions on Python objects, by recursion on their parts.     *)
(***************************************************************************)
EXTENDS PyEncoder

CONSTANTS
    Object,       \* the Python objects records are made of
    Height        \* Height[o]: how deep the parts of o are nested

\* No dict is part of itself: on one that is, pyobject_encode does not return.
ASSUME ObjectAssumption ==
    /\ Other \in Object
    /\ Height \in [Object -> Nat]
    /\ \A o \in Object :
          /\ o.n \in Nat
          /\ \A f \in DOMAIN o.of :
                /\ o.of[f] \in Seq(Object)
                /\ \A i \in DOMAIN o.of[f] : Height[o.of[f][i]] < Height[o]

\* The room is enough for a key of 5 bytes and a length of 5 (below 2^35).
ASSUME ReserveAssumption ==
    \A f \in Field : KeyLen[f] + 1 + Cardinality(VarintSteps) <= MSG_RESERVE_BYTES

\* The sum, and the concatenation, of the first k of a sequence, for each k.
Sums(ns) == LET sum[k \in 0..Len(ns)] == IF k = 0 THEN 0 ELSE sum[k - 1] + ns[k]
            IN  sum

Joins(ss) == LET join[k \in 0..Len(ss)] == IF k = 0 THEN << >> ELSE join[k - 1] \o ss[k]
             IN  join

-----------------------------------------------------------------------------
(* A record of the right types: the values of the fields of its message    *)
(* are, at every level; what else a dict has does not matter.              *)

ItemTyped(typed, f, x) ==
    IF Typ[f] = "message" THEN typed[x][SubMsg[f]] ELSE x.kind = "number"

WellTyped[o \in Object] ==
    [m \in Msg |->
        /\ o.kind = "dict"
        /\ \A f \in FieldsOf[m] \cap DOMAIN o.of :
              \A i \in DOMAIN o.of[f] : ItemTyped(WellTyped, f, o.of[f][i])]

-----------------------------------------------------------------------------
(* The encoding of a record of message m: its fields in the order of the   *)
(* descriptor, each with its values in order.                              *)

ScalarBytes(f, n, raw) ==
    Header(f, n, raw) \o SubSeq(ValueBytes(f, n), 1, BodyLen(f, n, raw))

\* A message, or a packed run, behind its key and length.
Enclosed(f, bytes) == Header(f, Len(bytes), FALSE) \o bytes

ItemBytes(enc, f, x) ==
    IF Typ[f] = "message" THEN Enclosed(f, enc[x][SubMsg[f]])
                          ELSE ScalarBytes(f, x.n, Packed[f])

\* The first values of f, and the first fields of m.
ItemsBytes(enc, o, f) == Joins([i \in 1..Len(o.of[f]) |-> ItemBytes(enc, f, o.of[f][i])])

FieldBytes(enc, o, f) ==
    IF f \notin DOMAIN o.of THEN << >>
    ELSE LET bytes == ItemsBytes(enc, o, f)[Len(o.of[f])]
         IN  IF Packed[f] THEN Enclosed(f, bytes) ELSE bytes

FieldsBytes(enc, o, m) ==
    Joins([i \in 1..Len(FieldOrder[m]) |-> FieldBytes(enc, o, FieldOrder[m][i])])

Encoded[o \in Object] ==
    [m \in Msg |-> FieldsBytes(Encoded, o, m)[Len(FieldOrder[m])]]

-----------------------------------------------------------------------------
(* The room pass 0 finds a record needs: its bytes, and those left free    *)
(* for the key and length of each nested message and packed run.           *)

ItemRoom(room, f, x) ==
    IF Typ[f] = "message"
    THEN MSG_RESERVE_BYTES + AddedLen(f, room[x][SubMsg[f]], FALSE)
    ELSE AddedLen(f, x.n, Packed[f])

ItemsRoom(room, o, f) == Sums([i \in 1..Len(o.of[f]) |-> ItemRoom(room, f, o.of[f][i])])

FieldRoom(room, o, f) ==
    IF f \notin DOMAIN o.of THEN 0
    ELSE LET n == ItemsRoom(room, o, f)[Len(o.of[f])]
         IN  IF Packed[f] THEN MSG_RESERVE_BYTES + AddedLen(f, n, FALSE) ELSE n

FieldsRoom(room, o, m) ==
    Sums([i \in 1..Len(FieldOrder[m]) |-> FieldRoom(room, o, FieldOrder[m][i])])

Room[o \in Object] ==
    [m \in Msg |-> FieldsRoom(Room, o, m)[Len(FieldOrder[m])]]

-----------------------------------------------------------------------------
(* Properties.                                                             *)

IsSeq(q) == q \in Seq({q[i] : i \in DOMAIN q})

\* A string encode returns is a sequence of bytes.
StringIsBytes == \A k \in DOMAIN string : IsSeq(string[k])

\* "In pass #0, invoke the object encoder on a NULL buffer just to calculate
\* the required size": what pass 1 writes, the bytes left free for lengths
\* included, stays inside a buffer of that size, and every record whose values
\* have the right types is encoded (unless there is no memory).
SizeSuffices ==
    WellTyped[dict][RootMsg] =>
        /\ status \notin {"overflow", "undefined", "aborted"}
        /\ status = "encoded" => string # << >> \/ raised

\* encode returns the encoding of the record, whatever was moved about in the
\* buffer; and it returns none for a record that has a value of a wrong type.
EncodesRecord ==
    string # << >> => /\ WellTyped[dict][RootMsg]
                      /\ string[1] = Encoded[dict][RootMsg]

-----------------------------------------------------------------------------
(* The invariant these follow from.                                        *)

\* The field a call is at, and the value of it.
FieldOf(fr) == FieldOrder[fr.msg][fr.i]
ValuesOf(fr) == fr.obj.of[FieldOf(fr)]
ItemOf(fr) == ValuesOf(fr)[fr.j]

FrameType == [obj : Object, msg : Msg, buf : Nat \cup {NULL}, len : Nat, extralen : Nat,
              i : Nat \ {0}, j : Nat, fieldbuf : Nat \cup {NULL}, fieldlen : Nat,
              valuebuf : Nat \cup {NULL}]

\* Calls that run, and the one that has returned, if its result is not used yet.
Calls == Len(frames) + Len(ret)

\* What call k is for, and where it writes.
CallObj(k)   == IF k = 1 THEN dict ELSE ItemOf(frames[k - 1])
CallMsg(k)   == IF k = 1 THEN RootMsg ELSE SubMsg[FieldOf(frames[k - 1])]
CallStart(k) == IF k = 1 THEN 0 ELSE frames[k - 1].valuebuf + MSG_RESERVE_BYTES

\* A call waits at a message, and is in a field its dict has, if in any.
FrameWalks(fr, waits) ==
    /\ fr.i <= Len(FieldOrder[fr.msg]) + 1
    /\ fr.j > 0 => /\ fr.obj.kind = "dict" /\ fr.i <= Len(FieldOrder[fr.msg])
                   /\ FieldOf(fr) \in DOMAIN fr.obj.of
                   /\ fr.j <= Len(ValuesOf(fr)) + 1
    /\ waits => fr.j > 0 /\ fr.j <= Len(ValuesOf(fr)) /\ Typ[FieldOf(fr)] = "message"
    /\ IF pass = 0 THEN fr.buf = NULL /\ (fr.j > 0 => fr.fieldbuf = NULL /\ fr.valuebuf = NULL)
                   ELSE fr.buf \in Nat /\ (fr.j > 0 => fr.fieldbuf \in Nat /\ fr.valuebuf \in Nat)

WalkInv ==
    /\ dict \in Object /\ pass \in {0, 1} /\ IsSeq(mem)
    /\ frames \in Seq(FrameType)
    /\ ret = << >> \/ (ret = << ret[1] >> /\ ret[1] \in Nat \cup {SizeMax})
    /\ Calls >= 1
    /\ \A k \in 1..Len(frames) :
          /\ frames[k].obj = CallObj(k) /\ frames[k].msg = CallMsg(k)
          /\ FrameWalks(frames[k], k < Calls)

\* In a run, values are added bare, and nowhere else.
PackedInRun ==
    packed <=> frames # << >> /\ frames[Len(frames)].j > 0 /\ Packed[FieldOf(frames[Len(frames)])]

\* The room of the fields, and of the values of its field, a call has left behind.
FieldsLeft(fr) == FieldsRoom(Room, fr.obj, fr.msg)[fr.i - 1]
ItemsLeft(fr) == ItemsRoom(Room, fr.obj, FieldOf(fr))[fr.j - 1]

\* Pass 0 counts that room, and that of the item it waits for.
FrameCounts(fr, waits) ==
    /\ fr.j = 0 => fr.len + fr.extralen = FieldsLeft(fr)
    /\ fr.j > 0 =>
          IF Packed[FieldOf(fr)]
          THEN /\ fr.len + fr.extralen = FieldsLeft(fr) + MSG_RESERVE_BYTES
               /\ fr.fieldlen = ItemsLeft(fr)
          ELSE fr.len + fr.extralen + fr.fieldlen =
                  FieldsLeft(fr) + ItemsLeft(fr) + (IF waits THEN MSG_RESERVE_BYTES ELSE 0)

\* Pass 1 writes no more than that, one value behind the other, from start on.
FrameFits(fr, start) ==
    /\ start \in Nat /\ start + Room[fr.obj][fr.msg] <= Len(mem)
    /\ fr.buf = start + fr.len /\ fr.len <= FieldsLeft(fr)
    /\ fr.j > 0 =>
          /\ fr.fieldbuf = fr.buf + (IF Packed[FieldOf(fr)] THEN MSG_RESERVE_BYTES ELSE 0)
          /\ fr.valuebuf = fr.fieldbuf + fr.fieldlen
          /\ fr.fieldlen <= ItemsLeft(fr)

\* A call writes behind those that wait for it, and the room they leave.
Nested ==
    \A j, k \in 1..Len(frames) : j < k => frames[j].valuebuf + MSG_RESERVE_BYTES <= frames[k].buf

\* For a record of the right types.
SizeInv ==
    /\ PackedInRun /\ raised = FALSE
    /\ pass = 1 => Len(mem) = Room[dict][RootMsg] /\ Nested
    /\ \A k \in 1..Len(frames) :
          /\ WellTyped[frames[k].obj][frames[k].msg]
          /\ IF pass = 0 THEN FrameCounts(frames[k], k < Calls)
                         ELSE FrameFits(frames[k], CallStart(k))
    /\ ret # << >> =>
          LET room == Room[CallObj(Calls)][CallMsg(Calls)]
          IN  ret[1] \in Nat /\ IF pass = 0 THEN ret[1] = room ELSE ret[1] <= room

\* The bytes of seq are in m, from p on.
Holds(m, p, seq) == \A q \in 1..Len(seq) : m[p + q] = seq[q]

\* What pass 1 has written of the fields and of the values of its field.
FieldsDone(fr) == FieldsBytes(Encoded, fr.obj, fr.msg)[fr.i - 1]
ItemsDone(fr) == ItemsBytes(Encoded, fr.obj, FieldOf(fr))[fr.j - 1]

FrameHolds(fr, start) ==
    /\ fr.len = Len(FieldsDone(fr)) /\ Holds(mem, start, FieldsDone(fr))
    /\ fr.j > 0 => fr.fieldlen = Len(ItemsDone(fr)) /\ Holds(mem, fr.fieldbuf, ItemsDone(fr))

BytesInv ==
    pass = 1 =>
       /\ \A k \in 1..Len(frames) : FrameHolds(frames[k], CallStart(k))
       /\ ret # << >> =>
             LET bytes == Encoded[CallObj(Calls)][CallMsg(Calls)]
             IN  ret[1] = Len(bytes) /\ Holds(mem, CallStart(Calls), bytes)

\* The values of f in o are of the right type, up to the n-th.
ItemsTyped(typed, o, f, n) == \A i \in 1..n : ItemTyped(typed, f, o.of[f][i])

\* What a call has left behind is of the right types.
FrameTyped(typed, fr) ==
    /\ fr.i > 1 => fr.obj.kind = "dict"
    /\ \A i \in 1..(fr.i - 1) :
          LET f == FieldOrder[fr.msg][i]
          IN  f \in DOMAIN fr.obj.of => ItemsTyped(typed, fr.obj, f, Len(fr.obj.of[f]))
    /\ fr.j > 0 => ItemsTyped(typed, fr.obj, FieldOf(fr), fr.j - 1)

\* Anything may be a message, for the outermost call of pass 0.
AnyMessage == [o \in Object |-> [m \in Msg |-> TRUE]]

Shallow(o, m) ==
    /\ o.kind = "dict"
    /\ \A f \in FieldsOf[m] \cap DOMAIN o.of : ItemsTyped(AnyMessage, o, f, Len(o.of[f]))

TypesInv ==
    /\ pass = 0 /\ frames # << >> => FrameTyped(AnyMessage, frames[1])
    /\ pass = 0 /\ frames = << >> /\ ret[1] # SizeMax => Shallow(dict, RootMsg)
    /\ pass = 1 =>
          /\ Shallow(dict, RootMsg)
          /\ \A k \in 1..Len(frames) : FrameTyped(WellTyped, frames[k])
          /\ ret # << >> => IF ret[1] = SizeMax THEN frames # << >>
                            ELSE WellTyped[CallObj(Calls)][CallMsg(Calls)]

EncoderInv ==
    /\ dict \in Object /\ packed \in BOOLEAN /\ raised \in BOOLEAN
    /\ status = "encoding" =>
          /\ WalkInv /\ TypesInv /\ string = << >>
          /\ WellTyped[dict][RootMsg] => SizeInv /\ BytesInv
    /\ StringIsBytes /\ SizeSuffices /\ EncodesRecord
=============================================================================
