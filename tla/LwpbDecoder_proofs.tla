------------------------- MODULE LwpbDecoder_proofs -------------------------
(***************************************************************************)
(* Proofs about the decoder and the handlers set on it, for every schema,  *)
(* every input (whole, cut short, of a newer schema) and every depth.      *)
(***************************************************************************)
EXTENDS DecoderClients, Foundations, FiniteSetTheorems, SequenceTheorems, TLAPS

-----------------------------------------------------------------------------
(* Reading numbers. *)

\* A varint takes a byte or more.
LEMMA VarintType ==
    ASSUME NEW n \in Nat
    PROVE  VarintLen[n] \in Nat \ {0}
  <1>1. PICK c : c = Cardinality({k \in VarintSteps : k <= n})
    OBVIOUS
  <1>2. c \in Nat
    BY <1>1, LengthAssumption, CountUpTo
  <1>3. VarintLen[n] = 1 + c
    BY <1>1 DEF VarintLen
  <1>4. QED
    BY <1>2, <1>3

\* What a byte is a byte of, and how far it reaches.
LEMMA ByteFacts ==
    ASSUME NEW cell \in Byte
    PROVE  /\ cell[1] = "key" => /\ cell[2] \in Field /\ cell[3] \in WireTypes
                                 /\ Width(cell) \in Nat \ {0}
           /\ cell[1] = "len" => cell[2] \in 0..BufLen /\ Width(cell) \in Nat \ {0}
           /\ cell[1] = "val" => cell[2] \in Field /\ Width(cell) \in Nat
  <1>1. CASE cell \in {"key"} \X Field \X WireTypes \X Nat
    <2>1. cell[1] = "key" /\ cell[2] \in Field /\ cell[3] \in WireTypes
      BY <1>1
    <2>2. QED
      BY <2>1, LengthAssumption DEF Width
  <1>2. CASE cell \in {"len"} \X (0..BufLen) \X Nat
    <2>1. cell[1] = "len" /\ cell[2] \in 0..BufLen /\ cell[2] \in Nat
      BY <1>2, LengthAssumption
    <2>2. QED
      BY <2>1, VarintType DEF Width
  <1>3. CASE cell \in {"val"} \X Field \X (0..BufLen) \X Nat
    <2>1. cell[1] = "val" /\ cell[2] \in Field /\ cell[3] \in 0..BufLen
      BY <1>3
    <2>2. QED
      BY <2>1, LengthAssumption DEF Width
  <1>4. QED
    BY <1>1, <1>2, <1>3 DEF Byte

\* The data between two places of a buffer.
DataOK == in.data \in Seq(Byte) /\ Len(in.data) <= BufLen

\* A number that was read lies between the position and the end.
LEMMA VarintFacts ==
    ASSUME DataOK, NEW what \in {"key", "len", "val"},
           NEW pos \in Nat, NEW end \in Nat, end <= Len(in.data),
           Varint(what, pos, end).res = "ok"
    PROVE  /\ Varint(what, pos, end).pos \in Nat
           /\ pos <= Varint(what, pos, end).pos /\ Varint(what, pos, end).pos <= end
           /\ what = "key" => /\ Varint(what, pos, end).cell[2] \in Field
                              /\ Varint(what, pos, end).cell[3] \in WireTypes
           /\ what = "len" => /\ Varint(what, pos, end).cell[2] \in 0..BufLen
                              /\ pos < Varint(what, pos, end).pos
  <1> DEFINE cell == in.data[pos + 1]
  <1>1. pos < end /\ Starts(cell, what) /\ ~(pos + Width(cell) > end)
    <2>1. pos < end
      <3> SUFFICES ASSUME pos >= end PROVE FALSE
        OBVIOUS
      <3>1. Varint(what, pos, end).res = "undefined"
        BY DEF Varint
      <3>2. QED
        BY <3>1
    <2>2. Starts(cell, what)
      <3> SUFFICES ASSUME ~Starts(cell, what) PROVE FALSE
        OBVIOUS
      <3>1. Varint(what, pos, end).res = "garbled"
        BY <2>1 DEF Varint
      <3>2. QED
        BY <3>1
    <2>3. ~(pos + Width(cell) > end)
      <3> SUFFICES ASSUME pos + Width(cell) > end PROVE FALSE
        OBVIOUS
      <3>1. Varint(what, pos, end).res = "END_OF_BUF"
        BY <2>1, <2>2 DEF Varint
      <3>2. QED
        BY <3>1
    <2>4. QED
      BY <2>1, <2>2, <2>3
  <1>2. /\ Varint(what, pos, end).pos = pos + Width(cell)
        /\ Varint(what, pos, end).cell = cell
    BY <1>1 DEF Varint
  <1>3. cell \in Byte
    <2>1. Len(in.data) \in Nat
      BY DEF DataOK
    <2>2. pos + 1 \in 1..Len(in.data)
      BY <1>1, <2>1
    <2>3. QED
      BY <2>2, ElementOfSeq DEF DataOK
  <1>4. cell[1] = what
    BY <1>1 DEF Starts
  <1> HIDE DEF cell
  <1>5. Width(cell) \in Nat
    BY <1>3, <1>4, ByteFacts
  <1>6. what # "val" => Width(cell) > 0
    BY <1>3, <1>4, ByteFacts
  <1>7. /\ pos + Width(cell) \in Nat /\ pos <= pos + Width(cell)
        /\ pos + Width(cell) <= end
    BY <1>1, <1>5
  <1>8. what = "len" => pos < pos + Width(cell)
    BY <1>5, <1>6
  <1>9. QED
    BY <1>1, <1>2, <1>3, <1>4, <1>7, <1>8, ByteFacts

\* How a read can go.
LEMMA ReadResults ==
    ASSUME NEW what, NEW pos, NEW end
    PROVE  Varint(what, pos, end).res \in {"ok", "undefined", "garbled", "END_OF_BUF"}
  BY DEF Varint

\* A wire value that was read lies between the position and the end, and ends
\* where the next begins; the bytes of a string come behind their length.
LEMMA ValueFacts ==
    ASSUME DataOK, NEW wt \in WireTypes,
           NEW pos \in Nat, NEW end \in Nat, end <= Len(in.data),
           Value(wt, pos, end).res = "ok"
    PROVE  /\ Value(wt, pos, end).pos \in Nat /\ Value(wt, pos, end).from \in Nat
           /\ Value(wt, pos, end).len \in 0..BufLen
           /\ Value(wt, pos, end).from + Value(wt, pos, end).len = Value(wt, pos, end).pos
           /\ pos <= Value(wt, pos, end).from /\ Value(wt, pos, end).pos <= end
           /\ wt = "STRING" => pos < Value(wt, pos, end).from
  <1>1. end <= BufLen /\ BufLen \in Nat /\ Len(in.data) \in Nat
    BY LengthAssumption DEF DataOK
  <1>2. CASE wt = "STRING"
    <2> DEFINE r == Varint("len", pos, end)
               n == r.cell[2]
    <2>1. /\ r.res = "ok" /\ ~(n > end - r.pos)
          /\ Value(wt, pos, end) = [res |-> "ok", pos |-> r.pos + n, from |-> r.pos, len |-> n]
      BY <1>2 DEF Value
    <2>2. r.pos \in Nat /\ pos < r.pos /\ r.pos <= end /\ n \in 0..BufLen
      BY <2>1, VarintFacts
    <2> HIDE DEF r, n
    <2>3. r.pos + n \in Nat /\ r.pos + n <= end
      BY <2>1, <2>2, <1>1
    <2>4. QED
      BY <2>1, <2>2, <2>3
  <1>3. CASE wt # "STRING"
    <2> DEFINE r == Varint("val", pos, end)
    <2>1. /\ r.res = "ok"
          /\ Value(wt, pos, end) = [res |-> "ok", pos |-> r.pos, from |-> pos, len |-> r.pos - pos]
      BY <1>3 DEF Value, WireTypes, Bits
    <2>2. r.pos \in Nat /\ pos <= r.pos /\ r.pos <= end
      BY <2>1, VarintFacts
    <2> HIDE DEF r
    <2>3. r.pos - pos \in 0..BufLen /\ pos + (r.pos - pos) = r.pos
      BY <1>1, <2>2
    <2>4. QED
      BY <2>1, <2>2, <2>3, <1>3
  <1>4. QED
    BY <1>2, <1>3

\* How the read of a value may come out.
LEMMA ValueResults ==
    ASSUME NEW wt \in WireTypes, NEW pos, NEW end
    PROVE  Value(wt, pos, end).res \in {"ok", "undefined", "garbled", "END_OF_BUF"}
  <1>1. CASE wt = "STRING"
    BY <1>1, ReadResults DEF Value
  <1>2. CASE wt # "STRING"
    BY <1>2, ReadResults DEF Value, WireTypes, Bits
  <1>3. QED
    BY <1>1, <1>2

-----------------------------------------------------------------------------
(* Frames. *)

\* FramesNested for the first d frames of any stack.
Nested(stk, d) ==
    \A i \in 1..d :
        LET b == stk[i].buf
        IN  /\ b.base <= b.pos /\ b.pos <= b.end
            /\ b.end <= Len(in.data)
            /\ i > 1 => b.end = stk[i - 1].buf.pos /\ stk[i - 1].buf.base < b.base

\* A frame of the stack, and its parts.
LEMMA FrameType ==
    ASSUME NEW stk \in Seq(Frame), NEW i \in 1..Len(stk)
    PROVE  /\ stk[i] \in Frame
           /\ stk[i].buf.base \in Nat /\ stk[i].buf.pos \in Nat /\ stk[i].buf.end \in Nat
           /\ stk[i].msg \in Msg
  <1>1. stk[i] \in Frame
    BY ElementOfSeq
  <1>2. QED
    BY <1>1 DEF Frame

\* The position of the top frame moves on within the frame.
LEMMA Advance ==
    ASSUME NEW stk \in Seq(Frame), NEW d \in Nat \ {0}, Len(stk) = d, Nested(stk, d),
           NEW p \in Nat, stk[d].buf.pos <= p, p <= stk[d].buf.end,
           NEW next, next = [stk EXCEPT ![d].buf.pos = p]
    PROVE  /\ next \in Seq(Frame) /\ Len(next) = d /\ Nested(next, d)
           /\ next[d].buf.pos = p /\ next[d].buf.base = stk[d].buf.base
           /\ next[d].msg = stk[d].msg
  <1> DEFINE top == [stk[d] EXCEPT !.buf.pos = p]
  <1>1. d \in 1..Len(stk)
    OBVIOUS
  <1>2. stk[d] \in Frame
    BY <1>1, FrameType
  <1>3. /\ top \in Frame
        /\ top.buf.pos = p /\ top.buf.base = stk[d].buf.base
        /\ top.buf.end = stk[d].buf.end /\ top.msg = stk[d].msg
    BY <1>2 DEF Frame
  <1>4. next = [stk EXCEPT ![d] = top]
    OBVIOUS
  <1> HIDE DEF top
  <1>5. /\ next \in Seq(Frame) /\ Len(next) = d
        /\ \A j \in 1..d : next[j] = IF j = d THEN top ELSE stk[j]
    BY <1>1, <1>3, <1>4, ExceptSeq, SMTT(30)
  <1>6. Nested(next, d)
    <2> SUFFICES ASSUME NEW i \in 1..d
                 PROVE  /\ next[i].buf.base <= next[i].buf.pos
                        /\ next[i].buf.pos <= next[i].buf.end
                        /\ next[i].buf.end <= Len(in.data)
                        /\ i > 1 => /\ next[i].buf.end = next[i - 1].buf.pos
                                    /\ next[i - 1].buf.base < next[i].buf.base
      BY DEF Nested
    <2>1. /\ stk[i].buf.base <= stk[i].buf.pos /\ stk[i].buf.pos <= stk[i].buf.end
          /\ stk[i].buf.end <= Len(in.data)
          /\ i > 1 => /\ stk[i].buf.end = stk[i - 1].buf.pos
                      /\ stk[i - 1].buf.base < stk[i].buf.base
      BY DEF Nested
    <2>2. i > 1 => i - 1 \in 1..d /\ i - 1 # d
      OBVIOUS
    <2>3. i > 1 => next[i - 1] = stk[i - 1]
      BY <1>5, <2>2
    <2>4. CASE i = d
      <3>1. next[i] = top
        BY <1>5, <2>4
      <3>2. stk[d].buf.base \in Nat
        BY <1>1, FrameType
      <3>3. stk[d].buf.pos \in Nat
        BY <1>1, FrameType
      <3>4. stk[d].buf.base <= p
        BY <2>1, <2>4, <3>2, <3>3
      <3>5. QED
        BY <1>3, <2>1, <2>3, <2>4, <3>1, <3>4
    <2>5. CASE i # d
      BY <1>5, <2>1, <2>3, <2>5
    <2>6. QED
      BY <2>4, <2>5
  <1>7. QED
    BY <1>3, <1>5, <1>6

\* A frame is pushed over bytes that end where the top frame's position is.
LEMMA Descend ==
    ASSUME NEW stk \in Seq(Frame), NEW d \in Nat \ {0}, Len(stk) = d, Nested(stk, d),
           Len(in.data) \in Nat, NEW m \in Msg, NEW from \in Nat, NEW len \in Nat,
           from + len = stk[d].buf.pos, stk[d].buf.base < from,
           NEW next, next = Append(stk, [buf |-> NewBuf(from, len), msg |-> m])
    PROVE  /\ next \in Seq(Frame) /\ Len(next) = d + 1 /\ Nested(next, d + 1)
  <1> DEFINE top == [buf |-> NewBuf(from, len), msg |-> m]
  <1>1. from + len \in Nat /\ from <= from + len
    OBVIOUS
  <1>2. /\ top \in Frame /\ top.msg = m
        /\ top.buf.base = from /\ top.buf.pos = from /\ top.buf.end = from + len
    BY <1>1 DEF Frame, NewBuf
  <1>3. next = Append(stk, top)
    OBVIOUS
  <1> HIDE DEF top
  <1>4. /\ next \in Seq(Frame) /\ Len(next) = d + 1
        /\ \A j \in 1..d : next[j] = stk[j]
        /\ next[d + 1] = top
    BY <1>2, <1>3, AppendProperties
  <1>5. Nested(next, d + 1)
    <2> SUFFICES ASSUME NEW i \in 1..(d + 1)
                 PROVE  /\ next[i].buf.base <= next[i].buf.pos
                        /\ next[i].buf.pos <= next[i].buf.end
                        /\ next[i].buf.end <= Len(in.data)
                        /\ i > 1 => /\ next[i].buf.end = next[i - 1].buf.pos
                                    /\ next[i - 1].buf.base < next[i].buf.base
      BY DEF Nested
    <2>1. CASE i = d + 1
      <3>1. i - 1 = d /\ d \in 1..d /\ d \in 1..Len(stk)
        BY <2>1
      <3>2. next[i] = top /\ next[i - 1] = stk[d]
        BY <1>4, <2>1, <3>1
      <3>3. stk[d].buf.pos <= stk[d].buf.end /\ stk[d].buf.end <= Len(in.data)
        BY <3>1 DEF Nested
      <3>4. stk[d].buf.end \in Nat
        BY <3>1, FrameType
      <3>5. from + len <= Len(in.data)
        BY <1>1, <3>3, <3>4
      <3>6. QED
        BY <1>1, <1>2, <3>2, <3>5
    <2>2. CASE i # d + 1
      <3>1. i \in 1..d
        BY <2>2
      <3>2. i > 1 => i - 1 \in 1..d
        BY <3>1
      <3>3. next[i] = stk[i] /\ (i > 1 => next[i - 1] = stk[i - 1])
        BY <1>4, <3>1, <3>2
      <3>4. QED
        BY <3>1, <3>3 DEF Nested
    <2>3. QED
      BY <2>1, <2>2
  <1>6. QED
    BY <1>4, <1>5

\* The top frame is popped: what is below it has been read in part, and its
\* start is not told again.
LEMMA Ascend ==
    ASSUME NEW stk \in Seq(Frame), NEW d \in Nat \ {0}, Len(stk) = d, Nested(stk, d),
           NEW next, next = IF d > 1 THEN SubSeq(stk, 1, d - 1) ELSE stk
    PROVE  /\ next \in Seq(Frame) /\ Len(next) = (IF d - 1 = 0 THEN 1 ELSE d - 1)
           /\ Nested(next, d - 1)
           /\ \A pk : Entered(stk, d - 1, pk) = << >>
  <1>1. CASE d = 1
    <2>1. next = stk /\ d - 1 = 0 /\ Len(stk) = 1 /\ 1..0 = {}
      BY <1>1
    <2>2. Nested(next, 0)
      BY <2>1 DEF Nested
    <2>3. ~(0 >= 1)
      OBVIOUS
    <2>4. \A pk : Entered(stk, 0, pk) = << >>
      BY <2>3 DEF Entered
    <2>5. QED
      BY <2>1, <2>2, <2>4
  <1>2. CASE d > 1
    <2>1. next = SubSeq(stk, 1, d - 1)
      BY <1>2
    <2>2. /\ 1 \in Int /\ d - 1 \in Int /\ 1 <= d - 1 /\ d - 1 # 0
          /\ 1..(d - 1) \subseteq 1..Len(stk) /\ d - 1 - 1 + 1 = d - 1
      BY <1>2
    <2>3. \A i \in 1..(d - 1) : stk[i] \in Frame
      BY <2>2, ElementOfSeq
    <2>4. /\ next \in Seq(Frame) /\ Len(next) = d - 1
          /\ \A i \in 1..(d - 1) : next[i] = stk[1 + i - 1]
      BY <2>1, <2>2, <2>3, SubSeqProperties
    <2>5. \A i \in 1..(d - 1) : next[i] = stk[i]
      BY <2>4
    <2>6. Nested(next, d - 1)
      <3> SUFFICES ASSUME NEW i \in 1..(d - 1)
                   PROVE  /\ next[i].buf.base <= next[i].buf.pos
                          /\ next[i].buf.pos <= next[i].buf.end
                          /\ next[i].buf.end <= Len(in.data)
                          /\ i > 1 => /\ next[i].buf.end = next[i - 1].buf.pos
                                      /\ next[i - 1].buf.base < next[i].buf.base
        BY DEF Nested
      <3>1. i \in 1..d /\ (i > 1 => i - 1 \in 1..(d - 1))
        OBVIOUS
      <3>2. next[i] = stk[i] /\ (i > 1 => next[i - 1] = stk[i - 1])
        BY <2>5, <3>1
      <3>3. QED
        BY <3>1, <3>2 DEF Nested
    <2>7. \A pk : Entered(stk, d - 1, pk) = << >>
      <3>1. d \in 1..d /\ d \in 1..Len(stk) /\ d - 1 \in 1..d /\ d - 1 \in 1..Len(stk)
        BY <1>2
      <3>2. /\ stk[d].buf.base <= stk[d].buf.pos /\ stk[d].buf.pos <= stk[d].buf.end
            /\ stk[d].buf.end = stk[d - 1].buf.pos
            /\ stk[d - 1].buf.base < stk[d].buf.base
        BY <1>2, <3>1 DEF Nested
      <3>3. /\ stk[d].buf.base \in Nat /\ stk[d].buf.pos \in Nat /\ stk[d].buf.end \in Nat
        BY <3>1, FrameType
      <3>4. stk[d - 1].buf.base \in Nat /\ stk[d - 1].buf.pos \in Nat
        BY <3>1, FrameType
      <3> DEFINE a == stk[d].buf.base
                 b == stk[d].buf.pos
                 c == stk[d].buf.end
                 e == stk[d - 1].buf.base
                 g == stk[d - 1].buf.pos
      <3>5. /\ a <= b /\ b <= c /\ c = g /\ e < a
            /\ a \in Nat /\ b \in Nat /\ c \in Nat /\ e \in Nat /\ g \in Nat
        BY <3>2, <3>3, <3>4
      <3> HIDE DEF a, b, c, e, g
      <3>6. g - e # 0
        BY <3>5
      <3>7. Used(stk[d - 1].buf) # 0
        BY <3>6 DEF Used, g, e
      <3>8. QED
        BY <3>7 DEF Entered
    <2>8. QED
      BY <2>2, <2>4, <2>6, <2>7
  <1>3. QED
    BY <1>1, <1>2

-----------------------------------------------------------------------------
(* The calls of the handlers. *)

\* The calls of the message handlers (on_msg_start, on_msg_end).
LEMMA EventType ==
    ASSUME NEW m \in Msg, NEW pk \in BOOLEAN
    PROVE  /\ StartEvent(m, pk) \in Event /\ StartEvent(m, pk).call = "start"
           /\ EndEvent(m, pk) \in Event /\ EndEvent(m, pk).call = "end"
           /\ EndEvent(m, pk).packed = pk
  BY DEF StartEvent, EndEvent, Event

\* The calls of the field handler.
LEMMA FieldEventType ==
    ASSUME NEW m \in Msg, NEW f \in Field, NEW bytes \in Seq(Byte \cup {Junk})
    PROVE  /\ FieldEvent(m, f, bytes) \in Event
           /\ FieldEvent(m, f, bytes).call = "field"
           /\ FieldEvent(m, f, bytes).field = f
  BY DEF FieldEvent, Event

\* What a handler is given is a byte string.
LEMMA DeliveredType ==
    ASSUME DataOK, NEW f, NEW wt, NEW val,
           val.from \in Nat, val.len \in 0..BufLen, val.from + val.len <= Len(in.data)
    PROVE  Delivered(f, wt, val) \in Seq(Byte \cup {Junk})
  <1> DEFINE from == val.from
             len  == val.len
  <1>1. /\ from \in Nat /\ len \in Nat /\ from + len <= Len(in.data) /\ len \in 0..BufLen
        /\ Len(in.data) \in Nat
    BY LengthAssumption DEF DataOK
  <1>2. Cells(val.from, val.len) \in Seq(Byte)
    <2> HIDE DEF from, len
    <2>1. from + 1 \in Int /\ from + len \in Int
      BY <1>1
    <2>2. \A i \in (from + 1)..(from + len) : i \in 1..Len(in.data)
      BY <1>1
    <2>3. \A i \in (from + 1)..(from + len) : in.data[i] \in Byte
      BY <2>2, ElementOfSeq DEF DataOK
    <2>4. SubSeq(in.data, from + 1, from + len) \in Seq(Byte)
      BY <2>1, <2>3, SubSeqProperties
    <2>5. QED
      BY <2>4 DEF Cells, from, len
  <1>3. LenBytes(val.len) \in Seq(Byte)
    <2>1. VarintLen[len] \in Nat
      <3>1. len \in Nat
        BY <1>1
      <3> HIDE DEF len
      <3>2. QED
        BY <3>1, VarintType
    <2>2. \A i \in 1..VarintLen[len] : <<"len", len, i>> \in Byte
      BY <1>1, <2>1 DEF Byte
    <2>3. LenBytes(len) \in [1..VarintLen[len] -> Byte]
      BY <2>2 DEF LenBytes
    <2>4. QED
      BY <2>1, <2>3, SeqDef
  <1>4. << Junk >> \in Seq(Byte \cup {Junk})
    OBVIOUS
  <1>5. \A s \in Seq(Byte) : s \in Seq(Byte \cup {Junk})
    BY SeqMonotonic
  <1>6. QED
    BY <1>2, <1>3, <1>4, <1>5 DEF Delivered

\* Appending one call to those made so far.
LEMMA OneMore ==
    ASSUME NEW S, NEW q \in Seq(S), NEW e \in S
    PROVE  /\ q \o << e >> \in Seq(S) /\ Len(q \o << e >>) = Len(q) + 1
           /\ (q \o << e >>)[Len(q) + 1] = e
           /\ Append(q, e) = q \o << e >>
  <1>1. << e >> \in Seq(S) /\ Len(<< e >>) = 1 /\ << e >>[1] = e
    OBVIOUS
  <1>2. Len(q) \in Nat /\ Len(q) + 1 \in 1..(Len(q) + 1) /\ Len(q) + 1 - Len(q) = 1
    BY LenProperties
  <1>3. /\ q \o << e >> \in Seq(S) /\ Len(q \o << e >>) = Len(q) + 1
        /\ (q \o << e >>)[Len(q) + 1] = e
    BY <1>1, <1>2, ConcatProperties
  <1>4. Append(q, e) = q \o << e >>
    OBVIOUS
  <1>5. QED
    BY <1>3, <1>4

\* Appending two calls: a packed run may end in the step that delivers.
LEMMA TwoMore ==
    ASSUME NEW S, NEW q \in Seq(S), NEW e \in S, NEW g \in S
    PROVE  /\ q \o << e >> \o << g >> \in Seq(S)
           /\ Len(q \o << e >> \o << g >>) = Len(q) + 2
           /\ (q \o << e >> \o << g >>)[Len(q) + 1] = e
           /\ (q \o << e >> \o << g >>)[Len(q) + 2] = g
  <1> DEFINE p == q \o << e >>
  <1>1. p \in Seq(S) /\ Len(p) = Len(q) + 1 /\ p[Len(q) + 1] = e
    BY OneMore
  <1>2. Len(q) \in Nat
    BY LenProperties
  <1>3. << g >> \in Seq(S) /\ Len(<< g >>) = 1
    OBVIOUS
  <1> HIDE DEF p
  <1>4. /\ p \o << g >> \in Seq(S) /\ Len(p \o << g >>) = Len(p) + 1
        /\ (p \o << g >>)[Len(p) + 1] = g
    BY <1>1, OneMore
  <1>5. Len(q) + 1 \in 1..(Len(p) + 1) /\ Len(q) + 1 <= Len(p)
    BY <1>1, <1>2
  <1>6. (p \o << g >>)[Len(q) + 1] = p[Len(q) + 1]
    BY <1>1, <1>3, <1>5, ConcatProperties
  <1>7. Len(p) + 1 = Len(q) + 2
    BY <1>1, <1>2
  <1>8. QED
    BY <1>1, <1>4, <1>6, <1>7 DEF p

-----------------------------------------------------------------------------
(* A step of the decoder keeps DecoderInv. *)

\* What a step tells the handlers, and how it moves the depth meanwhile: nothing;
\* a field; the start of a run; a message field and its start; an end.
Told ==
    LET n == Len(events)
    IN  \/ Len(events') = n /\ depth' = depth /\ packed' = packed
        \/ /\ Len(events') = n + 1 /\ depth' = depth /\ packed' = packed
           /\ events'[n + 1].call = "field"
           /\ Typ[events'[n + 1].field] = "message" => status' = "aborted"
        \/ /\ Len(events') = n + 1 /\ depth' = depth + 1 /\ ~packed /\ packed'
           /\ events'[n + 1].call = "start"
        \/ /\ Len(events') = n + 2 /\ depth' = depth + 1 /\ ~packed /\ ~packed'
           /\ events'[n + 1].call = "field" /\ Typ[events'[n + 1].field] = "message"
           /\ events'[n + 2].call = "start"
        \/ /\ Len(events') = n + 1 /\ depth' = depth - 1 /\ ~packed'
           /\ events'[n + 1].call = "end" /\ events'[n + 1].packed = packed

\* FramesNested as a statement about a stack, to speak of the stack after a step.
LEMMA NestedFrames == FramesNested <=> Nested(stack, depth)
  BY DEF FramesNested, Nested

\* FramesNested after a step that keeps the input.
LEMMA NestedNext ==
    ASSUME in' = in
    PROVE  FramesNested' <=> Nested(stack', depth')
  BY DEF FramesNested, Nested

\* What the invariant says of the top frame.
LEMMA TopFacts ==
    ASSUME DecoderInv, depth >= 1
    PROVE  /\ depth \in Nat \ {0} /\ Len(stack) = depth /\ depth \in 1..Len(stack)
           /\ DataOK /\ Len(in.data) \in Nat /\ Nested(stack, depth)
           /\ stack[depth].msg \in Msg
           /\ stack[depth].buf.base \in Nat /\ stack[depth].buf.pos \in Nat
           /\ stack[depth].buf.end \in Nat /\ stack[depth].buf.end <= Len(in.data)
           /\ stack[depth].buf.base <= stack[depth].buf.pos
  <1>1. /\ depth \in Nat \ {0} /\ Len(stack) = depth /\ stack \in Seq(Frame)
        /\ DataOK /\ Nested(stack, depth)
    BY DecoderAssumption, NestedFrames DEF DecoderInv, DataOK
  <1>2. depth \in 1..Len(stack) /\ depth \in 1..depth
    BY <1>1
  <1>3. /\ stack[depth].msg \in Msg
        /\ stack[depth].buf.base \in Nat /\ stack[depth].buf.pos \in Nat
        /\ stack[depth].buf.end \in Nat
    BY <1>1, <1>2, FrameType
  <1>4. /\ stack[depth].buf.end <= Len(in.data)
        /\ stack[depth].buf.base <= stack[depth].buf.pos
    BY <1>1, <1>2 DEF Nested
  <1>5. Len(in.data) \in Nat
    BY <1>1, LenProperties DEF DataOK
  <1>6. QED
    BY <1>1, <1>2, <1>3, <1>4, <1>5

\* Pushing a frame over val, whose last byte the position of next has passed.
LEMMA PushStep ==
    ASSUME DecoderInv, status = "running", depth >= 1, in' = in,
           NEW next \in Seq(Frame), Len(next) = depth, Nested(next, depth),
           NEW m \in Msg, NEW pk \in BOOLEAN, NEW calls \in Seq(Event), NEW val,
           val.from \in Nat, val.len \in Nat,
           val.from + val.len = next[depth].buf.pos, next[depth].buf.base < val.from,
           Push(next, m, val, pk, calls)
    PROVE  \/ /\ status' = "aborted" /\ events' = events \o calls
              /\ UNCHANGED <<depth, packed, stack>>
           \/ /\ status' = "running" /\ events' = events \o calls \o << StartEvent(m, pk) >>
              /\ depth' = depth + 1 /\ depth' \in 0..MaxDepth /\ packed' = pk
              /\ stack' \in Seq(Frame) /\ Len(stack') = depth' /\ FramesNested'
  <1>1. CASE depth = MaxDepth
    BY <1>1, TopFacts, DecoderAssumption DEF Push
  <1>2. CASE depth < MaxDepth
    <2>1. /\ depth' = depth + 1 /\ packed' = pk /\ status' = status
          /\ stack' = Append(next, [buf |-> NewBuf(val.from, val.len), msg |-> m])
          /\ events' = events \o calls \o Entered(stack', depth', pk)
      BY <1>2, TopFacts, DecoderAssumption, SMTT(30) DEF Push
    <2>2. depth \in Nat \ {0} /\ Len(in.data) \in Nat
      BY TopFacts
    <2>3. depth + 1 \in 0..MaxDepth
      BY <1>2, <2>2, DecoderAssumption
    <2> DEFINE from == val.from
               len  == val.len
               longer == Append(next, [buf |-> NewBuf(from, len), msg |-> m])
    <2>3a. /\ from \in Nat /\ len \in Nat
           /\ from + len = next[depth].buf.pos /\ next[depth].buf.base < from
      OBVIOUS
    <2>3b. stack' = longer
      BY <2>1
    <2>3c. longer[depth + 1] = [buf |-> NewBuf(from, len), msg |-> m]
      BY <2>2
    <2> HIDE DEF from, len
    <2>4. longer \in Seq(Frame) /\ Len(longer) = depth + 1 /\ Nested(longer, depth + 1)
      <3>1. longer \in Seq(Frame)
        BY <2>2, <2>3a, Descend
      <3>2. Len(longer) = depth + 1
        BY <2>2
      <3>3. Nested(longer, depth + 1)
        BY <2>2, <2>3a, Descend
      <3>4. QED
        BY <3>1, <3>2, <3>3
    <2>4a. longer[depth + 1].msg = m /\ Used(longer[depth + 1].buf) = 0
      <3> HIDE DEF longer
      <3>1. from - from = 0
        BY <2>3a
      <3>2. QED
        BY <2>3c, <3>1 DEF Used, NewBuf
    <2> HIDE DEF longer
    <2>5. FramesNested'
      BY <2>1, <2>3b, <2>4, NestedNext
    <2>6. Entered(stack', depth', pk) = << StartEvent(m, pk) >>
      <3>1. depth' >= 1 /\ depth' = depth + 1 /\ m # NoMsg
        BY <2>1, <2>2, FieldAssumption
      <3>2. QED
        BY <2>3b, <2>4a, <3>1 DEF Entered
    <2>7. QED
      BY <2>1, <2>3, <2>3b, <2>4, <2>5, <2>6
  <1>3. QED
    BY <1>1, <1>2, DecoderAssumption, TopFacts DEF Push

\* DecoderInv after a step that stays in the frame.
LEMMA InvKept ==
    ASSUME DecoderInv, depth >= 1, in' = in, depth' = depth, packed' = packed,
           stack' \in Seq(Frame), Len(stack') = depth,
           field_desc' \in Field \cup {NoField}, packed => field_desc' = field_desc,
           events' \in Seq(Event),
           status' \in {"running", "END_OF_BUF", "aborted", "undefined", "garbled"},
           FramesNested'
    PROVE  DecoderInv'
  <1>1. depth \in 0..MaxDepth /\ depth # 0
    BY DecoderAssumption DEF DecoderInv
  <1>2. Len(stack') = IF depth' = 0 THEN 1 ELSE depth'
    BY <1>1
  <1>3. packed' => depth' > 1 /\ field_desc' \in Field /\ Packed[field_desc']
    BY DEF DecoderInv
  <1>4. status' # "OK" => depth' >= 1
    OBVIOUS
  <1>5. QED
    BY <1>1, <1>2, <1>3, <1>4 DEF DecoderInv

\* In packed mode no value is a string, nor belongs to a message.
LEMMA PackedValues ==
    ASSUME DecoderInv, packed
    PROVE  WireType(field_desc) # "STRING" /\ Typ[field_desc] # "message"
  <1>1. field_desc \in Field /\ Typ[field_desc] \in {"varint", "fixed"}
    BY FieldAssumption DEF DecoderInv
  <1>2. QED
    BY <1>1 DEF WireType

\* After one wire value of type wt, for field f, behind its key.
LEMMA ValueStep ==
    ASSUME DecoderInv, status = "running", depth >= 1, in' = in,
           NEW f \in Field \cup {NoField}, NEW wt \in WireTypes, NEW pos \in Nat,
           stack[depth].buf.pos <= pos, pos <= stack[depth].buf.end,
           packed => f = field_desc /\ wt = WireType(f),
           field_desc' = f, DecodeValue(f, wt, pos)
    PROVE  DecoderInv' /\ Told
  <1> DEFINE val  == Value(wt, pos, stack[depth].buf.end)
             next == [stack EXCEPT ![depth].buf.pos = val.pos]
             run  == wt = "STRING" /\ Packed[f]
  <1>1. /\ depth \in Nat \ {0} /\ Len(stack) = depth /\ depth \in 0..MaxDepth
        /\ stack \in Seq(Frame) /\ DataOK /\ Len(in.data) \in Nat /\ Nested(stack, depth)
        /\ stack[depth].msg \in Msg /\ packed \in BOOLEAN /\ events \in Seq(Event)
        /\ stack[depth].buf.base \in Nat /\ stack[depth].buf.pos \in Nat
        /\ stack[depth].buf.end \in Nat /\ stack[depth].buf.end <= Len(in.data)
        /\ stack[depth].buf.base <= stack[depth].buf.pos
        /\ packed => depth > 1 /\ field_desc \in Field /\ Packed[field_desc]
        /\ Len(events) \in Nat
    BY TopFacts DEF DecoderInv
  <1>2. CASE val.res # "ok"
    <2>1. Stop(val.res)
      BY <1>2 DEF DecodeValue
    <2>2. val.res \in {"ok", "undefined", "garbled", "END_OF_BUF"}
      BY ValueResults
    <2> HIDE DEF val
    <2>3. /\ status' = val.res /\ UNCHANGED <<depth, packed, stack, events>>
      BY <2>1 DEF Stop
    <2>4. FramesNested'
      BY <1>1, <2>3, NestedNext
    <2>5. DecoderInv'
      BY <1>1, <1>2, <2>2, <2>3, <2>4, InvKept
    <2>6. Told
      BY <2>3 DEF Told
    <2>7. QED
      BY <2>5, <2>6
  <1>3. CASE val.res = "ok"
    <2>1. /\ val.pos \in Nat /\ val.from \in Nat /\ val.len \in 0..BufLen
          /\ val.from + val.len = val.pos /\ pos <= val.from
          /\ val.pos <= stack[depth].buf.end
          /\ wt = "STRING" => pos < val.from
      BY <1>1, <1>3, ValueFacts
    <2>2. \/ f = NoField /\ Skip(next)
          \/ f # NoField /\ run /\ Push(next, stack[depth].msg, val, TRUE, << >>)
          \/ /\ f # NoField /\ Typ[f] = "message" /\ wt = "STRING"
             /\ Push(next, SubMsg[f], val, packed, << FieldEvent(RootMsg, f, << >>) >>)
          \/ f # NoField /\ Typ[f] = "message" /\ wt # "STRING" /\ Stop("undefined")
          \/ /\ f # NoField /\ ~run /\ Typ[f] # "message"
             /\ stack' = next
             /\ events' = Append(events,
                                 FieldEvent(stack[depth].msg, f, Delivered(f, wt, val)))
             /\ UNCHANGED <<depth, packed, status>>
      BY <1>3 DEF DecodeValue
    <2>2a. next = [stack EXCEPT ![depth].buf.pos = val.pos]
      OBVIOUS
    <2> HIDE DEF val, next
    <2>3. val.len \in Nat /\ stack[depth].buf.pos <= val.pos
      <3> DEFINE a == val.from
                 b == val.len
                 c == val.pos
                 p == stack[depth].buf.pos
      <3>1. /\ a \in Nat /\ b \in 0..BufLen /\ c \in Nat /\ p \in Nat /\ BufLen \in Nat
            /\ a + b = c /\ pos <= a /\ p <= pos
        BY <1>1, <2>1, LengthAssumption
      <3> HIDE DEF a, b, c, p
      <3>2. b \in Nat /\ p <= c
        BY <3>1
      <3>3. QED
        BY <3>2 DEF a, b, c, p
    <2>4. /\ next \in Seq(Frame) /\ Len(next) = depth /\ Nested(next, depth)
          /\ next[depth].buf.pos = val.pos /\ next[depth].buf.base = stack[depth].buf.base
      <3> DEFINE p == val.pos
      <3>0. /\ stack \in Seq(Frame) /\ depth \in Nat \ {0} /\ Len(stack) = depth
            /\ Nested(stack, depth) /\ p \in Nat
            /\ stack[depth].buf.pos <= p /\ p <= stack[depth].buf.end
            /\ next = [stack EXCEPT ![depth].buf.pos = p]
        BY <1>1, <2>1, <2>2a, <2>3
      <3> HIDE DEF p
      <3>1. next \in Seq(Frame)
        BY <3>0, Advance
      <3>2. Len(next) = depth
        BY <3>0, Advance
      <3>3. Nested(next, depth)
        BY <3>0, Advance
      <3>4. next[depth].buf.pos = p
        BY <3>0, Advance
      <3>5. next[depth].buf.base = stack[depth].buf.base
        BY <3>0, Advance
      <3>6. QED
        BY <3>1, <3>2, <3>3, <3>4, <3>5 DEF p
    <2>5. wt = "STRING" => next[depth].buf.base < val.from
      <3> DEFINE a == stack[depth].buf.base
                 p == stack[depth].buf.pos
                 c == val.from
      <3>1. a \in Nat /\ p \in Nat /\ c \in Nat /\ a <= p /\ p <= pos
        BY <1>1, <2>1
      <3>2. wt = "STRING" => pos < c
        BY <2>1
      <3> HIDE DEF a, p, c
      <3>3. wt = "STRING" => a < c
        BY <3>1, <3>2
      <3>4. QED
        BY <2>4, <3>3 DEF a, c
    <2>6. ASSUME stack' = next, depth' = depth PROVE FramesNested'
      BY <2>4, <2>6, NestedNext
    <2>7. CASE f = NoField /\ Skip(next)
      <3>1. stack' = next /\ UNCHANGED <<depth, packed, events, status>>
        BY <2>7 DEF Skip
      <3>2. ~packed
        BY <1>1, <2>7, FieldAssumption
      <3>3. FramesNested'
        BY <2>6, <3>1
      <3>4. DecoderInv'
        BY <1>1, <2>4, <3>1, <3>2, <3>3, InvKept
      <3>5. Told
        BY <3>1 DEF Told
      <3>6. QED
        BY <3>4, <3>5
    <2>8. CASE f # NoField /\ run /\ Push(next, stack[depth].msg, val, TRUE, << >>)
      <3>1. f \in Field /\ wt = "STRING" /\ Packed[f]
        BY <2>8
      <3>2. ~packed
        BY <3>1, PackedValues
      <3>3. << >> \in Seq(Event) /\ events \o << >> = events /\ TRUE \in BOOLEAN
        BY <1>1, ConcatEmptySeq, EmptySeq
      <3> DEFINE m == stack[depth].msg
      <3>4. m \in Msg /\ Push(next, m, val, TRUE, << >>)
        BY <1>1, <2>8
      <3> HIDE DEF m
      <3>5. \/ /\ status' = "aborted" /\ events' = events \o << >>
               /\ UNCHANGED <<depth, packed, stack>>
            \/ /\ status' = "running"
               /\ events' = events \o << >> \o << StartEvent(m, TRUE) >>
               /\ depth' = depth + 1 /\ depth' \in 0..MaxDepth /\ packed' = TRUE
               /\ stack' \in Seq(Frame) /\ Len(stack') = depth' /\ FramesNested'
        BY <2>1, <2>3, <2>4, <2>5, <3>1, <3>3, <3>4, PushStep
      <3>6. CASE /\ status' = "aborted" /\ events' = events \o << >>
                 /\ UNCHANGED <<depth, packed, stack>>
        <4>1. FramesNested'
          BY <1>1, <3>6, NestedNext
        <4>2. DecoderInv'
          BY <1>1, <3>2, <3>3, <3>6, <4>1, InvKept
        <4>3. Told
          BY <3>3, <3>6 DEF Told
        <4>4. QED
          BY <4>2, <4>3
      <3>7. CASE /\ status' = "running"
                 /\ events' = events \o << >> \o << StartEvent(m, TRUE) >>
                 /\ depth' = depth + 1 /\ depth' \in 0..MaxDepth /\ packed' = TRUE
                 /\ stack' \in Seq(Frame) /\ Len(stack') = depth' /\ FramesNested'
        <4>1. StartEvent(m, TRUE) \in Event /\ StartEvent(m, TRUE).call = "start"
          BY <3>4, EventType
        <4>2. /\ events' \in Seq(Event) /\ Len(events') = Len(events) + 1
              /\ events'[Len(events) + 1] = StartEvent(m, TRUE)
          <5> DEFINE g == StartEvent(m, TRUE)
          <5>1. events' = events \o << g >> /\ g \in Event /\ events \in Seq(Event)
            BY <1>1, <3>3, <3>7, <4>1
          <5> HIDE DEF g
          <5>2. /\ events' \in Seq(Event) /\ Len(events') = Len(events) + 1
                /\ events'[Len(events) + 1] = g
            BY <5>1, OneMore
          <5>3. QED
            BY <5>2 DEF g
        <4>3. depth' > 1 /\ depth' >= 1 /\ depth' # 0
          BY <1>1, <3>7
        <4>4. DecoderInv'
          BY <3>1, <3>7, <4>2, <4>3 DEF DecoderInv
        <4>5. Told
          BY <3>2, <3>7, <4>1, <4>2 DEF Told
        <4>6. QED
          BY <4>4, <4>5
      <3>8. QED
        BY <3>5, <3>6, <3>7
    <2>9. CASE /\ f # NoField /\ Typ[f] = "message" /\ wt = "STRING"
               /\ Push(next, SubMsg[f], val, packed, << FieldEvent(RootMsg, f, << >>) >>)
      <3> DEFINE m == SubMsg[f]
                 e == FieldEvent(RootMsg, f, << >>)
      <3>1. f \in Field /\ wt = "STRING" /\ Typ[f] = "message"
        BY <2>9
      <3>2. ~packed /\ packed = FALSE
        BY <1>1, <3>1, PackedValues
      <3>3. m \in Msg
        BY <3>1, FieldAssumption
      <3>4. e \in Event /\ e.call = "field" /\ e.field = f
        <4>1. RootMsg \in Msg /\ << >> \in Seq(Byte \cup {Junk})
          BY FieldAssumption, EmptySeq
        <4>2. QED
          BY <3>1, <4>1, FieldEventType
      <3>5. << e >> \in Seq(Event) /\ Push(next, m, val, FALSE, << e >>)
        <4>1. Push(next, m, val, FALSE, << e >>)
          BY <2>9, <3>2
        <4>2. << e >> \in Seq(Event)
          <5> HIDE DEF e
          <5>1. QED
            BY <3>4
        <4>3. QED
          BY <4>1, <4>2
      <3> HIDE DEF m, e
      <3>6. \/ /\ status' = "aborted" /\ events' = events \o << e >>
               /\ UNCHANGED <<depth, packed, stack>>
            \/ /\ status' = "running"
               /\ events' = events \o << e >> \o << StartEvent(m, FALSE) >>
               /\ depth' = depth + 1 /\ depth' \in 0..MaxDepth /\ packed' = FALSE
               /\ stack' \in Seq(Frame) /\ Len(stack') = depth' /\ FramesNested'
        BY <2>1, <2>3, <2>4, <2>5, <3>1, <3>3, <3>5, PushStep
      <3>7. CASE /\ status' = "aborted" /\ events' = events \o << e >>
                 /\ UNCHANGED <<depth, packed, stack>>
        <4>1. /\ events' \in Seq(Event) /\ Len(events') = Len(events) + 1
              /\ events'[Len(events) + 1] = e
          BY <1>1, <3>4, <3>7, OneMore
        <4>2. FramesNested'
          BY <1>1, <3>7, NestedNext
        <4>3. DecoderInv'
          BY <1>1, <3>2, <3>7, <4>1, <4>2, InvKept
        <4>4. Told
          BY <3>4, <3>7, <4>1 DEF Told
        <4>5. QED
          BY <4>3, <4>4
      <3>8. CASE /\ status' = "running"
                 /\ events' = events \o << e >> \o << StartEvent(m, FALSE) >>
                 /\ depth' = depth + 1 /\ depth' \in 0..MaxDepth /\ packed' = FALSE
                 /\ stack' \in Seq(Frame) /\ Len(stack') = depth' /\ FramesNested'
        <4>1. StartEvent(m, FALSE) \in Event /\ StartEvent(m, FALSE).call = "start"
          BY <3>3, EventType
        <4>2. /\ events' \in Seq(Event) /\ Len(events') = Len(events) + 2
              /\ events'[Len(events) + 1] = e
              /\ events'[Len(events) + 2] = StartEvent(m, FALSE)
          <5> DEFINE g == StartEvent(m, FALSE)
          <5>1. /\ events' = events \o << e >> \o << g >>
                /\ e \in Event /\ g \in Event /\ events \in Seq(Event)
            BY <1>1, <3>4, <3>8, <4>1
          <5> HIDE DEF g
          <5>2. /\ events' \in Seq(Event) /\ Len(events') = Len(events) + 2
                /\ events'[Len(events) + 1] = e
                /\ events'[Len(events) + 2] = g
            BY <5>1, TwoMore
          <5>3. QED
            BY <5>2 DEF g
        <4>3. depth' > 1 /\ depth' >= 1 /\ depth' # 0
          BY <1>1, <3>8
        <4>4. DecoderInv'
          BY <3>8, <4>2, <4>3 DEF DecoderInv
        <4>5. Told
          BY <3>1, <3>2, <3>4, <3>8, <4>1, <4>2 DEF Told
        <4>6. QED
          BY <4>4, <4>5
      <3>9. QED
        BY <3>6, <3>7, <3>8
    <2>10. CASE f # NoField /\ Typ[f] = "message" /\ wt # "STRING" /\ Stop("undefined")
      <3>1. /\ status' = "undefined" /\ UNCHANGED <<depth, packed, stack, events>>
        BY <2>10 DEF Stop
      <3>2. FramesNested'
        BY <1>1, <3>1, NestedNext
      <3>3. DecoderInv'
        BY <1>1, <3>1, <3>2, InvKept
      <3>4. Told
        BY <3>1 DEF Told
      <3>5. QED
        BY <3>3, <3>4
    <2>11. CASE /\ f # NoField /\ ~run /\ Typ[f] # "message"
                /\ stack' = next
                /\ events' = Append(events,
                                    FieldEvent(stack[depth].msg, f, Delivered(f, wt, val)))
                /\ UNCHANGED <<depth, packed, status>>
      <3> DEFINE m == stack[depth].msg
                 bytes == Delivered(f, wt, val)
                 e == FieldEvent(m, f, bytes)
      <3>1. f \in Field /\ Typ[f] # "message"
        BY <2>11
      <3>2. bytes \in Seq(Byte \cup {Junk})
        <4>1. val.from + val.len <= Len(in.data)
          <5> DEFINE p == val.pos
                     c == stack[depth].buf.end
          <5>1. p \in Nat /\ c \in Nat /\ p <= c /\ c <= Len(in.data) /\ Len(in.data) \in Nat
            BY <1>1, <2>1
          <5> HIDE DEF p, c
          <5>2. p <= Len(in.data)
            BY <5>1
          <5>3. QED
            BY <2>1, <5>2 DEF p
        <4>2. QED
          BY <1>1, <2>1, <4>1, DeliveredType
      <3>3. m \in Msg
        BY <1>1
      <3>4. events' = Append(events, e)
        BY <2>11
      <3> HIDE DEF m, bytes
      <3>5. e \in Event /\ e.call = "field" /\ e.field = f
        BY <3>1, <3>2, <3>3, FieldEventType
      <3> HIDE DEF e
      <3>6. /\ events' \in Seq(Event) /\ Len(events') = Len(events) + 1
            /\ events'[Len(events) + 1] = e
        BY <1>1, <3>4, <3>5, OneMore
      <3>7. stack' = next /\ UNCHANGED <<depth, packed, status>>
        BY <2>11
      <3>8. FramesNested'
        BY <2>6, <3>7
      <3>9. DecoderInv'
        BY <1>1, <2>4, <3>6, <3>7, <3>8, InvKept
      <3>10. Told
        BY <3>1, <3>5, <3>6, <3>7 DEF Told
      <3>11. QED
        BY <3>9, <3>10
    <2>12. QED
      BY <2>2, <2>7, <2>8, <2>9, <2>10, <2>11
  <1>4. QED
    BY <1>2, <1>3

\* find_field_desc gives a field of the schema, or none.
LEMMA LookupType ==
    ASSUME NEW m \in Msg, NEW f
    PROVE  Lookup(m, f) \in Field \cup {NoField}
  <1>1. FieldsOf[m] \subseteq Field
    BY FieldAssumption
  <1>2. QED
    BY <1>1 DEF Lookup

\* A turn of the inner loop of lwpb_decoder_decode keeps the invariant.
LEMMA DecodeFieldStep ==
    ASSUME DecoderInv, DecodeField
    PROVE  DecoderInv' /\ Told
  <1> DEFINE buf   == stack[depth].buf
             key   == Varint("key", buf.pos, buf.end)
             found == Lookup(stack[depth].msg, key.cell[2])
             f     == IF found # NoField THEN found ELSE field_desc
  <1>1. status = "running" /\ depth >= 1 /\ in' = in /\ Left(buf) > 0
    BY DEF DecodeField
  <1>2. /\ DataOK /\ stack[depth].msg \in Msg
        /\ buf.pos \in Nat /\ buf.end \in Nat /\ buf.end <= Len(in.data)
        /\ depth \in Nat \ {0} /\ stack \in Seq(Frame) /\ Len(stack) = depth
        /\ Nested(stack, depth) /\ events \in Seq(Event)
        /\ field_desc \in Field \cup {NoField} /\ packed \in BOOLEAN
    BY <1>1, TopFacts DEF DecoderInv
  <1>3. buf.pos <= buf.end
    <2>1. depth \in 1..depth
      BY <1>2
    <2>2. QED
      BY <1>2, <2>1 DEF Nested
  <1>4. CASE packed
    <2>1. /\ DecodeValue(field_desc, WireType(field_desc), buf.pos)
          /\ field_desc' = field_desc
      BY <1>4 DEF DecodeField
    <2>2. WireType(field_desc) \in WireTypes
      BY DEF WireType, WireTypes
    <2>3. buf.pos <= buf.pos
      BY <1>2
    <2>4. QED
      BY <1>1, <1>2, <1>3, <2>1, <2>2, <2>3, ValueStep
  <1>5. CASE ~packed /\ key.res # "ok"
    <2>1. Stop(key.res) /\ field_desc' = field_desc
      BY <1>5 DEF DecodeField
    <2>2. key.res \in {"undefined", "garbled", "END_OF_BUF"}
      BY <1>5, ReadResults
    <2> HIDE DEF key
    <2>3. status' = key.res /\ UNCHANGED <<depth, packed, stack, events>>
      BY <2>1 DEF Stop
    <2>4. FramesNested'
      BY <1>1, <1>2, <2>3, NestedNext
    <2>5. DecoderInv'
      BY <1>1, <1>2, <2>1, <2>2, <2>3, <2>4, InvKept
    <2>6. Told
      BY <2>3 DEF Told
    <2>7. QED
      BY <2>5, <2>6
  <1>6. CASE ~packed /\ key.res = "ok"
    <2>1. field_desc' = f /\ DecodeValue(f, key.cell[3], key.pos)
      BY <1>6 DEF DecodeField
    <2>2. /\ key.pos \in Nat /\ buf.pos <= key.pos /\ key.pos <= buf.end
          /\ key.cell[3] \in WireTypes
      BY <1>2, <1>6, VarintFacts
    <2>3. f \in Field \cup {NoField}
      BY <1>2, LookupType
    <2> HIDE DEF key, f
    <2>4. QED
      BY <1>1, <1>6, <2>1, <2>2, <2>3, ValueStep
  <1>7. QED
    BY <1>2, <1>4, <1>5, <1>6

\* What follows the inner loop, the end of a message or run, keeps the invariant.
LEMMA EndFrameStep ==
    ASSUME DecoderInv, EndFrame
    PROVE  DecoderInv' /\ Told
  <1> DEFINE m == stack[depth].msg
             e == EndEvent(m, packed)
  <1>1. /\ status = "running" /\ depth >= 1 /\ in' = in /\ field_desc' = field_desc
        /\ depth' = depth - 1 /\ packed' = FALSE
        /\ stack' = (IF depth > 1 THEN SubSeq(stack, 1, depth - 1) ELSE stack)
        /\ status' = (IF depth = 1 THEN "OK" ELSE status)
        /\ events' = events \o (IF m # NoMsg THEN << e >> ELSE << >>)
                            \o Entered(stack, depth - 1, FALSE)
    BY DEF EndFrame, EndFrameIn
  <1>2. /\ m \in Msg /\ depth \in Nat \ {0} /\ depth \in 0..MaxDepth
        /\ stack \in Seq(Frame) /\ Len(stack) = depth /\ Nested(stack, depth)
        /\ events \in Seq(Event) /\ packed \in BOOLEAN
    BY <1>1, TopFacts DEF DecoderInv
  <1>3. e \in Event /\ e.call = "end" /\ e.packed = packed
    BY <1>2, EventType
  <1>4. /\ stack' \in Seq(Frame) /\ Len(stack') = (IF depth - 1 = 0 THEN 1 ELSE depth - 1)
        /\ Nested(stack', depth - 1)
        /\ Entered(stack, depth - 1, FALSE) = << >>
    <2> DEFINE next == IF depth > 1 THEN SubSeq(stack, 1, depth - 1) ELSE stack
    <2>1. /\ next \in Seq(Frame) /\ Len(next) = (IF depth - 1 = 0 THEN 1 ELSE depth - 1)
          /\ Nested(next, depth - 1)
      BY <1>2, Ascend
    <2>2. Entered(stack, depth - 1, FALSE) = << >>
      BY <1>2, Ascend
    <2>3. QED
      BY <1>1, <2>1, <2>2
  <1>5. FramesNested'
    BY <1>1, <1>4, NestedNext
  <1>6. m # NoMsg
    BY <1>2, FieldAssumption
  <1> HIDE DEF m, e
  <1>7. events' = events \o << e >>
    <2>1. events \o << e >> \in Seq(Event)
      BY <1>2, <1>3, OneMore
    <2>2. events' = events \o << e >> \o << >>
      BY <1>1, <1>4, <1>6
    <2>3. QED
      BY <2>1, <2>2, ConcatEmptySeq
  <1>8. /\ events' \in Seq(Event) /\ Len(events') = Len(events) + 1
        /\ events'[Len(events) + 1] = e
    BY <1>2, <1>3, <1>7, OneMore
  <1>9. depth' \in 0..MaxDepth /\ (depth # 1 => depth' >= 1)
    BY <1>1, <1>2, DecoderAssumption
  <1>10. status' \in {"running", "OK"} /\ (status' # "OK" => depth' >= 1)
    BY <1>1, <1>9
  <1>11. DecoderInv'
    BY <1>1, <1>4, <1>5, <1>8, <1>9, <1>10 DEF DecoderInv
  <1>12. Told
    BY <1>1, <1>3, <1>8 DEF Told
  <1>13. QED
    BY <1>11, <1>12

\* Every step of lwpb_decoder_decode keeps the invariant and tells the handlers
\* what it did to the stack.
LEMMA DecoderNext ==
    ASSUME DecoderInv, Next
    PROVE  DecoderInv' /\ Told /\ status = "running" /\ depth >= 1
  <1>1. status = "running" /\ depth >= 1
    BY DEF Next, DecodeField, EndFrame, EndFrameIn
  <1>2. CASE DecodeField
    BY <1>1, <1>2, DecodeFieldStep
  <1>3. CASE EndFrame
    BY <1>1, <1>3, EndFrameStep
  <1>4. QED
    BY <1>2, <1>3 DEF Next

\* The state lwpb_decoder_decode enters its loops in, on_msg_start called.
LEMMA DecoderInit ==
    ASSUME Init
    PROVE  DecoderInv /\ Len(events) = 1 /\ events[1].call = "start"
  <1>1. DataOK
    BY InputAssumption DEF Init, DataOK
  <1>2. /\ depth = 1 /\ packed = FALSE /\ stack = << Root >> /\ field_desc = NoField
        /\ events = Entered(stack, 1, FALSE) /\ status = "running"
    BY DEF Init
  <1>3. Len(in.data) \in Nat
    BY <1>1 DEF DataOK
  <1>4. /\ Root \in Frame /\ Root.msg = RootMsg
        /\ Root.buf.base = 0 /\ Root.buf.pos = 0 /\ Root.buf.end = Len(in.data)
    BY <1>3, FieldAssumption DEF Root, NewBuf, Frame
  <1>5. stack \in Seq(Frame) /\ Len(stack) = 1 /\ stack[1] = Root
    BY <1>2, <1>4
  <1>6. FramesNested
    <2>1. 1..1 = {1}
      OBVIOUS
    <2>2. QED
      BY <1>2, <1>3, <1>4, <1>5, <2>1 DEF FramesNested
  <1>7. events = << StartEvent(RootMsg, FALSE) >>
    <2>1. Used(stack[1].buf) = 0 /\ stack[1].msg = RootMsg /\ RootMsg # NoMsg /\ 1 >= 1
      BY <1>4, <1>5, FieldAssumption DEF Used
    <2>2. QED
      BY <1>2, <2>1 DEF Entered
  <1>8. StartEvent(RootMsg, FALSE) \in Event /\ StartEvent(RootMsg, FALSE).call = "start"
    BY FieldAssumption, EventType
  <1>9. events \in Seq(Event) /\ Len(events) = 1 /\ events[1].call = "start"
    <2> DEFINE e == StartEvent(RootMsg, FALSE)
    <2> HIDE DEF e
    <2>1. e \in Event /\ events = << e >> /\ e.call = "start"
      BY <1>7, <1>8 DEF e
    <2>2. QED
      BY <2>1
  <1>10. 1 \in 0..MaxDepth
    BY DecoderAssumption
  <1>11. Len(stack) = (IF depth = 0 THEN 1 ELSE depth) /\ depth >= 1
    BY <1>2, <1>5
  <1>11a. packed \in BOOLEAN /\ ~packed
    BY <1>2
  <1>11b. depth \in 0..MaxDepth
    BY <1>2, <1>10
  <1>12. DecoderInv
    BY <1>1, <1>2, <1>5, <1>6, <1>9, <1>11, <1>11a, <1>11b DEF DecoderInv, DataOK
  <1>13. QED
    BY <1>9, <1>12

\* DecoderInv holds whatever handlers are set.
THEOREM DecoderInvariant == CSpec => []DecoderInv
  <1>1. CInit => DecoderInv
    BY DecoderInit DEF CInit
  <1>2. DecoderInv /\ [CNext]_allVars => DecoderInv'
    <2> SUFFICES ASSUME DecoderInv, [CNext]_allVars PROVE DecoderInv'
      OBVIOUS
    <2>1. CASE Decode
      BY <2>1, DecoderNext DEF Decode
    <2>2. CASE UNCHANGED vars
      BY <2>2 DEF DecoderInv, FramesNested, vars
    <2>3. QED
      BY <2>1, <2>2 DEF CNext, Debug, Python, Struct, allVars
  <1>3. QED
    BY <1>1, <1>2, PTL DEF CSpec

\* A child frame never reads its parent's bytes.
THEOREM ChildrenInParents == CSpec => []FramesNested
  <1>1. DecoderInv => FramesNested
    BY DEF DecoderInv
  <1>2. QED
    BY <1>1, DecoderInvariant, PTL

-----------------------------------------------------------------------------
(* The dicts of the Python decoder. *)

\* A function on 1..n is a sequence of length n.
LEMMA FunctionIsSeq ==
    ASSUME NEW S, NEW n \in Nat, NEW g \in [1..n -> S]
    PROVE  g \in Seq(S) /\ Len(g) = n
  <1>1. g \in Seq(S)
    BY SeqDef
  <1>2. DOMAIN g = 1..Len(g) /\ Len(g) \in Nat
    BY <1>1, LenProperties
  <1>3. 1..n = 1..Len(g)
    BY <1>2
  <1>4. QED
    BY <1>1, <1>2, <1>3

\* The dict a field goes into, and where a field's dict is looked for.
LEMMA TargetFacts ==
    ASSUME DictsInv, Len(context) >= 1
    PROVE  Target \in DOMAIN heap
  <1>1. context \in Seq(DOMAIN heap)
    BY DEF DictsInv
  <1>2. Len(context) \in 1..Len(context)
    BY <1>1, LenProperties
  <1>3. QED
    BY <1>1, <1>2, ElementOfSeq DEF Target

\* A list of a dict's items is replaced.
LEMMA StoreStep ==
    ASSUME DictsInv, NEW t \in DOMAIN heap, NEW f \in Field, NEW items \in Seq(Item),
           NEW with, with = [heap EXCEPT ![t][f] = items]
    PROVE  /\ with \in Seq([Field -> Seq(Item)])
           /\ Len(with) = Len(heap) /\ DOMAIN with = DOMAIN heap
           /\ with[t][f] = items
           /\ \A k \in DOMAIN heap : \A g \in Field :
                (k # t \/ g # f) => with[k][g] = heap[k][g]
  <1> DEFINE D == [Field -> Seq(Item)]
             row == [heap[t] EXCEPT ![f] = items]
  <1>1. heap \in Seq(D)
    BY DEF DictsInv
  <1>2. t \in 1..Len(heap) /\ DOMAIN heap = 1..Len(heap)
    BY <1>1, LenProperties
  <1>3. heap[t] \in D
    BY <1>1, <1>2, ElementOfSeq
  <1>4. row \in D /\ row[f] = items /\ \A g \in Field : g # f => row[g] = heap[t][g]
    BY <1>3
  <1>5. with = [heap EXCEPT ![t] = row]
    OBVIOUS
  <1> HIDE DEF row, D
  <1>6. /\ with \in Seq(D) /\ Len(with) = Len(heap)
        /\ \A k \in 1..Len(heap) : with[k] = IF k = t THEN row ELSE heap[k]
    <2>1. heap \in [1..Len(heap) -> D] /\ Len(heap) \in Nat
      BY <1>1, LenProperties
    <2>2. with \in [1..Len(heap) -> D]
      BY <1>2, <1>4, <1>5, <2>1
    <2>2a. with \in Seq(D) /\ Len(with) = Len(heap)
      BY <2>1, <2>2, FunctionIsSeq
    <2>3. \A k \in 1..Len(heap) : with[k] = IF k = t THEN row ELSE heap[k]
      BY <1>2, <1>5
    <2>4. QED
      BY <2>2a, <2>3
  <1>7. DOMAIN with = 1..Len(heap)
    BY <1>6, LenProperties
  <1>8. with[t] = row
    BY <1>2, <1>6
  <1>9. ASSUME NEW k \in DOMAIN heap, NEW g \in Field, k # t \/ g # f
        PROVE  with[k][g] = heap[k][g]
    <2>1. CASE k = t
      BY <1>4, <1>8, <1>9, <2>1
    <2>2. CASE k # t
      BY <1>2, <1>6, <2>2
    <2>3. QED
      BY <2>1, <2>2
  <1>10. QED
    BY <1>2, <1>4, <1>6, <1>7, <1>8, <1>9 DEF D

\* What a field of the dict on top holds once an item is stored in it.
LEMMA StoredType ==
    ASSUME DictsInv, Len(context) >= 1, NEW f \in Field, NEW item \in Item
    PROVE  /\ Stored(f, item) \in Seq(Item)
           /\ f \notin Repeated => Stored(f, item) = << item >>
  <1>1. Target \in DOMAIN heap /\ heap \in Seq([Field -> Seq(Item)])
    BY TargetFacts DEF DictsInv
  <1>2. heap[Target] \in [Field -> Seq(Item)]
    BY <1>1, LenProperties, ElementOfSeq
  <1>3. heap[Target][f] \in Seq(Item)
    BY <1>2
  <1>4. Append(heap[Target][f], item) \in Seq(Item) /\ << item >> \in Seq(Item)
    BY <1>3
  <1>5. QED
    BY <1>4 DEF Stored

\* A number or a text is stored.
LEMMA PyValueStep ==
    ASSUME DictsInv, Len(context) >= 1, NEW f \in Field,
           NEW bytes \in Seq(Byte \cup {Junk}), Typ[f] # "message", PyField(f, bytes)
    PROVE  DictsInv' /\ context' = context
  <1>1. /\ heap' = [heap EXCEPT ![Target][f] = Stored(f, ValueItem(bytes))]
        /\ context' = context
    BY DEF PyField
  <1>2. ValueItem(bytes) \in Item
    BY DEF ValueItem, Item
  <1>3. Stored(f, ValueItem(bytes)) \in Seq(Item) /\ Target \in DOMAIN heap
    BY <1>2, StoredType, TargetFacts
  <1>4. /\ heap' \in Seq([Field -> Seq(Item)])
        /\ Len(heap') = Len(heap) /\ DOMAIN heap' = DOMAIN heap
        /\ \A k \in DOMAIN heap : \A g \in Field :
             (k # Target \/ g # f) => heap'[k][g] = heap[k][g]
    <2> DEFINE t     == Target
               items == Stored(f, ValueItem(bytes))
               with  == [heap EXCEPT ![t][f] = items]
    <2>1. t \in DOMAIN heap /\ items \in Seq(Item)
      BY <1>3
    <2>2. heap' = with
      BY <1>1
    <2> HIDE DEF t, items
    <2>3. with \in Seq([Field -> Seq(Item)])
      BY <2>1, StoreStep
    <2>3a. Len(with) = Len(heap) /\ DOMAIN with = DOMAIN heap
      BY <2>1, StoreStep
    <2>4. \A k \in DOMAIN heap : \A g \in Field :
             (k # t \/ g # f) => with[k][g] = heap[k][g]
      BY <2>1, StoreStep
    <2> HIDE DEF with
    <2>5. QED
      BY <2>2, <2>3, <2>3a, <2>4 DEF t
  <1>5. heap' # << >>
    <2>1. heap \in Seq([Field -> Seq(Item)]) /\ heap # << >>
      BY DEF DictsInv
    <2>2. Len(heap) # 0
      BY <2>1, EmptySeq
    <2>3. QED
      BY <1>4, <2>2
  <1>6. ASSUME NEW k \in DOMAIN heap', NEW g \in Field \ Repeated,
               Typ[g] = "message", heap'[k][g] # << >>
        PROVE  heap'[k][g][1].dict \in DOMAIN heap'
    <2>1. k \in DOMAIN heap /\ g # f
      BY <1>4, <1>6
    <2>2. heap'[k][g] = heap[k][g]
      BY <1>4, <2>1
    <2>3. heap[k][g][1].dict \in DOMAIN heap
      BY <1>6, <2>1, <2>2 DEF DictsInv
    <2>4. QED
      BY <1>4, <2>2, <2>3
  <1>7. context' \in Seq(DOMAIN heap')
    BY <1>1, <1>4 DEF DictsInv
  <1>8. QED
    BY <1>1, <1>4, <1>5, <1>6, <1>7 DEF DictsInv

\* The dict a message field's values go to: one that is there, or the next new one.
LEMMA NestedDictType ==
    ASSUME DictsInv, Len(context) >= 1, NEW f \in Field, Typ[f] = "message"
    PROVE  NestedDict(f) \in 1..(Len(heap) + 1)
  <1>1. /\ Target \in DOMAIN heap /\ DOMAIN heap = 1..Len(heap) /\ Len(heap) \in Nat
    BY TargetFacts, LenProperties DEF DictsInv
  <1>2. CASE f \notin Repeated /\ heap[Target][f] # << >>
    <2>1. heap[Target][f][1].dict \in DOMAIN heap
      BY <1>1, <1>2 DEF DictsInv
    <2>2. QED
      BY <1>1, <1>2, <2>1 DEF NestedDict
  <1>3. CASE ~(f \notin Repeated /\ heap[Target][f] # << >>)
    BY <1>1, <1>3 DEF NestedDict
  <1>4. QED
    BY <1>2, <1>3

\* A message is stored in a dict of its own or in the one that is there, and
\* that dict is the next target.
LEMMA PyMessageStep ==
    ASSUME DictsInv, Len(context) >= 1, NEW f \in Field,
           NEW bytes, Typ[f] = "message", PyField(f, bytes)
    PROVE  DictsInv' /\ Len(context') = Len(context) + 1
  <1> DEFINE i    == NestedDict(f)
             with == [heap EXCEPT ![Target][f] = Stored(f, DictItem(i))]
             D    == [Field -> Seq(Item)]
  <1>1. /\ heap' = (IF i > Len(heap) THEN Append(with, EmptyDict) ELSE with)
        /\ context' = Append(context, i)
    BY DEF PyField
  <1>2. /\ heap \in Seq(D) /\ heap # << >> /\ Len(heap) \in Nat /\ DOMAIN heap = 1..Len(heap)
        /\ context \in Seq(DOMAIN heap)
    BY LenProperties DEF DictsInv
  <1>3. i \in 1..(Len(heap) + 1) /\ i \in Nat
    BY <1>2, NestedDictType
  <1>4. DictItem(i) \in Item /\ DictItem(i).dict = i
    BY <1>3, EmptySeq DEF DictItem, Item
  <1>5. /\ Stored(f, DictItem(i)) \in Seq(Item) /\ Target \in DOMAIN heap
        /\ f \notin Repeated => Stored(f, DictItem(i)) = << DictItem(i) >>
    BY <1>4, StoredType, TargetFacts
  <1>6. /\ with \in Seq(D) /\ Len(with) = Len(heap) /\ DOMAIN with = DOMAIN heap
        /\ with[Target][f] = Stored(f, DictItem(i))
        /\ \A k \in DOMAIN heap : \A g \in Field :
             (k # Target \/ g # f) => with[k][g] = heap[k][g]
    <2> DEFINE t     == Target
               items == Stored(f, DictItem(i))
               new   == [heap EXCEPT ![t][f] = items]
    <2>1. t \in DOMAIN heap /\ items \in Seq(Item)
      BY <1>5
    <2>2. with = new
      OBVIOUS
    <2> HIDE DEF t, items, with, i
    <2>3. new \in Seq([Field -> Seq(Item)])
      BY <2>1, StoreStep
    <2>4. Len(new) = Len(heap) /\ DOMAIN new = DOMAIN heap
      BY <2>1, StoreStep
    <2>5. new[t][f] = items
      <3>1. heap[t] \in D
        BY <1>2, <2>1, ElementOfSeq
      <3>2. QED
        BY <2>1, <3>1 DEF D
    <2>6. \A k \in DOMAIN heap : \A g \in Field :
             (k # t \/ g # f) => new[k][g] = heap[k][g]
      BY <2>1, StoreStep
    <2> HIDE DEF new
    <2>7. QED
      BY <2>2, <2>3, <2>4, <2>5, <2>6 DEF t, items
  <1>7. EmptyDict \in D /\ \A g \in Field : EmptyDict[g] = << >>
    BY EmptySeq DEF EmptyDict
  <1> HIDE DEF i, with, D
  <1>8. /\ heap' \in Seq(D) /\ Len(heap') \in Nat /\ DOMAIN heap' = 1..Len(heap')
        /\ Len(heap) <= Len(heap') /\ i \in 1..Len(heap')
        /\ \A k \in 1..Len(heap) : heap'[k] = with[k]
        /\ \A k \in 1..Len(heap') : k \in 1..Len(heap) \/ heap'[k] = EmptyDict
    <2>1. CASE i > Len(heap)
      <3>1. heap' = Append(with, EmptyDict)
        BY <1>1, <2>1
      <3>2. /\ heap' \in Seq(D) /\ Len(heap') = Len(heap) + 1
            /\ \A k \in 1..Len(heap) : heap'[k] = with[k]
            /\ heap'[Len(heap) + 1] = EmptyDict
        BY <1>6, <1>7, <3>1, AppendProperties
      <3>3. /\ Len(heap') \in Nat /\ Len(heap) <= Len(heap') /\ i \in 1..Len(heap')
            /\ \A k \in 1..Len(heap') : k \in 1..Len(heap) \/ k = Len(heap) + 1
        BY <1>2, <1>3, <3>2
      <3>4. DOMAIN heap' = 1..Len(heap')
        BY <3>2, LenProperties
      <3>5. QED
        BY <3>2, <3>3, <3>4
    <2>2. CASE ~(i > Len(heap))
      <3>1. heap' = with /\ Len(heap') = Len(heap)
        BY <1>1, <1>6, <2>2
      <3>2. i \in 1..Len(heap)
        BY <1>2, <1>3, <2>2
      <3>3. QED
        BY <1>2, <1>6, <3>1, <3>2
    <2>3. QED
      BY <2>1, <2>2
  <1>9. DOMAIN heap \subseteq DOMAIN heap' /\ i \in DOMAIN heap'
    BY <1>2, <1>8
  <1>10. context' \in Seq(DOMAIN heap') /\ Len(context') = Len(context) + 1
    <2>1. context \in Seq(DOMAIN heap')
      BY <1>2, <1>9, SeqMonotonic
    <2>2. QED
      BY <1>1, <1>9, <2>1, AppendProperties
  <1>11. ASSUME NEW k \in DOMAIN heap', NEW g \in Field \ Repeated,
                Typ[g] = "message", heap'[k][g] # << >>
         PROVE  heap'[k][g][1].dict \in DOMAIN heap'
    <2>1. CASE k \in 1..Len(heap) /\ ~(k = Target /\ g = f)
      <3>1. heap'[k][g] = heap[k][g] /\ k \in DOMAIN heap
        BY <1>2, <1>6, <1>8, <2>1
      <3>2. heap[k][g][1].dict \in DOMAIN heap
        BY <1>11, <3>1 DEF DictsInv
      <3>3. QED
        BY <1>9, <3>1, <3>2
    <2>2. CASE k = Target /\ g = f
      <3>1. heap'[k][g] = << DictItem(i) >>
        BY <1>2, <1>5, <1>6, <1>8, <2>2
      <3>2. heap'[k][g][1] = DictItem(i)
        BY <3>1
      <3>3. QED
        BY <1>4, <1>9, <3>2
    <2>3. CASE k \notin 1..Len(heap)
      BY <1>7, <1>8, <1>11, <2>3
    <2>4. QED
      BY <2>1, <2>2, <2>3
  <1>12. heap' # << >>
    <2>1. Len(heap') # 0
      <3>1. Len(heap) # 0
        BY <1>2, EmptySeq
      <3>2. QED
        BY <1>2, <1>8, <3>1
    <2>2. QED
      BY <2>1
  <1>13. QED
    BY <1>8, <1>10, <1>11, <1>12 DEF DictsInv, D

\* What a handler call needs of the context, and how long it leaves it.
LEMMA PyStep ==
    ASSUME DictsInv, NEW e \in Event, PyHandle(e),
           e.call = "field" => Len(context) >= 1,
           e.call = "end" /\ ~e.packed => Len(context) >= 1
    PROVE  /\ DictsInv'
           /\ Len(context') =
                Len(context) + (IF e.call = "field" /\ Typ[e.field] = "message" THEN 1
                                ELSE IF e.call = "end" /\ ~e.packed THEN -1 ELSE 0)
  <1>1. /\ context \in Seq(DOMAIN heap) /\ Len(context) \in Nat
        /\ e.call \in {"start", "field", "end"}
    BY LenProperties DEF DictsInv, Event
  <1>2. CASE e.call = "start"
    <2>1. UNCHANGED pyVars
      BY <1>2 DEF PyHandle
    <2>2. heap' = heap /\ context' = context
      BY <2>1 DEF pyVars
    <2>3. QED
      BY <1>1, <1>2, <2>2 DEF DictsInv
  <1>3. CASE e.call = "field"
    <2>1. /\ e.field \in Field /\ e.value \in Seq(Byte \cup {Junk})
          /\ PyField(e.field, e.value)
      BY <1>3 DEF Event, PyHandle
    <2>2. CASE Typ[e.field] = "message"
      <3>1. DictsInv' /\ Len(context') = Len(context) + 1
        BY <1>3, <2>1, <2>2, PyMessageStep
      <3>2. QED
        BY <1>3, <2>2, <3>1
    <2>3. CASE Typ[e.field] # "message"
      <3>1. DictsInv' /\ context' = context
        BY <1>3, <2>1, <2>3, PyValueStep
      <3>2. QED
        BY <1>1, <1>3, <2>3, <3>1
    <2>4. QED
      BY <2>2, <2>3
  <1>4. CASE e.call = "end"
    <2>1. PyEnd(e.packed)
      BY <1>4 DEF PyHandle
    <2>2. CASE e.packed
      <3>1. heap' = heap /\ context' = context
        BY <2>1, <2>2 DEF PyEnd
      <3>2. QED
        BY <1>1, <1>4, <2>2, <3>1 DEF DictsInv
    <2>3. CASE ~e.packed
      <3>1. heap' = heap /\ context' = SubSeq(context, 1, Len(context) - 1)
        BY <2>1, <2>3 DEF PyEnd
      <3>2. Len(context) >= 1
        BY <1>4, <2>3
      <3>3. 1 \in Int /\ Len(context) - 1 \in Int
            /\ \A i \in 1..(Len(context) - 1) : i \in 1..Len(context)
        BY <1>1
      <3>4. \A i \in 1..(Len(context) - 1) : context[i] \in DOMAIN heap
        BY <1>1, <3>3, ElementOfSeq
      <3>5. /\ context' \in Seq(DOMAIN heap)
            /\ Len(context') = IF 1 <= Len(context) - 1 THEN Len(context) - 1 - 1 + 1 ELSE 0
        BY <3>1, <3>3, <3>4, SubSeqProperties
      <3>6. Len(context') = Len(context) - 1
        <4> DEFINE n == Len(context)
        <4>1. n \in Nat /\ n >= 1
          BY <1>1, <3>2
        <4> HIDE DEF n
        <4>2. (IF 1 <= n - 1 THEN n - 1 - 1 + 1 ELSE 0) = n - 1
          BY <4>1
        <4>3. QED
          BY <3>5, <4>2 DEF n
      <3>7. DictsInv'
        BY <3>1, <3>5 DEF DictsInv
      <3>8. QED
        BY <1>1, <1>4, <2>3, <3>6, <3>7
    <2>4. QED
      BY <2>2, <2>3
  <1>5. QED
    BY <1>1, <1>2, <1>3, <1>4

-----------------------------------------------------------------------------
(* The frames of the struct decoder. *)

\* The top frame of the struct decoder, and its parts.
LEMMA StructTop ==
    ASSUME StructInv, sdepth >= 1
    PROVE  /\ sdepth \in 1..Len(sframes) /\ Len(sframes) \in Nat /\ sdepth \in Nat
           /\ STop \in StructFrame
           /\ STop.last # NoField => STop.last \in DOMAIN StructMap[STop.map].fields
  <1>1. /\ sframes \in Seq(StructFrame) /\ sdepth \in 0..MaxDepth /\ sdepth <= Len(sframes)
        /\ Len(sframes) \in Nat /\ DOMAIN sframes = 1..Len(sframes)
    BY LenProperties DEF StructInv
  <1>2. sdepth \in 1..Len(sframes) /\ sdepth \in Nat
    BY <1>1, DecoderAssumption
  <1>3. STop \in StructFrame
    BY <1>1, <1>2, ElementOfSeq DEF STop
  <1>4. STop.last # NoField => STop.last \in DOMAIN StructMap[STop.map].fields
    BY <1>1, <1>2 DEF StructInv, STop
  <1>5. QED
    BY <1>1, <1>2, <1>3, <1>4

\* What the assumptions say of a field's place.
LEMMA PlaceFacts ==
    ASSUME NEW name \in DOMAIN StructMap, NEW f \in DOMAIN StructMap[name].fields
    PROVE  /\ f \in Field
           /\ StructMap[name].fields[f].ofs \in Nat /\ StructMap[name].fields[f].len \in Nat
           /\ Typ[f] = "message" => StructMap[name].fields[f].map \in DOMAIN StructMap
  <1>1. StructMap[name].msg \in Msg
    BY MapAssumption
  <1>2. DOMAIN StructMap[name].fields \subseteq FieldsOf[StructMap[name].msg]
    BY MapAssumption
  <1>3. FieldsOf[StructMap[name].msg] \subseteq Field
    BY <1>1, FieldAssumption
  <1>4. StructMap[name].fields[f].ofs \in Nat /\ StructMap[name].fields[f].len \in Nat
    BY MapAssumption
  <1>5. Typ[f] = "message" => StructMap[name].fields[f].map \in DOMAIN StructMap
    BY MapAssumption
  <1>6. QED
    BY <1>2, <1>3, <1>4, <1>5

\* The last field and the index of the top frame change.
LEMMA CountStep ==
    ASSUME StructInv, sdepth >= 1, NEW f, Mapped(f), NEW i \in Nat,
           NEW moved, moved = [sframes EXCEPT ![sdepth].last = f, ![sdepth].index = i]
    PROVE  /\ moved \in Seq(StructFrame) /\ Len(moved) = Len(sframes) /\ moved # << >>
           /\ \A k \in DOMAIN moved : moved[k].last # NoField =>
                moved[k].last \in DOMAIN StructMap[moved[k].map].fields
  <1> DEFINE top == [STop EXCEPT !.last = f, !.index = i]
  <1>1. /\ sdepth \in 1..Len(sframes) /\ Len(sframes) \in Nat /\ STop \in StructFrame
        /\ sframes \in Seq(StructFrame) /\ DOMAIN sframes = 1..Len(sframes)
    BY StructTop, LenProperties DEF StructInv
  <1>2. f \in Field
    BY <1>1, PlaceFacts DEF Mapped, StructFrame
  <1>3. top \in StructFrame /\ top.last = f /\ top.map = STop.map
    BY <1>1, <1>2 DEF StructFrame
  <1>4. moved = [sframes EXCEPT ![sdepth] = top]
    BY <1>1 DEF STop
  <1> HIDE DEF top
  <1>5. sframes \in [1..Len(sframes) -> StructFrame]
    BY <1>1, LenProperties
  <1>6. moved \in [1..Len(sframes) -> StructFrame]
    BY <1>1, <1>3, <1>4, <1>5
  <1>7. moved \in Seq(StructFrame) /\ Len(moved) = Len(sframes)
    <2> DEFINE n == Len(sframes)
    <2>1. n \in Nat /\ moved \in [1..n -> StructFrame]
      BY <1>1, <1>6
    <2> HIDE DEF n
    <2>2. moved \in Seq(StructFrame) /\ Len(moved) = n
      BY <2>1, FunctionIsSeq
    <2>3. QED
      BY <2>2 DEF n
  <1>8. \A k \in 1..Len(sframes) : moved[k] = IF k = sdepth THEN top ELSE sframes[k]
    BY <1>1, <1>4
  <1>9. ASSUME NEW k \in DOMAIN moved, moved[k].last # NoField
        PROVE  moved[k].last \in DOMAIN StructMap[moved[k].map].fields
    <2>1. k \in 1..Len(sframes)
      BY <1>6
    <2>2. CASE k = sdepth
      BY <1>3, <1>8, <2>1, <2>2 DEF Mapped
    <2>3. CASE k # sdepth
      BY <1>1, <1>8, <1>9, <2>1, <2>3 DEF StructInv
    <2>4. QED
      BY <2>2, <2>3
  <1>10. moved # << >>
    <2>1. Len(moved) # 0
      BY <1>1, <1>7
    <2>2. QED
      BY <2>1
  <1>11. QED
    BY <1>7, <1>9, <1>10

\* A field of the map.
LEMMA StructFieldStep ==
    ASSUME StructInv, sdepth >= 1, NEW f, Mapped(f), NEW bytes, Unpack(f, bytes)
    PROVE  StructInv' /\ sdepth' = sdepth
  <1>1. STop \in StructFrame
    BY StructTop
  <1>2. Index(f) \in Nat /\ Index(f) + 1 \in Nat
    BY <1>1 DEF Index, StructFrame
  <1>3. /\ sdepth' = sdepth
        /\ \/ sframes' = [sframes EXCEPT ![sdepth].last = f, ![sdepth].index = Index(f)]
           \/ sframes' = [sframes EXCEPT ![sdepth].last = f, ![sdepth].index = Index(f) + 1]
    BY DEF Unpack
  <1>4. /\ sframes' \in Seq(StructFrame) /\ Len(sframes') = Len(sframes) /\ sframes' # << >>
        /\ \A k \in DOMAIN sframes' : sframes'[k].last # NoField =>
             sframes'[k].last \in DOMAIN StructMap[sframes'[k].map].fields
    <2>1. ASSUME NEW i \in Nat,
                 sframes' = [sframes EXCEPT ![sdepth].last = f, ![sdepth].index = i]
          PROVE  /\ sframes' \in Seq(StructFrame) /\ Len(sframes') = Len(sframes)
                 /\ sframes' # << >>
                 /\ \A k \in DOMAIN sframes' : sframes'[k].last # NoField =>
                      sframes'[k].last \in DOMAIN StructMap[sframes'[k].map].fields
      BY <2>1, CountStep
    <2>2. QED
      BY <1>2, <1>3, <2>1
  <1>5. QED
    BY <1>3, <1>4 DEF StructInv

\* A message starts: its frame is put on top of the first sdepth frames.
LEMMA StructStartStep ==
    ASSUME StructInv, StructStart, sdepth < MaxDepth,
           sdepth # 0 => STop.last # NoField /\ Typ[STop.last] = "message"
    PROVE  StructInv' /\ sdepth' = sdepth + 1
  <1>1. /\ sframes \in Seq(StructFrame) /\ sframes # << >> /\ Len(sframes) \in Nat
        /\ sdepth \in 0..MaxDepth /\ sdepth <= Len(sframes) /\ sdepth \in Nat
        /\ DOMAIN sframes = 1..Len(sframes) /\ MaxDepth \in Nat
    BY LenProperties, DecoderAssumption DEF StructInv
  <1>2. sdepth' = sdepth + 1 /\ sdepth + 1 \in 0..MaxDepth
    BY <1>1 DEF StructStart
  <1>3. CASE sdepth = 0
    <2>1. sframes' = sframes
      BY <1>3 DEF StructStart
    <2>2. Len(sframes) # 0
      BY <1>1, EmptySeq
    <2>3. sdepth + 1 <= Len(sframes)
      BY <1>1, <1>3, <2>2
    <2>4. QED
      BY <1>1, <1>2, <2>1, <2>3 DEF StructInv
  <1>4. CASE sdepth # 0
    <2> DEFINE below == SubSeq(sframes, 1, sdepth)
               known == [below EXCEPT ![sdepth].index = @ + 1]
    <2>1. sframes' = Append(known, Nested_)
      BY <1>4 DEF StructStart
    <2>2. sdepth >= 1
      BY <1>1, <1>4
    <2>3. /\ STop \in StructFrame /\ STop.last # NoField /\ Typ[STop.last] = "message"
          /\ STop.last \in DOMAIN StructMap[STop.map].fields
      BY <1>4, <2>2, StructTop
    <2>4. Nested_ \in StructFrame /\ Nested_.last = NoField
      <3> DEFINE at == StructMap[STop.map].fields[STop.last]
      <3>1. STop.map \in DOMAIN StructMap /\ STop.base \in Nat /\ STop.index \in Nat
        BY <2>3 DEF StructFrame
      <3>2. at.ofs \in Nat /\ at.len \in Nat /\ at.map \in DOMAIN StructMap
        BY <2>3, <3>1, PlaceFacts
      <3>3. Nested_ = [map |-> at.map, base |-> STop.base + at.ofs + at.len * STop.index,
                       last |-> NoField, index |-> 0]
        BY DEF Nested_, SFrame, At
      <3> HIDE DEF at
      <3>4. \A a, b, c, d \in Nat : a + b + c * d \in Nat
        OBVIOUS
      <3>5. STop.base + at.ofs + at.len * STop.index \in Nat
        BY <3>1, <3>2, <3>4
      <3>6. QED
        BY <3>2, <3>3, <3>5 DEF StructFrame
    <2>5. /\ below \in [1..sdepth -> StructFrame]
          /\ \A k \in 1..sdepth : below[k] = sframes[k]
      <3>1. 1 \in Int /\ sdepth \in Int /\ 1 <= sdepth /\ sdepth - 1 + 1 = sdepth
            /\ \A k \in 1..sdepth : k \in 1..Len(sframes) /\ 1 + k - 1 = k
        BY <1>1, <2>2
      <3>2. \A k \in 1..sdepth : sframes[k] \in StructFrame
        BY <1>1, <3>1, ElementOfSeq
      <3>3. /\ below \in Seq(StructFrame) /\ Len(below) = sdepth
            /\ \A k \in 1..sdepth : below[k] = sframes[1 + k - 1]
        BY <3>1, <3>2, SubSeqProperties
      <3> HIDE DEF below
      <3>4. below \in [1..sdepth -> StructFrame]
        BY <3>3, LenProperties
      <3>5. QED
        BY <3>1, <3>3, <3>4
    <2> HIDE DEF below
    <2>6. /\ known \in [1..sdepth -> StructFrame]
          /\ \A k \in 1..sdepth : /\ known[k].last = sframes[k].last
                                  /\ known[k].map = sframes[k].map
      <3> DEFINE top == [below[sdepth] EXCEPT !.index = @ + 1]
      <3>1. sdepth \in 1..sdepth
        BY <1>1, <2>2
      <3>2. below[sdepth] \in StructFrame
        BY <2>5, <3>1
      <3>3. top \in StructFrame /\ top.last = below[sdepth].last /\ top.map = below[sdepth].map
        BY <3>2 DEF StructFrame
      <3>4. known = [below EXCEPT ![sdepth] = top]
        OBVIOUS
      <3> HIDE DEF top, known
      <3>5. known \in [1..sdepth -> StructFrame]
        BY <2>5, <3>3, <3>4
      <3>6. \A k \in 1..sdepth : known[k] = IF k = sdepth THEN top ELSE below[k]
        BY <2>5, <3>4
      <3>7. ASSUME NEW k \in 1..sdepth
            PROVE  known[k].last = sframes[k].last /\ known[k].map = sframes[k].map
        BY <2>5, <3>3, <3>6
      <3>8. QED
        BY <3>5, <3>7
    <2> HIDE DEF known
    <2>7. known \in Seq(StructFrame) /\ Len(known) = sdepth
      BY <1>1, <2>6, FunctionIsSeq
    <2>8. /\ sframes' \in Seq(StructFrame) /\ Len(sframes') = sdepth + 1
          /\ \A k \in 1..sdepth : sframes'[k] = known[k]
          /\ sframes'[sdepth + 1] = Nested_
      BY <2>1, <2>4, <2>7, AppendProperties
    <2>9. DOMAIN sframes' = 1..(sdepth + 1)
      BY <2>8, LenProperties
    <2>10. ASSUME NEW k \in DOMAIN sframes', sframes'[k].last # NoField
           PROVE  sframes'[k].last \in DOMAIN StructMap[sframes'[k].map].fields
      <3>1. k \in 1..sdepth
        <4>1. k # sdepth + 1
          BY <2>4, <2>8, <2>10
        <4>2. QED
          BY <1>1, <2>9, <4>1
      <3>2. k \in DOMAIN sframes
        BY <1>1, <3>1
      <3>3. /\ sframes'[k].last = sframes[k].last
            /\ sframes'[k].map = sframes[k].map
        BY <2>6, <2>8, <3>1
      <3>4. QED
        BY <2>10, <3>2, <3>3 DEF StructInv
    <2>11. sframes' # << >>
      BY <1>1, <2>8, EmptySeq
    <2>12. sdepth' \in 0..MaxDepth /\ sdepth' <= Len(sframes')
      BY <1>1, <1>2, <2>8
    <2>13. QED
      BY <1>2, <2>8, <2>10, <2>11, <2>12 DEF StructInv
  <1>5. QED
    BY <1>3, <1>4

\* What a handler call needs of sdepth, and what it does to it.
LEMMA StructStep ==
    ASSUME StructInv, NEW e \in Event, "fine" \in StructOutcomes(e), StructHandle(e),
           e.call = "field" => sdepth >= 1,
           e.call = "end" => sdepth >= 1,
           e.call = "start" => sdepth < MaxDepth
    PROVE  /\ StructInv'
           /\ sdepth' = sdepth + (IF e.call = "start" THEN 1
                                  ELSE IF e.call = "end" THEN -1 ELSE 0)
  <1>1. e.call \in {"start", "field", "end"} /\ sdepth \in 0..MaxDepth /\ MaxDepth \in Nat
    BY DecoderAssumption DEF Event, StructInv
  <1>2. CASE e.call = "field"
    <2>1. CASE Mapped(e.field)
      <3>1. Unpack(e.field, e.value)
        BY <1>2, <2>1 DEF StructHandle
      <3>2. StructInv' /\ sdepth' = sdepth
        BY <1>2, <2>1, <3>1, StructFieldStep
      <3>3. QED
        BY <1>1, <1>2, <3>2
    <2>2. CASE ~Mapped(e.field)
      <3>1. UNCHANGED structVars
        BY <1>2, <2>2 DEF StructHandle
      <3>2. struct' = struct /\ sdepth' = sdepth /\ sframes' = sframes
        BY <3>1 DEF structVars
      <3>3. QED
        BY <1>1, <1>2, <3>2 DEF StructInv
    <2>3. QED
      BY <2>1, <2>2
  <1>3. CASE e.call = "start"
    <2>1. StructStart
      BY <1>3 DEF StructHandle
    <2>2. sdepth # 0 => STop.last # NoField /\ Typ[STop.last] = "message"
      BY <1>3 DEF StructOutcomes
    <2>3. QED
      BY <1>3, <2>1, <2>2, StructStartStep
  <1>4. CASE e.call = "end"
    <2>1. sdepth' = sdepth - 1 /\ sframes' = sframes /\ sdepth >= 1
      BY <1>4 DEF StructHandle, StructEnd
    <2>2. sdepth' \in 0..MaxDepth /\ sdepth' <= sdepth /\ sdepth' = sdepth + (-1)
      BY <1>1, <2>1
    <2>3. sdepth' <= Len(sframes)
      <3>1. sdepth <= Len(sframes) /\ Len(sframes) \in Nat
        BY LenProperties DEF StructInv
      <3>2. QED
        BY <1>1, <2>2, <3>1
    <2>4. QED
      BY <1>4, <2>1, <2>2, <2>3 DEF StructInv
  <1>5. QED
    BY <1>1, <1>2, <1>3, <1>4

-----------------------------------------------------------------------------
(* The decoder and the handlers: PendingInv is kept. *)

\* The types of what Balanced relates.
LEMMA BalanceTypes ==
    ASSUME ClientsInv
    PROVE  /\ Len(context) \in Nat /\ sdepth \in Nat /\ depth \in Nat /\ Len(events) \in Nat
           /\ seen \in Nat /\ seen <= Len(events) /\ events \in Seq(Event)
           /\ packed \in BOOLEAN /\ MaxDepth \in Nat /\ depth <= MaxDepth
           /\ packed => depth > 1
  <1>1. DecoderInv /\ DictsInv /\ StructInv /\ PendingInv
    BY DEF ClientsInv
  <1>2. Len(context) \in Nat
    BY <1>1, LenProperties DEF DictsInv
  <1>3. events \in Seq(Event) /\ Len(events) \in Nat
    BY <1>1, LenProperties DEF DecoderInv
  <1>4. sdepth \in Nat /\ depth \in Nat /\ MaxDepth \in Nat /\ depth <= MaxDepth
    BY <1>1, DecoderAssumption DEF DecoderInv, StructInv
  <1>5. seen \in Nat /\ seen <= Len(events)
    BY <1>1, <1>3 DEF PendingInv
  <1>6. packed \in BOOLEAN /\ (packed => depth > 1)
    BY <1>1 DEF DecoderInv
  <1>7. QED
    BY <1>2, <1>3, <1>4, <1>5, <1>6

\* Nothing waits, and the handlers are even with the decoder.
LEMMA QuietFacts ==
    ASSUME ClientsInv, ~Waiting
    PROVE  seen = Len(events) /\ (status # "aborted" => Balanced(0, 0))
  <1>1. seen = Len(events)
    BY BalanceTypes DEF Waiting
  <1>2. ~(seen + 1 = Len(events)) /\ ~(seen + 2 = Len(events))
    BY <1>1, BalanceTypes
  <1>3. QED
    BY <1>1, <1>2 DEF ClientsInv, PendingInv

\* What the decoder did is what the handlers have yet to do.
LEMMA BalanceMoves ==
    ASSUME ClientsInv, Balanced(0, 0), depth' \in Nat, packed' \in BOOLEAN,
           UNCHANGED <<context, sdepth, client, outcome>>
    PROVE  /\ depth' = depth /\ packed' = packed => Balanced(0, 0)'
           /\ depth' = depth + 1 /\ ~packed /\ packed' => Balanced(0, -1)'
           /\ depth' = depth + 1 /\ ~packed /\ ~packed' => Balanced(-1, -1)'
           /\ depth' = depth - 1 /\ ~packed' =>
                /\ client' = "python" =>
                      Len(context') = OpenMessages' + (IF packed THEN 0 ELSE 1)
                /\ client' = "struct" /\ outcome' = "fine" => sdepth' = depth' + 1
  <1>1. /\ Len(context) \in Nat /\ sdepth \in Nat /\ depth \in Nat /\ packed \in BOOLEAN
        /\ client = "python" => Len(context) = (IF packed THEN depth - 1 ELSE depth) + 0
        /\ client = "struct" /\ outcome = "fine" => sdepth = depth + 0
        /\ context' = context /\ sdepth' = sdepth /\ client' = client /\ outcome' = outcome
        /\ depth' \in Nat /\ packed' \in BOOLEAN
    BY BalanceTypes DEF Balanced, OpenMessages
  <1> DEFINE n == Len(context)
  <1>2. n \in Nat /\ n = Len(context')
    BY <1>1
  <1>3. depth' = depth /\ packed' = packed => Balanced(0, 0)'
    BY <1>1 DEF Balanced, OpenMessages
  <1>4. depth' = depth + 1 /\ ~packed /\ packed' => Balanced(0, -1)'
    BY <1>1 DEF Balanced, OpenMessages
  <1>5. depth' = depth + 1 /\ ~packed /\ ~packed' => Balanced(-1, -1)'
    BY <1>1 DEF Balanced, OpenMessages
  <1>6. depth' = depth - 1 /\ ~packed' =>
          /\ client' = "python" => Len(context') = OpenMessages' + (IF packed THEN 0 ELSE 1)
          /\ client' = "struct" /\ outcome' = "fine" => sdepth' = depth' + 1
    BY <1>1 DEF OpenMessages
  <1>7. QED
    BY <1>3, <1>4, <1>5, <1>6

\* A step of the decoder keeps the handlers behind it by the calls that wait.
LEMMA DecodePending ==
    ASSUME ClientsInv, Decode
    PROVE  ClientsInv'
  <1>1. /\ DecoderInv /\ Next /\ ~Waiting /\ outcome = "fine"
        /\ UNCHANGED <<heap, context, struct, sdepth, sframes, client, seen, outcome>>
    BY DEF Decode, ClientsInv, pyVars, structVars, clientVars
  <1>2. DecoderInv' /\ Told /\ status = "running" /\ depth >= 1
    BY <1>1, DecoderNext
  <1>3. seen = Len(events) /\ Balanced(0, 0)
    BY <1>1, <1>2, QuietFacts
  <1>4. /\ Len(events) \in Nat /\ depth \in Nat /\ depth' \in Nat /\ packed' \in BOOLEAN
        /\ Len(events') \in Nat
    <2>1. depth' \in Nat /\ packed' \in BOOLEAN
      BY <1>2 DEF DecoderInv
    <2>2. Len(events') \in Nat
      BY <1>2, LenProperties DEF DecoderInv
    <2>3. QED
      BY <2>1, <2>2, BalanceTypes
  <1>5. DictsInv' /\ StructInv'
    BY <1>1 DEF ClientsInv, DictsInv, StructInv
  <1> DEFINE n == Len(events)
  <1>6. client' \in Clients /\ outcome' \in {"fine", "undefined", "aborted"}
    BY <1>1 DEF ClientsInv, PendingInv
  <1>7. seen' = n /\ n \in Nat
    BY <1>1, <1>3, <1>4
  <1>8. CASE Len(events') = n /\ depth' = depth /\ packed' = packed
    <2>1. Balanced(0, 0)'
      BY <1>1, <1>3, <1>4, <1>8, BalanceMoves
    <2>2. ~Waiting' /\ seen' \in 0..Len(events')
      BY <1>7, <1>8 DEF Waiting
    <2>3. QED
      BY <1>2, <1>5, <1>6, <2>1, <2>2 DEF ClientsInv, PendingInv
  <1>9. CASE /\ Len(events') = n + 1 /\ depth' = depth /\ packed' = packed
             /\ events'[n + 1].call = "field"
             /\ Typ[events'[n + 1].field] = "message" => status' = "aborted"
    <2>1. Balanced(0, 0)'
      BY <1>1, <1>3, <1>4, <1>9, BalanceMoves
    <2>2. seen' + 1 = Len(events') /\ seen' \in 0..Len(events')
      BY <1>7, <1>9
    <2>3. /\ Call'.call = "field" /\ depth' >= 1
          /\ Typ[Call'.field] = "message" => status' = "aborted"
      BY <1>2, <1>7, <1>9 DEF Call
    <2>4. QED
      BY <1>2, <1>5, <1>6, <2>1, <2>2, <2>3 DEF ClientsInv, PendingInv
  <1>10. CASE /\ Len(events') = n + 1 /\ depth' = depth + 1 /\ ~packed /\ packed'
              /\ events'[n + 1].call = "start"
    <2>1. Balanced(0, -1)'
      BY <1>1, <1>3, <1>4, <1>10, BalanceMoves
    <2>2. seen' + 1 = Len(events') /\ seen' \in 0..Len(events')
      BY <1>7, <1>10
    <2>3. Call'.call = "start" /\ depth' >= 1
      BY <1>4, <1>7, <1>10 DEF Call
    <2>4. QED
      BY <1>2, <1>5, <1>6, <2>1, <2>2, <2>3 DEF ClientsInv, PendingInv
  <1>11. CASE /\ Len(events') = n + 2 /\ depth' = depth + 1 /\ ~packed /\ ~packed'
              /\ events'[n + 1].call = "field" /\ Typ[events'[n + 1].field] = "message"
              /\ events'[n + 2].call = "start"
    <2>1. Balanced(-1, -1)'
      BY <1>1, <1>3, <1>4, <1>11, BalanceMoves
    <2>2. seen' + 2 = Len(events') /\ seen' \in 0..Len(events')
      BY <1>7, <1>11
    <2>3. /\ Call'.call = "field" /\ Typ[Call'.field] = "message" /\ depth' > 1
          /\ events'[seen' + 2].call = "start"
      BY <1>2, <1>4, <1>7, <1>11 DEF Call
    <2>4. QED
      BY <1>2, <1>5, <1>6, <1>11, <2>1, <2>2, <2>3 DEF ClientsInv, PendingInv
  <1>12. CASE /\ Len(events') = n + 1 /\ depth' = depth - 1 /\ ~packed'
              /\ events'[n + 1].call = "end" /\ events'[n + 1].packed = packed
    <2>1. /\ client' = "python" => Len(context') = OpenMessages' + (IF packed THEN 0 ELSE 1)
          /\ client' = "struct" /\ outcome' = "fine" => sdepth' = depth' + 1
      BY <1>1, <1>3, <1>4, <1>12, BalanceMoves
    <2>2. seen' + 1 = Len(events') /\ seen' \in 0..Len(events')
      BY <1>7, <1>12
    <2>3. Call'.call = "end" /\ Call'.packed = packed
      BY <1>7, <1>12 DEF Call
    <2>4. Balanced(IF Call.packed THEN 0 ELSE 1, 1)'
      BY <2>1, <2>3 DEF Balanced
    <2>5. QED
      BY <1>2, <1>5, <1>6, <2>2, <2>3, <2>4 DEF ClientsInv, PendingInv
  <1>13. QED
    BY <1>2, <1>8, <1>9, <1>10, <1>11, <1>12 DEF Told

\* The call that is handled next is a call of a handler.
LEMMA CallType ==
    ASSUME ClientsInv, Waiting
    PROVE  Call \in Event
  <1>1. seen + 1 \in 1..Len(events) /\ events \in Seq(Event)
    BY BalanceTypes DEF Waiting
  <1>2. QED
    BY <1>1, ElementOfSeq DEF Call

\* The calls that may wait.
LEMMA WaitingFacts ==
    ASSUME ClientsInv, Waiting
    PROVE  \/ /\ seen + 1 = Len(events)
              /\ Call.call = "start" /\ depth >= 1 /\ Balanced(0, -1)
           \/ /\ seen + 1 = Len(events)
              /\ Call.call = "end" /\ Balanced(IF Call.packed THEN 0 ELSE 1, 1)
           \/ /\ seen + 1 = Len(events)
              /\ Call.call = "field" /\ depth >= 1 /\ Balanced(0, 0)
              /\ Typ[Call.field] = "message" => status = "aborted"
           \/ /\ seen + 2 = Len(events) /\ depth > 1 /\ ~packed
              /\ Call.call = "field" /\ Typ[Call.field] = "message"
              /\ events[seen + 2].call = "start" /\ Balanced(-1, -1)
  BY DEF ClientsInv, PendingInv

\* The last call that waits has been handled, or the first of two.
LEMMA HandledOne ==
    ASSUME ClientsInv, Waiting, seen' = seen + 1, UNCHANGED vars, client' = client,
           outcome' \in {"fine", "undefined", "aborted"}, DictsInv', StructInv',
           seen + 1 = Len(events) => (status # "aborted" => Balanced(0, 0)'),
           seen + 2 = Len(events) => Balanced(0, -1)'
    PROVE  ClientsInv'
  <1>1. /\ DecoderInv' /\ events' = events /\ depth' = depth /\ status' = status
    BY DEF ClientsInv, DecoderInv, FramesNested, vars
  <1>2. client' \in Clients
    BY DEF ClientsInv, PendingInv
  <1>3. /\ seen \in Nat /\ Len(events) \in Nat /\ seen' \in 0..Len(events') /\ seen' = seen + 1
    BY <1>1, BalanceTypes DEF Waiting
  <1>4. CASE seen + 1 = Len(events)
    <2>1. ~Waiting' /\ (status' # "aborted" => Balanced(0, 0)')
      BY <1>1, <1>3, <1>4 DEF Waiting
    <2>2. PendingInv'
      BY <1>2, <1>3, <2>1 DEF PendingInv
    <2>3. QED
      BY <1>1, <2>2 DEF ClientsInv
  <1>5. CASE seen + 1 # Len(events)
    <2>1. /\ seen + 2 = Len(events) /\ depth > 1 /\ events[seen + 2].call = "start"
      BY <1>5, WaitingFacts
    <2>2. seen' + 1 = seen + 2
      BY <1>3
    <2>3. seen' + 1 = Len(events') /\ Call'.call = "start"
      BY <1>1, <2>1, <2>2 DEF Call
    <2>4. depth' >= 1 /\ Balanced(0, -1)'
      BY <1>1, <2>1, BalanceTypes
    <2>5. PendingInv'
      BY <1>2, <1>3, <2>3, <2>4 DEF PendingInv
    <2>6. QED
      BY <1>1, <2>5 DEF ClientsInv
  <1>6. QED
    BY <1>4, <1>5

\* The debug handlers keep no state.
LEMMA DebugPending ==
    ASSUME ClientsInv, Debug
    PROVE  ClientsInv'
  <1>1. /\ client = "debug" /\ seen' = Len(events)
        /\ UNCHANGED <<in, depth, packed, stack, field_desc, events, status>>
        /\ UNCHANGED <<heap, context, struct, sdepth, sframes, client, outcome>>
    BY DEF Debug, vars, pyVars, structVars
  <1>2. DecoderInv' /\ DictsInv' /\ StructInv'
    BY <1>1 DEF ClientsInv, DecoderInv, FramesNested, DictsInv, StructInv
  <1>3. Balanced(0, 0)' /\ ~Waiting' /\ seen' \in 0..Len(events')
    BY <1>1, BalanceTypes DEF Balanced, Waiting
  <1>4. PendingInv'
    BY <1>1, <1>3 DEF ClientsInv, PendingInv
  <1>5. QED
    BY <1>2, <1>4 DEF ClientsInv

\* One call of a Python handler catches up with the decoder by one call.
LEMMA PythonPending ==
    ASSUME ClientsInv, Python
    PROVE  ClientsInv'
  <1>1. /\ client = "python" /\ Waiting /\ PyHandle(Call) /\ seen' = seen + 1
        /\ UNCHANGED vars /\ UNCHANGED structVars /\ client' = client /\ outcome' = outcome
    BY DEF Python
  <1>2. /\ depth' = depth /\ packed' = packed /\ sdepth' = sdepth /\ StructInv'
        /\ outcome' \in {"fine", "undefined", "aborted"}
    BY <1>1 DEF vars, structVars, StructInv, ClientsInv, PendingInv
  <1>3. Call \in Event /\ DictsInv
    BY <1>1, CallType DEF ClientsInv
  <1> DEFINE e == Call
             open == IF packed THEN depth - 1 ELSE depth
  <1>4. /\ \A x, y : Balanced(x, y) => Len(context) = open + x
        /\ open \in Nat /\ (depth >= 1 => open >= 1) /\ Len(context) \in Nat
    BY <1>1, BalanceTypes DEF Balanced, OpenMessages
  <1>5. ASSUME NEW x, NEW y, Len(context') = open + x PROVE Balanced(x, y)'
    BY <1>1, <1>2, <1>5 DEF Balanced, OpenMessages
  <1> HIDE DEF e
  <1>6. \/ /\ seen + 1 = Len(events) /\ e.call = "start" /\ Len(context) = open
        \/ /\ seen + 1 = Len(events) /\ e.call = "end"
           /\ Len(context) = open + (IF e.packed THEN 0 ELSE 1)
        \/ /\ seen + 1 = Len(events) /\ e.call = "field" /\ depth >= 1 /\ Len(context) = open
           /\ Typ[e.field] = "message" => status = "aborted"
        \/ /\ seen + 2 = Len(events) /\ e.call = "field" /\ Typ[e.field] = "message"
           /\ depth > 1 /\ ~packed /\ Len(context) = open - 1
    <2>1. open + 0 = open /\ open + (-1) = open - 1
      BY <1>4
    <2>2. QED
      BY <1>1, <1>4, <2>1, WaitingFacts DEF e
  <1>7. /\ e.call = "field" => Len(context) >= 1
        /\ e.call = "end" /\ ~e.packed => Len(context) >= 1
    BY <1>4, <1>6, BalanceTypes
  <1>8. /\ DictsInv'
        /\ Len(context') =
             Len(context) + (IF e.call = "field" /\ Typ[e.field] = "message" THEN 1
                             ELSE IF e.call = "end" /\ ~e.packed THEN -1 ELSE 0)
    BY <1>1, <1>3, <1>7, PyStep DEF e
  <1> HIDE DEF open
  <1>9. seen + 1 = Len(events) /\ status # "aborted" => Len(context') = open + 0
    <2>1. ~(seen + 1 = Len(events) /\ seen + 2 = Len(events))
      BY BalanceTypes
    <2>2. QED
      BY <1>4, <1>6, <1>8, <2>1
  <1>10. seen + 2 = Len(events) => Len(context') = open + 0
    <2>1. ~(seen + 1 = Len(events) /\ seen + 2 = Len(events))
      BY BalanceTypes
    <2>2. QED
      BY <1>4, <1>6, <1>8, <2>1
  <1>11. QED
    BY <1>1, <1>2, <1>5, <1>8, <1>9, <1>10, HandledOne

\* One call of a struct handler catches up with the decoder by one call.
LEMMA StructPending ==
    ASSUME ClientsInv, Struct
    PROVE  ClientsInv'
  <1>1. /\ client = "struct" /\ Waiting /\ outcome = "fine"
        /\ outcome' \in StructOutcomes(Call)
        /\ outcome' = "fine" => StructHandle(Call)
        /\ outcome' # "fine" => UNCHANGED structVars
        /\ seen' = seen + 1 /\ UNCHANGED vars /\ UNCHANGED pyVars /\ client' = client
    BY DEF Struct
  <1>2. /\ depth' = depth /\ packed' = packed /\ context' = context /\ DictsInv'
    BY <1>1 DEF vars, pyVars, DictsInv, ClientsInv
  <1>3. Call \in Event /\ StructInv
    BY <1>1, CallType DEF ClientsInv
  <1>4. outcome' \in {"fine", "undefined", "aborted"}
    BY <1>1, <1>3 DEF StructOutcomes, Event
  <1> DEFINE e == Call
  <1>5. \A x, y : Balanced(x, y) => sdepth = depth + y
    BY <1>1 DEF Balanced
  <1>6. ASSUME NEW x, NEW y, outcome' = "fine" => sdepth' = depth + y PROVE Balanced(x, y)'
    BY <1>1, <1>2, <1>6 DEF Balanced
  <1> HIDE DEF e
  <1>7. \/ /\ seen + 1 = Len(events) /\ e.call = "start" /\ depth >= 1 /\ sdepth = depth + -1
        \/ /\ seen + 1 = Len(events) /\ e.call = "end" /\ sdepth = depth + 1
        \/ /\ seen + 1 = Len(events) /\ e.call = "field" /\ depth >= 1 /\ sdepth = depth + 0
        \/ /\ seen + 2 = Len(events) /\ e.call = "field" /\ depth > 1 /\ sdepth = depth + -1
    BY <1>1, <1>5, WaitingFacts DEF e
  <1>8. /\ sdepth \in Nat /\ depth \in Nat /\ MaxDepth \in Nat /\ depth <= MaxDepth
        /\ ~(seen + 1 = Len(events) /\ seen + 2 = Len(events))
    BY BalanceTypes
  <1>9. /\ e.call = "field" => sdepth >= 1
        /\ e.call = "end" => sdepth >= 1
        /\ e.call = "start" => sdepth < MaxDepth
    BY <1>7, <1>8
  <1>10. CASE outcome' = "fine"
    <2>1. /\ StructInv'
          /\ sdepth' = sdepth + (IF e.call = "start" THEN 1
                                 ELSE IF e.call = "end" THEN -1 ELSE 0)
      BY <1>1, <1>3, <1>9, <1>10, StructStep DEF e
    <2>2. seen + 1 = Len(events) => sdepth' = depth + 0
      BY <1>7, <1>8, <2>1
    <2>3. seen + 2 = Len(events) => sdepth' = depth + -1
      BY <1>7, <1>8, <2>1
    <2>4. QED
      BY <1>1, <1>2, <1>4, <1>6, <2>1, <2>2, <2>3, HandledOne
  <1>11. CASE outcome' # "fine"
    <2>1. StructInv'
      BY <1>1, <1>3, <1>11 DEF StructInv, structVars
    <2>2. QED
      BY <1>1, <1>2, <1>4, <1>6, <1>11, <2>1, HandledOne
  <1>12. QED
    BY <1>10, <1>11

\* The decoder has made its first call, and no handler has handled one.
LEMMA ClientsInit ==
    ASSUME CInit
    PROVE  ClientsInv
  <1>1. DecoderInv /\ Len(events) = 1 /\ events[1].call = "start"
    BY DecoderInit DEF CInit
  <1>2. /\ heap = << EmptyDict >> /\ context = << 1 >> /\ sdepth = 0
        /\ sframes = << SFrame(RootMap, 0) >> /\ depth = 1 /\ packed = FALSE
        /\ client \in Clients /\ seen = 0 /\ outcome = "fine"
    BY DEF CInit, Init, PyInit, StructInit
  <1>3. DictsInv
    <2>1. EmptyDict \in [Field -> Seq(Item)] /\ \A f \in Field : EmptyDict[f] = << >>
      BY EmptySeq DEF EmptyDict
    <2> DEFINE d == EmptyDict
    <2> HIDE DEF d
    <2>2. /\ heap = << d >> /\ d \in [Field -> Seq(Item)]
          /\ \A f \in Field : d[f] = << >>
      BY <1>2, <2>1 DEF d
    <2>3. /\ heap \in Seq([Field -> Seq(Item)]) /\ heap # << >>
          /\ DOMAIN heap = {1} /\ heap[1] = d
      BY <2>2
    <2>4. context \in Seq(DOMAIN heap)
      BY <1>2, <2>3
    <2>5. QED
      BY <2>2, <2>3, <2>4 DEF DictsInv
  <1>4. StructInv
    <2> DEFINE fr == SFrame(RootMap, 0)
    <2>1. fr \in StructFrame /\ fr.last = NoField
      BY MapAssumption DEF SFrame, StructFrame
    <2> HIDE DEF fr
    <2>2. sframes = << fr >>
      BY <1>2 DEF fr
    <2>3. /\ sframes \in Seq(StructFrame) /\ sframes # << >> /\ Len(sframes) = 1
          /\ DOMAIN sframes = {1} /\ sframes[1] = fr
      BY <2>1, <2>2
    <2>4. sdepth \in 0..MaxDepth /\ sdepth <= 1
      BY <1>2, DecoderAssumption
    <2>5. QED
      BY <2>1, <2>3, <2>4 DEF StructInv
  <1>5. PendingInv
    <2>1. Len(context) = 1
      BY <1>2
    <2>2. OpenMessages = 1
      BY <1>2 DEF OpenMessages
    <2>3. Balanced(0, -1)
      BY <1>2, <2>1, <2>2 DEF Balanced
    <2>4. Call.call = "start" /\ seen + 1 = Len(events) /\ seen \in 0..Len(events) /\ depth >= 1
      BY <1>1, <1>2 DEF Call
    <2>5. QED
      BY <1>2, <2>3, <2>4 DEF PendingInv
  <1>6. QED
    BY <1>1, <1>3, <1>4, <1>5 DEF ClientsInv

\* The decoder, the dicts and the struct stay in step, whatever is decoded and
\* whichever handlers are set.
THEOREM ClientsInvariant == CSpec => []ClientsInv
  <1>1. CInit => ClientsInv
    BY ClientsInit
  <1>2. ClientsInv /\ [CNext]_allVars => ClientsInv'
    <2> SUFFICES ASSUME ClientsInv, [CNext]_allVars PROVE ClientsInv'
      OBVIOUS
    <2>1. CASE Debug
      BY <2>1, DebugPending
    <2>2. CASE Python
      BY <2>2, PythonPending
    <2>3. CASE Struct
      BY <2>3, StructPending
    <2>4. CASE Decode
      BY <2>4, DecodePending
    <2>5. CASE UNCHANGED allVars
      <3>1. /\ UNCHANGED <<in, depth, packed, stack, field_desc, events, status>>
            /\ UNCHANGED <<heap, context, struct, sdepth, sframes, client, seen, outcome>>
        BY <2>5 DEF allVars, vars, pyVars, structVars, clientVars
      <3>2. DecoderInv' /\ DictsInv' /\ StructInv'
        BY <3>1 DEF ClientsInv, DecoderInv, FramesNested, DictsInv, StructInv
      <3>3. PendingInv'
        BY <3>1 DEF ClientsInv, PendingInv, Waiting, Call, Balanced, OpenMessages
      <3>4. QED
        BY <3>2, <3>3 DEF ClientsInv
    <2>6. QED
      BY <2>1, <2>2, <2>3, <2>4, <2>5 DEF CNext
  <1>3. QED
    BY <1>1, <1>2, PTL DEF CSpec

\* Every variable of the decoder, of the dicts of Decoder_decode and of the
\* struct decoder keeps its type.
THEOREM TypeCorrect == CSpec => []TypeOK
  <1>1. ClientsInv => TypeOK
    <2> SUFFICES ASSUME ClientsInv PROVE TypeOK
      OBVIOUS
    <2>1. DecoderInv /\ DictsInv /\ StructInv /\ PendingInv
      BY DEF ClientsInv
    <2>2. \A k \in DOMAIN context : context[k] \in DOMAIN heap
      BY <2>1, LenProperties, ElementOfSeq DEF DictsInv
    <2>3. QED
      BY <2>1, <2>2 DEF DecoderInv, StructInv, PendingInv, TypeOK
  <1>2. QED
    BY <1>1, ClientsInvariant, PTL

\* Once its calls are handled, the stack of dicts of the Python decoder
\* (context->stack) has one dict for each message that is open; packed runs,
\* which end with the same call as messages, take none off.
THEOREM ContextIsBalanced == CSpec => []ContextBalanced
  <1>1. ClientsInv => ContextBalanced
    <2> SUFFICES ASSUME ClientsInv, client = "python", ~Waiting, status # "aborted"
                 PROVE  Len(context) = Cardinality({i \in 1..depth : ~(packed /\ i = depth)})
      BY DEF ContextBalanced
    <2> DEFINE open == {i \in 1..depth : ~(packed /\ i = depth)}
    <2>1. Len(context) = OpenMessages + 0
      BY QuietFacts DEF Balanced
    <2>2. depth \in Nat /\ packed \in BOOLEAN /\ (packed => depth > 1)
      BY BalanceTypes
    <2>3. open = 1..OpenMessages /\ OpenMessages \in Nat
      BY <2>2 DEF OpenMessages
    <2>4. Cardinality(1..OpenMessages) = OpenMessages
      BY <2>3, FS_Interval
    <2> HIDE DEF open
    <2>5. Cardinality(open) = OpenMessages
      BY <2>3, <2>4
    <2>6. QED
      BY <2>1, <2>3, <2>5 DEF open
  <1>2. QED
    BY <1>1, ClientsInvariant, PTL
=============================================================================
