----------------------- MODULE LwpbEncoder_refinement -----------------------
(***************************************************************************)
(* What the encoder's frames stand for: PackedIsTop, and that the encoder  *)
(* implements MessageBuilder.                                              *)
(***************************************************************************)
EXTENDS LwpbEncoder_proofs

\* The descriptors of the frames up to the d-th stay what they are.
Kept(d) == \A i \in 1..d : /\ stack'[i].field = stack[i].field
                           /\ stack'[i].msg = stack[i].msg

\* A call of add_field leaves the descriptors of all frames alone.
LEMMA AddedKept ==
    ASSUME TypeOK, NEW d \in 1..MaxDepth, NEW raw \in BOOLEAN, NEW f \in Field,
           NEW n \in 0..BufLen, NEW src \in 0..MaxDepth,
           src # 0 => n = Used(stack[src].buf),
           AddFieldTo(d, raw, f, n, src)
    PROVE  /\ Kept(MaxDepth)
           /\ damage' = "none" => damage = "none"
           /\ raw /\ status' = "running" => stack[d].field = f
  <1>1. Kept(MaxDepth)
    <2>1. stack \in [1..MaxDepth -> Frame]
      BY DEF TypeOK
    <2>2. CASE stack' = stack
      BY <2>2 DEF Kept
    <2>3. CASE \E k \in 0..Left(stack[d].buf) :
                  stack' = [stack EXCEPT ![d].buf.pos = @ + k]
      BY <2>1, <2>3 DEF Kept, Frame
    <2>4. QED
      BY <2>2, <2>3, AddFieldToStep
  <1>2. damage' = "none" => damage = "none"
    BY DEF AddFieldTo, WriteField, Abort, Undefined, Spoil
  <1>3. raw /\ status' = "running" => stack[d].field = f
    BY DEF AddFieldTo, Abort, Undefined, Belongs
  <1>4. QED
    BY <1>1, <1>2, <1>3

\* A start call fails for good, or leaves a frame with the new descriptors.
LEMMA PushedFrame ==
    ASSUME TypeOK, status = "running", NEW f \in Field, NEW m \in Msg \cup {NoMsg},
           NEW pack \in BOOLEAN, PushFrame(f, m, pack)
    PROVE  \/ status' # "running" /\ UNCHANGED <<depth, stack, packed>>
           \/ /\ depth \in 1..(MaxDepth - 1) /\ depth' = depth + 1
              /\ Kept(depth)
              /\ stack'[depth + 1].field = f /\ stack'[depth + 1].msg = m
              /\ damage' = "none" =>
                    damage = "none" /\ ~packed /\ packed' = pack
  <1> DEFINE parent == stack[depth].buf
             new == [stack EXCEPT ![depth + 1].field = f, ![depth + 1].msg = m]
  <1>1. stack \in [1..MaxDepth -> Frame] /\ depth \in 0..MaxDepth /\ packed \in BOOLEAN
        /\ MaxDepth \in Nat
    BY EncoderAssumption DEF TypeOK
  <1>2. CASE status' # "running" /\ UNCHANGED <<depth, stack, packed>>
    BY <1>2
  <1>3. CASE /\ depth \in 1..(MaxDepth - 1)
             /\ depth' = depth + 1 /\ stack' = new
             /\ damage' = "frames"
    BY <1>1, <1>3 DEF Kept, Frame
  <1>4. CASE /\ depth \in 1..(MaxDepth - 1)
             /\ depth' = depth + 1
             /\ stack' = [new EXCEPT ![depth + 1].buf = ChildBuf(parent)]
             /\ packed' = (packed \/ pack)
             /\ IF packed THEN Spoil("bytes") ELSE UNCHANGED damage
    BY <1>1, <1>4 DEF Kept, Frame, Spoil
  <1>5. QED
    BY <1>2, <1>3, <1>4 DEF PushFrame, Undefined, Abort

-----------------------------------------------------------------------------
(* PackedInv is inductive. *)

LEMMA PackedInvInit == Init => PackedInv
  BY FramesInvInit DEF Init, PackedInv, FramesPushed, PackedIsTop, Intact

\* A call that leaves all frames as they are, and no error behind.
LEMMA PackedStays ==
    ASSUME TypeOK, FramesPushed, PackedIsTop, Kept(depth), depth' = depth,
           packed' = packed, status = "running", damage' = "none" => damage = "none"
    PROVE  FramesPushed' /\ PackedIsTop'
  BY DEF TypeOK, FramesPushed, PackedIsTop, Intact, Kept

LEMMA PackedPush ==
    ASSUME PackedInv, FramesInv', status = "running", NEW f \in Field,
           NEW m \in Msg \cup {NoMsg}, NEW pack \in BOOLEAN,
           \/ Typ[f] = "message" /\ m = SubMsg[f] /\ ~pack
           \/ Packed[f] /\ m = NoMsg /\ pack,
           PushFrame(f, m, pack)
    PROVE  FramesPushed' /\ PackedIsTop'
  <1>1. depth \in 0..MaxDepth /\ packed \in BOOLEAN /\ MaxDepth \in Nat
    BY EncoderAssumption DEF PackedInv, FramesInv, TypeOK
  <1>2. CASE status' # "running" /\ UNCHANGED <<depth, stack, packed>>
    BY <1>2 DEF PackedInv, FramesPushed, PackedIsTop, Intact
  <1>3. CASE /\ depth \in 1..(MaxDepth - 1) /\ depth' = depth + 1
             /\ Kept(depth)
             /\ stack'[depth + 1].field = f /\ stack'[depth + 1].msg = m
             /\ damage' = "none" => damage = "none" /\ ~packed /\ packed' = pack
    <2>1. FramesPushed'
      BY <1>1, <1>3 DEF PackedInv, FramesPushed, Kept
    <2>2. m = NoMsg <=> pack
      BY FieldAssumption
    <2>3. ASSUME Intact' PROVE \A i \in 1..depth' : stack'[i].msg = NoMsg <=> packed' /\ i = depth'
      <3>1. damage' = "none" /\ Intact
        BY <1>3, <2>3 DEF Intact
      <3>2. \A i \in 1..depth : stack'[i].msg # NoMsg
        BY <1>3, <3>1 DEF PackedInv, PackedIsTop, Kept
      <3>3. QED
        BY <1>1, <1>3, <2>2, <3>1, <3>2
    <2>4. QED
      BY <2>1, <2>3 DEF PackedIsTop
  <1>4. QED
    BY <1>2, <1>3, PushedFrame DEF PackedInv, FramesInv

\* In a run, add_field into the parent fails: the parent is no run of f.
LEMMA PopOutsideRun ==
    ASSUME PackedInv, Intact, status' = "running", NEW raw \in BOOLEAN,
           PopInto(raw), raw => packed
    PROVE  ~raw
  <1> DEFINE d == depth - 1
             f == stack[depth].field
             n == Used(stack[depth].buf)
  <1>1. /\ depth \in 2..MaxDepth /\ depth \in 1..depth /\ d \in 1..MaxDepth /\ d \in 1..depth
        /\ d # depth /\ depth \in 2..depth
    BY EncoderAssumption DEF PackedInv, FramesInv, TypeOK, PopInto
  <1>2. f \in Field
    BY <1>1 DEF PackedInv, FramesInv, PushedFields
  <1> SUFFICES ASSUME raw PROVE FALSE
    OBVIOUS
  <1>3. stack[depth].msg = NoMsg /\ stack[d].msg # NoMsg
    BY <1>1 DEF PackedInv, PackedIsTop
  <1>4. Packed[f] /\ Typ[f] # "message"
    BY <1>1, <1>2, <1>3, FieldAssumption DEF PackedInv, FramesPushed
  <1>5. stack[d].field = f
    BY DEF PopInto, AddFieldTo, Abort, Undefined, Belongs, Intact
  <1>6. d # 1
    BY <1>1, <1>2, <1>5, FieldAssumption DEF PackedInv, FramesPushed
  <1>7. d \in 2..depth
    BY <1>1, <1>6
  <1>8. QED
    BY <1>3, <1>4, <1>5, <1>7 DEF PackedInv, FramesPushed

LEMMA PackedPop ==
    ASSUME PackedInv, status = "running", NEW raw \in BOOLEAN, PopInto(raw),
           \/ raw = packed /\ packed' = packed
           \/ packed /\ packed' = FALSE
    PROVE  FramesPushed' /\ PackedIsTop'
  <1> DEFINE d == depth - 1
             f == stack[depth].field
             n == Used(stack[depth].buf)
  <1>1. /\ depth \in 2..MaxDepth /\ d \in 1..MaxDepth /\ d \in 1..depth /\ depth' = d
        /\ packed \in BOOLEAN /\ \A i \in 1..d : i \in 1..depth /\ i \in 1..MaxDepth /\ i # depth
    BY EncoderAssumption DEF PackedInv, FramesInv, TypeOK, PopInto
  <1>2. f \in Field /\ n \in 0..BufLen /\ depth \in 0..MaxDepth
    BY <1>1, FrameBuf DEF PackedInv, FramesInv, PushedFields
  <1>3. /\ Kept(MaxDepth)
        /\ damage' = "none" => damage = "none"
        /\ raw /\ status' = "running" => stack[d].field = f
    <2>1. AddFieldTo(d, raw, f, n, depth)
      BY DEF PopInto
    <2>2. TypeOK
      BY DEF PackedInv, FramesInv
    <2> HIDE DEF d, f, n
    <2>3. depth # 0 => n = Used(stack[depth].buf)
      BY DEF n
    <2>4. QED
      BY <1>1, <1>2, <2>1, <2>2, <2>3, AddedKept
  <1>4. FramesPushed'
    BY <1>1, <1>3 DEF PackedInv, FramesPushed, Kept
  <1>5. ASSUME Intact' PROVE \A i \in 1..d : stack'[i].msg # NoMsg /\ ~packed'
    <2>1. Intact /\ status' = "running"
      BY <1>1, <1>3, <1>5 DEF Intact
    <2>2. \A i \in 1..d : stack'[i].msg # NoMsg
      BY <1>1, <1>3, <2>1 DEF PackedInv, PackedIsTop, Kept
    <2>3. CASE packed' = packed /\ raw = packed
      <3>1. ~packed
        BY <2>1, <2>3, PopOutsideRun
      <3>2. QED
        BY <1>1, <2>2, <2>3, <3>1
    <2>4. QED
      BY <2>2, <2>3
  <1>6. PackedIsTop'
    BY <1>1, <1>5 DEF PackedIsTop
  <1>7. QED
    BY <1>4, <1>6

LEMMA PackedInvNext == PackedInv /\ [Next]_vars => PackedInv'
  <1> SUFFICES ASSUME PackedInv, [Next]_vars PROVE PackedInv'
    OBVIOUS
  <1>1. FramesInv /\ FramesInv' /\ TypeOK
    BY FramesInvNext DEF PackedInv, FramesInv
  <1> SUFFICES FramesPushed' /\ PackedIsTop'
    BY <1>1 DEF PackedInv
  <1>2. CASE UNCHANGED vars
    BY <1>2 DEF vars, PackedInv, FramesPushed, PackedIsTop, Intact
  <1>3. ASSUME NEW len \in 0..BufLen, Start(len)
        PROVE  FramesPushed' /\ PackedIsTop'
    <2>1. stack \in [1..MaxDepth -> Frame] /\ 1 \in 1..MaxDepth
      BY <1>1, EncoderAssumption DEF TypeOK
    <2>2. stack'[1].field = NoField /\ stack'[1].msg = RootMsg
      BY <1>3, <2>1 DEF Start
    <2>3. RootMsg # NoMsg
      BY FieldAssumption
    <2>4. QED
      BY <1>3, <2>2, <2>3 DEF Start, FramesPushed, PackedIsTop, Intact
  <1> DEFINE Running == status = "running"
             Same == Kept(depth) /\ UNCHANGED <<depth, packed>>
                       /\ (damage' = "none" => damage = "none")
  <1>4. Running /\ Same => FramesPushed' /\ PackedIsTop'
    BY <1>1, PackedStays DEF PackedInv
  <1>5. ASSUME Abort \/ Undefined, UNCHANGED <<depth, packed>>
        PROVE  Same
    BY <1>5 DEF Abort, Undefined, Kept
  <1>6. ASSUME Running, NEW f \in Field, NestedStart(f)
        PROVE  FramesPushed' /\ PackedIsTop'
    BY <1>1, <1>6, PackedPush, FieldAssumption DEF NestedStart
  <1>7. ASSUME Running, NEW f \in Field, PackedRepeatedStart(f)
        PROVE  FramesPushed' /\ PackedIsTop'
    <2>1. CASE Abort /\ UNCHANGED <<depth, packed>>
      BY <1>4, <1>5, <1>7, <2>1
    <2>2. CASE PushFrame(f, NoMsg, TRUE) /\ Packed[f]
      BY <1>1, <1>7, <2>2, PackedPush
    <2>3. QED
      BY <1>7, <2>1, <2>2 DEF PackedRepeatedStart
  <1>8. ASSUME Running, NEW f \in Field, AddScalarOutsideRun(f)
        PROVE  FramesPushed' /\ PackedIsTop'
    BY <1>4, <1>5, <1>8 DEF AddScalarOutsideRun
  <1>9. ASSUME Running, NEW f \in Field, NEW n \in ValueLens[f], AddField(f, n)
        PROVE  FramesPushed' /\ PackedIsTop'
    <2>1. CASE Abort /\ UNCHANGED <<depth, packed>>
      BY <1>4, <1>5, <1>9, <2>1
    <2>2. CASE depth > 0 /\ AddFieldTo(depth, packed, f, n, 0) /\ UNCHANGED <<depth, packed>>
      <3>1. depth \in 1..MaxDepth /\ packed \in BOOLEAN /\ n \in 0..BufLen
            /\ 0 \in 0..MaxDepth /\ depth \in Nat /\ MaxDepth \in Nat
        BY <1>1, <2>2, LengthAssumption, EncoderAssumption DEF TypeOK
      <3>2. Kept(MaxDepth) /\ (damage' = "none" => damage = "none")
        BY <1>1, <2>2, <3>1, AddedKept
      <3>3. Same
        BY <2>2, <3>1, <3>2 DEF Kept
      <3>4. QED
        BY <1>4, <1>9, <3>3
    <2>3. QED
      BY <1>9, <2>1, <2>2 DEF AddField
  <1>10. ASSUME Running, NestedEnd
         PROVE  FramesPushed' /\ PackedIsTop'
    <2>1. packed \in BOOLEAN
      BY <1>1 DEF TypeOK
    <2>2. QED
      BY <1>4, <1>5, <1>10, <2>1, PackedPop DEF NestedEnd
  <1>11. ASSUME Running, PackedRepeatedEnd
         PROVE  FramesPushed' /\ PackedIsTop'
    BY <1>4, <1>5, <1>11, PackedPop DEF PackedRepeatedEnd
  <1>12. QED
    BY <1>2, <1>3, <1>6, <1>7, <1>8, <1>9, <1>10, <1>11 DEF Next

\* encoder->packed and the frame on top agree, for every sequence of calls of
\* which none has failed.
THEOREM PackedTop == Spec => []PackedIsTop
  <1>1. PackedInv => PackedIsTop
    BY DEF PackedInv
  <1>2. QED
    BY <1>1, PackedInvInit, PackedInvNext, PTL DEF Spec

-----------------------------------------------------------------------------
(* What a write leaves in the buffer.                                      *)

LEMMA WriteAt ==
    ASSUME NEW m \in [Addr -> Cell], NEW at \in Nat, NEW s \in Seq(Cell),
           at + Len(s) <= BufLen
    PROVE  \A i \in 1..Len(s) : Write(m, at, s)[at + i - 1] = s[i]
  <1>1. Len(s) \in Nat /\ BufLen \in Nat
    BY LenProperties, LengthAssumption
  <1>2. ASSUME NEW i \in 1..Len(s) PROVE Write(m, at, s)[at + i - 1] = s[i]
    <2>1. /\ at + i - 1 \in Addr /\ at + i - 1 \in at..(at + Len(s) - 1)
          /\ (at + i - 1) - at + 1 = i
      BY <1>1 DEF Addr
    <2>2. QED
      BY <2>1 DEF Write
  <1>3. QED
    BY <1>2

\* Bytes that are all in the caller's memory.
LEMMA BytesType ==
    ASSUME NEW m \in [Addr -> Cell], NEW from \in Nat, NEW len \in Nat,
           from + len <= BufLen
    PROVE  /\ Bytes(m, from, len) \in Seq(Cell) /\ Len(Bytes(m, from, len)) = len
           /\ \A i \in 1..len : from + i - 1 \in Addr /\ Bytes(m, from, len)[i] = m[from + i - 1]
  <1>1. \A i \in 1..len : from + i - 1 \in Addr
    BY LengthAssumption DEF Addr
  <1>2. Bytes(m, from, len) \in [1..len -> Cell]
    BY <1>1 DEF Bytes
  <1>3. QED
    BY <1>1, <1>2, FunctionIsSeq DEF Bytes

LEMMA NoBytes == ASSUME NEW m, NEW from PROVE Bytes(m, from, 0) = << >>
  <1>1. Bytes(m, from, 0) \in [1..0 -> Cell]
    BY DEF Bytes
  <1>2. Bytes(m, from, 0) \in Seq(Cell) /\ Len(Bytes(m, from, 0)) = 0
    BY <1>1, FunctionIsSeq
  <1>3. QED
    BY <1>2, EmptySeq

LEMMA BytesSame ==
    ASSUME NEW m, NEW l, NEW from \in Nat, NEW len \in Nat,
           \A a \in from..(from + len - 1) : m[a] = l[a]
    PROVE  Bytes(m, from, len) = Bytes(l, from, len)
  <1>1. \A i \in 1..len : m[from + i - 1] = l[from + i - 1]
    <2>1. \A i \in 1..len : from + i - 1 \in from..(from + len - 1)
      OBVIOUS
    <2>2. QED
      BY <2>1
  <1>2. QED
    BY <1>1 DEF Bytes

\* The bytes from a base up to and with what is written behind them.
LEMMA BytesAppended ==
    ASSUME NEW m \in [Addr -> Cell], NEW l \in [Addr -> Cell],
           NEW base \in Nat, NEW u \in Nat, NEW h \in Seq(Cell), NEW b \in Seq(Cell),
           base + u + Len(h) + Len(b) <= BufLen,
           \A a \in base..(base + u - 1) : l[a] = m[a],
           \A i \in 1..Len(h) : l[base + u + i - 1] = h[i],
           \A i \in 1..Len(b) : l[base + u + Len(h) + i - 1] = b[i]
    PROVE  Bytes(l, base, u + Len(h) + Len(b)) = (Bytes(m, base, u) \o h) \o b
  <1> DEFINE x == Bytes(m, base, u)
             y == x \o h
             z == y \o b
             k == u + Len(h) + Len(b)
             w == Bytes(l, base, k)
  <1>1. Len(h) \in Nat /\ Len(b) \in Nat /\ BufLen \in Nat /\ k \in Nat
    BY LenProperties, LengthAssumption
  <1>2. x \in Seq(Cell) /\ Len(x) = u /\ \A i \in 1..u : x[i] = m[base + i - 1]
    <2>1. base + u <= BufLen
      BY <1>1
    <2>2. QED
      BY <2>1, BytesType
  <1>3. y \in Seq(Cell) /\ Len(y) = u + Len(h)
        /\ \A i \in 1..(u + Len(h)) : y[i] = IF i <= u THEN x[i] ELSE h[i - u]
    <2> HIDE DEF x
    <2>1. QED
      BY <1>2, ConcatProperties
  <1>4. z \in Seq(Cell) /\ Len(z) = k
        /\ \A i \in 1..k : z[i] = IF i <= u + Len(h) THEN y[i] ELSE b[i - (u + Len(h))]
    <2> HIDE DEF y
    <2>1. /\ y \o b \in Seq(Cell) /\ Len(y \o b) = Len(y) + Len(b)
          /\ \A i \in 1..Len(y) + Len(b) :
                (y \o b)[i] = IF i <= Len(y) THEN y[i] ELSE b[i - Len(y)]
      BY <1>3, ConcatProperties
    <2>2. Len(y) = u + Len(h)
      BY <1>3
    <2>3. QED
      BY <2>1, <2>2
  <1>5. w \in Seq(Cell) /\ Len(w) = k /\ \A i \in 1..k : w[i] = l[base + i - 1]
    BY <1>1, BytesType
  <1>6. ASSUME NEW i \in 1..k PROVE w[i] = z[i]
    <2>1. CASE i <= u
      <3>1. i \in 1..u /\ i \in 1..(u + Len(h)) /\ base + i - 1 \in base..(base + u - 1)
        BY <1>1, <2>1
      <3>2. z[i] = m[base + i - 1]
        BY <1>1, <1>2, <1>3, <1>4, <2>1, <3>1
      <3>3. QED
        BY <1>5, <3>1, <3>2
    <2>2. CASE ~(i <= u) /\ i <= u + Len(h)
      <3> DEFINE j == i - u
      <3>1. j \in 1..Len(h) /\ i \in 1..(u + Len(h)) /\ base + i - 1 = base + u + j - 1
        BY <1>1, <2>2
      <3>2. z[i] = h[j]
        BY <1>1, <1>3, <1>4, <2>2, <3>1
      <3>3. l[base + u + j - 1] = h[j]
        BY <3>1
      <3>4. QED
        BY <1>5, <3>1, <3>2, <3>3
    <2>3. CASE ~(i <= u + Len(h))
      <3> DEFINE j == i - (u + Len(h))
      <3>1. j \in 1..Len(b) /\ base + i - 1 = base + u + Len(h) + j - 1
        BY <1>1, <2>3
      <3>2. z[i] = b[j]
        BY <1>4, <2>3
      <3>3. l[base + u + Len(h) + j - 1] = b[j]
        BY <3>1
      <3>4. QED
        BY <1>5, <3>1, <3>2, <3>3
    <2>4. QED
      BY <1>1, <2>1, <2>2, <2>3
  <1>7. w = z
    <2> HIDE DEF w, z, k
    <2>1. QED
      BY <1>4, <1>5, <1>6, SeqEqual
  <1>8. QED
    BY <1>7

\* Header and body, written one behind the other.
Written(m, at, h, b) == Write(Write(m, at, h), at + Len(h), b)

LEMMA WrittenCells ==
    ASSUME NEW m \in [Addr -> Cell], NEW at \in Nat,
           NEW h \in Seq(Cell), NEW b \in Seq(Cell),
           at + Len(h) + Len(b) <= BufLen
    PROVE  /\ Written(m, at, h, b) \in [Addr -> Cell]
           /\ \A a \in Addr : a < at => Written(m, at, h, b)[a] = m[a]
           /\ \A i \in 1..Len(h) : Written(m, at, h, b)[at + i - 1] = h[i]
           /\ \A i \in 1..Len(b) : Written(m, at, h, b)[at + Len(h) + i - 1] = b[i]
  <1> DEFINE w == Write(m, at, h)
             to == at + Len(h)
             l == Write(w, to, b)
  <1>1. /\ Len(h) \in Nat /\ Len(b) \in Nat /\ BufLen \in Nat
        /\ to \in Nat /\ to <= BufLen /\ to + Len(b) <= BufLen /\ at + Len(h) <= BufLen
    BY LenProperties, LengthAssumption
  <1>2. /\ w \in [Addr -> Cell]
        /\ \A a \in Addr : a \notin at..(at + Len(h) - 1) => w[a] = m[a]
    BY WriteType
  <1>3. \A i \in 1..Len(h) : w[at + i - 1] = h[i]
    BY <1>1, WriteAt
  <1>4. Written(m, at, h, b) = l /\ to = at + Len(h)
    BY DEF Written
  <1> HIDE DEF w, to
  <1>5. /\ l \in [Addr -> Cell]
        /\ \A a \in Addr : a \notin to..(to + Len(b) - 1) => l[a] = w[a]
    BY <1>1, <1>2, WriteType
  <1>6. \A i \in 1..Len(b) : l[to + i - 1] = b[i]
    BY <1>1, <1>2, WriteAt
  <1> HIDE DEF l
  <1>7. \A a \in Addr : a < at => l[a] = m[a]
    <2> SUFFICES ASSUME NEW a \in Addr, a < at PROVE l[a] = m[a]
      OBVIOUS
    <2>1. a \in Nat /\ a \notin at..(at + Len(h) - 1) /\ a \notin to..(to + Len(b) - 1)
      BY <1>1, <1>4 DEF Addr
    <2>2. QED
      BY <1>2, <1>5, <2>1
  <1>8. \A i \in 1..Len(h) : l[at + i - 1] = h[i]
    <2> SUFFICES ASSUME NEW i \in 1..Len(h) PROVE l[at + i - 1] = h[i]
      OBVIOUS
    <2>1. at + i - 1 \in Addr /\ at + i - 1 \notin to..(to + Len(b) - 1)
      BY <1>1, <1>4 DEF Addr
    <2>2. QED
      BY <1>3, <1>5, <2>1
  <1>9. \A i \in 1..Len(b) : l[at + Len(h) + i - 1] = b[i]
    BY <1>4, <1>6
  <1>10. QED
    BY <1>4, <1>5, <1>7, <1>8, <1>9

\* They lengthen the bytes in front of them by both.
LEMMA WrittenBytes ==
    ASSUME NEW m \in [Addr -> Cell], NEW base \in Nat, NEW u \in Nat,
           NEW h \in Seq(Cell), NEW b \in Seq(Cell),
           base + u + Len(h) + Len(b) <= BufLen
    PROVE  Bytes(Written(m, base + u, h, b), base, u + Len(h) + Len(b))
             = (Bytes(m, base, u) \o h) \o b
  <1> DEFINE at == base + u
             l == Written(m, base + u, h, b)
  <1>1. /\ Len(h) \in Nat /\ Len(b) \in Nat /\ BufLen \in Nat /\ at \in Nat
    BY LenProperties, LengthAssumption
  <1>2. /\ l \in [Addr -> Cell]
        /\ \A a \in Addr : a < at => l[a] = m[a]
        /\ \A i \in 1..Len(h) : l[at + i - 1] = h[i]
        /\ \A i \in 1..Len(b) : l[at + Len(h) + i - 1] = b[i]
    BY <1>1, WrittenCells
  <1>3. \A a \in base..(base + u - 1) : l[a] = m[a]
    <2>1. \A a \in base..(base + u - 1) : a \in Addr /\ a < at
      BY <1>1 DEF Addr
    <2>2. QED
      BY <1>2, <2>1
  <1> HIDE DEF l
  <1>4. l \in [Addr -> Cell]
    BY <1>2
  <1>5. \A i \in 1..Len(h) : l[base + u + i - 1] = h[i]
    BY <1>2
  <1>6. \A i \in 1..Len(b) : l[base + u + Len(h) + i - 1] = b[i]
    BY <1>2
  <1>7. Bytes(l, base, u + Len(h) + Len(b)) = (Bytes(m, base, u) \o h) \o b
    BY <1>3, <1>4, <1>5, <1>6, BytesAppended, ZenonT(40)
  <1>8. QED
    BY <1>7 DEF l

-----------------------------------------------------------------------------
(* The strings the open frames stand for. *)

Str(i) == [field |-> stack[i].field,
           bytes |-> Bytes(mem, stack[i].buf.base, Used(stack[i].buf))]
Strings(d) == [i \in 1..d |-> Str(i)]

\* The same, of any memory and stack: of those after a step.
StringsOf(m, s, d) ==
    [i \in 1..d |-> [field |-> s[i].field,
                     bytes |-> Bytes(m, s[i].buf.base, Used(s[i].buf))]]

\* The bytes of a frame lie between its base and its position.
LEMMA FrameBytes ==
    ASSUME FramesInv, damage # "frames", NEW i \in 1..depth
    PROVE  /\ i \in 1..MaxDepth
           /\ stack[i].buf \in Buf
           /\ stack[i].buf.base \in Nat /\ stack[i].buf.pos \in Nat
           /\ Used(stack[i].buf) \in Nat /\ Used(stack[i].buf) \in 0..BufLen
           /\ stack[i].buf.base + Used(stack[i].buf) = stack[i].buf.pos
           /\ stack[i].buf.pos \in 0..BufLen
  <1>1. i \in 1..MaxDepth
    BY EncoderAssumption DEF FramesInv, TypeOK
  <1>2. stack[i].buf \in Buf /\ Used(stack[i].buf) \in 0..BufLen
    BY <1>1, FrameBuf DEF FramesInv, FramesNested
  <1>3. QED
    BY <1>1, <1>2, BufFacts

\* An outer frame ends where an inner one has not begun.
LEMMA FramesOrdered ==
    ASSUME FramesInv, damage # "frames", NEW d \in 1..depth
    PROVE  \A i \in 1..(d - 1) : stack[i].buf.pos <= stack[d].buf.base
  <1> SUFFICES ASSUME NEW i \in 1..(d - 1) PROVE stack[i].buf.pos <= stack[d].buf.base
    OBVIOUS
  <1> DEFINE Over == {j \in (i + 1)..d : ~(stack[i].buf.pos <= stack[j].buf.base)}
  <1>1. depth \in Nat /\ d \in Nat /\ i \in Nat /\ i \in 1..depth /\ Reserve \in Nat
    BY EncoderAssumption DEF FramesInv, TypeOK
  <1>2. SUFFICES ASSUME Over # {} PROVE FALSE
    BY <1>1
  <1>3. Over \subseteq Nat
    BY <1>1
  <1>4. PICK j \in Over : \A k \in Over : j <= k
    <2> HIDE DEF Over
    <2>1. QED
      BY <1>2, <1>3, LeastElement
  <1>5. /\ j \in 1..depth /\ j - 1 \in 1..depth /\ j - 1 \in i..d /\ j > 1
        /\ j - 1 \notin Over
    BY <1>1, <1>4
  <1>6. stack[j].buf.base = stack[j - 1].buf.pos + Reserve
    BY <1>5 DEF FramesInv, FramesNested
  <1>7. /\ stack[i].buf.pos \in Nat /\ stack[j].buf.base \in Nat
        /\ stack[j - 1].buf.pos \in Nat /\ stack[j - 1].buf.base \in Nat
        /\ stack[j - 1].buf.base <= stack[j - 1].buf.pos
    BY <1>1, <1>5, FrameBytes, BufFacts
  <1>8. stack[i].buf.pos <= stack[j - 1].buf.pos
    BY <1>1, <1>5, <1>7
  <1>9. QED
    BY <1>1, <1>4, <1>6, <1>7, <1>8

LEMMA SameFormat ==
    ASSUME NEW f \in Field, NEW n \in Nat, NEW raw \in BOOLEAN
    PROVE  /\ Builder!Header(f, n, raw) = Header(f, n, raw)
           /\ Builder!BodyLen(f, n, raw) = BodyLen(f, n, raw)
           /\ Builder!ValueBytes(f, n) = ValueBytes(f, n)
  BY DEF Builder!Header, Header, Builder!BodyLen, BodyLen, Builder!ValueBytes,
         ValueBytes, Builder!WireTypeAs, WireTypeAs, Builder!WireType, WireType,
         Builder!KeyBytes, KeyBytes, Builder!LenBytes, LenBytes

LEMMA StringsType ==
    ASSUME NEW d \in Nat
    PROVE  /\ Len(Strings(d)) = d /\ DOMAIN Strings(d) = 1..d
           /\ \A i \in 1..d : Strings(d)[i] = Str(i)
  <1>1. Strings(d) \in [1..d -> {Str(i) : i \in 1..d}]
    BY DEF Strings
  <1>2. Len(Strings(d)) = d
    BY <1>1, FunctionIsSeq
  <1>3. QED
    BY <1>2 DEF Strings

\* All but the innermost string.
LEMMA BelowStrings ==
    ASSUME NEW d \in Nat \ {0}
    PROVE  SubSeq(Strings(d), 1, d - 1) = Strings(d - 1)
  <1> DEFINE S == {Str(i) : i \in 1..d}
             s == Strings(d)
             t == Strings(d - 1)
  <1>1. /\ d - 1 \in Nat /\ \A i \in 1..(d - 1) : i \in 1..d
        /\ \A i \in 1..(d - 1) : s[i] = Str(i) /\ s[i] \in S
    <2>1. d - 1 \in Nat /\ \A i \in 1..(d - 1) : i \in 1..d
      OBVIOUS
    <2>2. \A i \in 1..d : s[i] = Str(i) /\ Str(i) \in S
      BY StringsType
    <2> HIDE DEF s, S
    <2>3. QED
      BY <2>1, <2>2
  <1>2. t \in Seq(S) /\ Len(t) = d - 1 /\ \A i \in 1..(d - 1) : t[i] = Str(i)
    <2>1. t \in [1..(d - 1) -> S]
      BY <1>1 DEF Strings
    <2>2. QED
      BY <1>1, <2>1, FunctionIsSeq DEF Strings
  <1>3. /\ SubSeq(s, 1, d - 1) \in Seq(S)
        /\ Len(SubSeq(s, 1, d - 1)) = d - 1
        /\ \A i \in 1..(d - 1) : SubSeq(s, 1, d - 1)[i] = s[i]
    <2> HIDE DEF s, S
    <2>1. /\ SubSeq(s, 1, d - 1) \in Seq(S)
          /\ Len(SubSeq(s, 1, d - 1)) = IF 1 <= d - 1 THEN d - 1 - 1 + 1 ELSE 0
          /\ \A i \in 1..(d - 1 - 1 + 1) : SubSeq(s, 1, d - 1)[i] = s[1 + i - 1]
      BY <1>1, SubSeqProperties
    <2>2. QED
      BY <2>1, <1>1
  <1> HIDE DEF s, t, S
  <1>4. SubSeq(s, 1, d - 1) = t
    BY <1>1, <1>2, <1>3, SeqEqual
  <1>5. QED
    BY <1>4 DEF s, t

LEMMA StringsRaw ==
    ASSUME NEW d \in Nat
    PROVE  Builder!Raw(Strings(d)) <=>
             \E i \in 1..d : stack[i].field \in Field /\ Packed[stack[i].field]
  <1>1. DOMAIN Strings(d) = 1..d /\ \A i \in 1..d : Strings(d)[i] = Str(i)
    BY StringsType
  <1>2. \A i \in 1..d : Strings(d)[i].field = stack[i].field
    BY <1>1 DEF Str
  <1>3. QED
    BY <1>1, <1>2 DEF Builder!Raw

LEMMA StringsTop ==
    ASSUME NEW d \in Nat \ {0}
    PROVE  /\ Len(Strings(d)) = d /\ Strings(d)[d] = Str(d)
           /\ Strings(d)[Len(Strings(d))].field = stack[d].field
  <1>1. Len(Strings(d)) = d /\ Strings(d)[d] = Str(d)
    BY StringsType
  <1>2. QED
    BY <1>1 DEF Str

\* A frame's message, told by the field it was opened for, and the mode of the
\* encoder, told by the fields of the frames.
LEMMA StringsMode ==
    ASSUME PackedInv, Intact
    PROVE  /\ Builder!Raw(Strings(depth)) = packed
           /\ Builder!Raw(Strings(depth - 1)) = FALSE
           /\ \A i \in 1..depth : ~(packed /\ i = depth) =>
                 /\ stack[i].msg # NoMsg
                 /\ Builder!MsgOf(stack[i].field) = stack[i].msg
  <1>1. depth \in Nat \ {0} /\ depth - 1 \in Nat /\ packed \in BOOLEAN
    BY EncoderAssumption DEF PackedInv, FramesInv, TypeOK, Intact
  <1>2. \A i \in 1..depth : stack[i].msg = NoMsg <=> packed /\ i = depth
    BY DEF PackedInv, PackedIsTop
  <1>3. \A i \in 1..depth : stack[i].field \in Field /\ Packed[stack[i].field]
                              <=> stack[i].msg = NoMsg
    <2>1. stack[1].field \notin Field /\ stack[1].msg # NoMsg
      BY <1>1, FieldAssumption DEF PackedInv, FramesPushed
    <2>2. \A i \in 2..depth : stack[i].field \in Field /\ Packed[stack[i].field]
                              <=> stack[i].msg = NoMsg
      BY FieldAssumption DEF PackedInv, FramesInv, PushedFields, FramesPushed
    <2>3. QED
      BY <1>1, <2>1, <2>2
  <1>4. \A d \in {depth, depth - 1} : Builder!Raw(Strings(d)) <=>
            \E i \in 1..d : stack[i].field \in Field /\ Packed[stack[i].field]
    BY <1>1, StringsRaw
  <1>5. Builder!Raw(Strings(depth)) <=> packed
    BY <1>1, <1>2, <1>3, <1>4
  <1>6. ~Builder!Raw(Strings(depth - 1))
    BY <1>1, <1>2, <1>3, <1>4
  <1>7. Builder!Raw(Strings(depth)) \in BOOLEAN /\ Builder!Raw(Strings(depth - 1)) \in BOOLEAN
    BY DEF Builder!Raw
  <1>8. \A i \in 1..depth : stack[i].msg # NoMsg => Builder!MsgOf(stack[i].field) = stack[i].msg
    <2>1. Builder!MsgOf(stack[1].field) = stack[1].msg
      BY <1>1 DEF PackedInv, FramesPushed, Builder!MsgOf
    <2>2. \A i \in 2..depth : stack[i].msg # NoMsg => Builder!MsgOf(stack[i].field) = stack[i].msg
      BY FieldAssumption DEF PackedInv, FramesInv, PushedFields, FramesPushed, Builder!MsgOf
    <2>3. QED
      BY <1>1, <2>1, <2>2
  <1>9. QED
    BY <1>1, <1>2, <1>5, <1>6, <1>7, <1>8

\* add_field accepts a field exactly when it belongs into the string.
LEMMA StringsFit ==
    ASSUME PackedInv, Intact, NEW f \in Field
    PROVE  /\ Builder!Fits(Strings(depth), f) <=> Belongs(depth, packed, f)
           /\ depth > 1 =>
                (Builder!Fits(Strings(depth - 1), f) <=> Belongs(depth - 1, FALSE, f))
  <1>1. depth \in Nat \ {0} /\ depth - 1 \in Nat /\ packed \in BOOLEAN
    BY EncoderAssumption DEF PackedInv, FramesInv, TypeOK, Intact
  <1>2. Strings(depth)[Len(Strings(depth))].field = stack[depth].field
    BY <1>1, StringsTop
  <1>3. Builder!Fits(Strings(depth), f) <=> Belongs(depth, packed, f)
    BY <1>1, <1>2, StringsMode DEF Builder!Fits, Belongs
  <1>4. ASSUME depth > 1
        PROVE  Builder!Fits(Strings(depth - 1), f) <=> Belongs(depth - 1, FALSE, f)
    <2>1. depth - 1 \in 1..depth /\ depth - 1 \in 1..(depth - 1) /\ depth - 1 # depth
      BY <1>1, <1>4
    <2>2. Strings(depth - 1)[Len(Strings(depth - 1))].field = stack[depth - 1].field
      <3>1. depth - 1 \in Nat \ {0}
        BY <1>1, <1>4
      <3>2. QED
        BY <3>1, StringsTop
    <2>3. QED
      BY <2>1, <2>2, StringsMode DEF Builder!Fits, Belongs
  <1>5. QED
    BY <1>3, <1>4

-----------------------------------------------------------------------------
(* What a field adds to the strings. *)

\* The value add_field is given: the caller's, or the bytes of frame src.
Value(f, n, raw, src) ==
    IF src = 0 THEN SubSeq(ValueBytes(f, n), 1, BodyLen(f, n, raw))
    ELSE Bytes(mem, stack[src].buf.base, n)

\* Of one frame.
LEMMA FrameWritten ==
    ASSUME FramesInv, damage # "frames", NEW d \in 1..depth,
           NEW h \in Seq(Cell), NEW b \in Seq(Cell),
           Len(h) + Len(b) \in 0..Left(stack[d].buf)
    PROVE  /\ \A a \in Addr : a < stack[d].buf.pos =>
                 Written(mem, stack[d].buf.pos, h, b)[a] = mem[a]
           /\ Bytes(Written(mem, stack[d].buf.pos, h, b), stack[d].buf.base,
                    Used(stack[d].buf) + Len(h) + Len(b))
                = (Bytes(mem, stack[d].buf.base, Used(stack[d].buf)) \o h) \o b
  <1> DEFINE base == stack[d].buf.base
             u    == Used(stack[d].buf)
             pos  == stack[d].buf.pos
             left == Left(stack[d].buf)
  <1>1. /\ base \in Nat /\ u \in Nat /\ pos = base + u /\ BufLen \in Nat
        /\ left \in Nat /\ pos \in Nat /\ pos + left <= BufLen
    BY FrameBytes, BufFacts
  <1>2. Len(h) \in Nat /\ Len(b) \in Nat /\ Len(h) + Len(b) <= left
    BY LenProperties
  <1>3. mem \in [Addr -> Cell]
    BY DEF FramesInv, TypeOK
  <1> HIDE DEF base, u, pos, left
  <1>4. pos + Len(h) + Len(b) <= BufLen /\ base + u + Len(h) + Len(b) <= BufLen
    BY <1>1, <1>2
  <1>5. \A a \in Addr : a < pos => Written(mem, pos, h, b)[a] = mem[a]
    BY <1>1, <1>3, <1>4, WrittenCells
  <1>6. Bytes(Written(mem, base + u, h, b), base, u + Len(h) + Len(b))
          = (Bytes(mem, base, u) \o h) \o b
    <2>1. base \in Nat /\ u \in Nat /\ base + u + Len(h) + Len(b) <= BufLen
      BY <1>1, <1>4
    <2>2. QED
      BY <1>3, <2>1, WrittenBytes
  <1>7. QED
    BY <1>1, <1>5, <1>6 DEF base, u, pos

\* A write at the end of the d-th string lengthens it and leaves those around
\* it alone: their bytes lie in front of it.
LEMMA StringsWritten ==
    ASSUME FramesInv, damage # "frames", NEW d \in 1..depth,
           NEW h \in Seq(Cell), NEW b \in Seq(Cell),
           stack' = [stack EXCEPT ![d].buf.pos = @ + (Len(h) + Len(b))],
           Len(h) + Len(b) \in 0..Left(stack[d].buf),
           mem' = Written(mem, stack[d].buf.pos, h, b)
    PROVE  StringsOf(mem', stack', d) = [Strings(d) EXCEPT ![d].bytes = (@ \o h) \o b]
  <1> DEFINE k == Len(h) + Len(b)
             new == [Strings(d) EXCEPT ![d].bytes = (@ \o h) \o b]
             got(i) == [field |-> stack'[i].field,
                        bytes |-> Bytes(mem', stack'[i].buf.base, Used(stack'[i].buf))]
  <1>1. /\ d \in 1..MaxDepth /\ stack[d].buf \in Buf /\ d \in Nat /\ depth \in Nat
        /\ Len(h) \in Nat /\ Len(b) \in Nat /\ k \in 0..Left(stack[d].buf)
    BY FrameBytes, LenProperties, EncoderAssumption DEF FramesInv, TypeOK
  <1>2. /\ stack'[d].buf.pos = stack[d].buf.pos + k
        /\ stack'[d].buf.base = stack[d].buf.base
        /\ stack'[d].field = stack[d].field
        /\ \A i \in 1..MaxDepth : i # d => stack'[i] = stack[i]
    BY <1>1, AdvanceType DEF FramesInv
  <1>a. /\ \A a \in Addr : a < stack[d].buf.pos => mem'[a] = mem[a]
        /\ Bytes(mem', stack[d].buf.base, Used(stack[d].buf) + Len(h) + Len(b))
             = (Bytes(mem, stack[d].buf.base, Used(stack[d].buf)) \o h) \o b
    BY <1>1, FrameWritten
  <1>3. got(d) = [Str(d) EXCEPT !.bytes = (@ \o h) \o b]
    <2>1. Used(stack'[d].buf) = Used(stack[d].buf) + Len(h) + Len(b)
      <3>1. /\ stack[d].buf.pos \in Nat /\ stack[d].buf.base \in Nat
            /\ stack'[d].buf.pos = stack[d].buf.pos + (Len(h) + Len(b))
        BY <1>1, <1>2, BufFacts
      <3>2. QED
        BY <1>1, <1>2, <3>1 DEF Used
    <2>2. Bytes(mem', stack'[d].buf.base, Used(stack'[d].buf))
            = (Bytes(mem, stack[d].buf.base, Used(stack[d].buf)) \o h) \o b
      BY <1>2, <1>a, <2>1
    <2> DEFINE x == Bytes(mem, stack[d].buf.base, Used(stack[d].buf))
               y == Bytes(mem', stack'[d].buf.base, Used(stack'[d].buf))
    <2>3. /\ got(d) = [field |-> stack[d].field, bytes |-> y]
          /\ Str(d) = [field |-> stack[d].field, bytes |-> x]
      BY <1>2 DEF Str
    <2>4. y = (x \o h) \o b
      BY <2>2
    <2> DEFINE F == stack[d].field
               z == (x \o h) \o b
    <2>5. Str(d).bytes = x /\ Str(d) = [field |-> F, bytes |-> x]
      BY <2>3
    <2>6. [Str(d) EXCEPT !.bytes = (@ \o h) \o b] = [Str(d) EXCEPT !.bytes = z]
      BY <2>5
    <2>7. got(d) = [field |-> F, bytes |-> z]
      BY <2>3, <2>4
    <2> HIDE DEF x, y, z, got, F
    <2>8. [Str(d) EXCEPT !.bytes = z] = [field |-> F, bytes |-> z]
      BY <2>5
    <2>9. QED
      BY <2>6, <2>7, <2>8
  <1>4. ASSUME NEW i \in 1..(d - 1) PROVE got(i) = Str(i)
    <2> DEFINE base == stack[i].buf.base
               u    == Used(stack[i].buf)
    <2>1. /\ i \in 1..depth /\ i \in 1..MaxDepth /\ i # d
          /\ base \in Nat /\ u \in Nat /\ base + u = stack[i].buf.pos
          /\ stack[i].buf.pos \in 0..BufLen /\ BufLen \in Nat
      <3>1. i \in 1..depth /\ i # d
        BY <1>1
      <3>2. QED
        BY <3>1, FrameBytes, LengthAssumption
    <2>2. base + u <= stack[d].buf.base /\ stack[d].buf.base <= stack[d].buf.pos
          /\ stack[d].buf.base \in Nat /\ stack[d].buf.pos \in Nat
      BY <1>1, <2>1, FramesOrdered, BufFacts
    <2>3. \A a \in base..(base + u - 1) : mem'[a] = mem[a]
      <3> SUFFICES ASSUME NEW a \in base..(base + u - 1) PROVE mem'[a] = mem[a]
        OBVIOUS
      <3> DEFINE lo == stack[d].buf.base
                 hi == stack[d].buf.pos
      <3>1. lo \in Nat /\ hi \in Nat /\ base + u <= lo /\ lo <= hi /\ base + u <= BufLen
            /\ base \in Nat /\ u \in Nat /\ BufLen \in Nat
        BY <2>1, <2>2
      <3> HIDE DEF base, u, lo, hi
      <3>2. a \in Addr /\ a < hi
        BY <3>1 DEF Addr
      <3>3. QED
        BY <1>a, <3>2 DEF hi
    <2>4. Bytes(mem', base, u) = Bytes(mem, base, u)
      BY <2>1, <2>3, BytesSame
    <2>5. stack'[i] = stack[i]
      BY <1>2, <2>1
    <2>6. QED
      BY <2>4, <2>5 DEF Str
  <1>5. new = [i \in 1..d |-> IF i = d THEN [Str(d) EXCEPT !.bytes = (@ \o h) \o b]
                              ELSE Str(i)]
    BY <1>1 DEF Strings
  <1>6. ASSUME NEW i \in 1..d
        PROVE  got(i) = IF i = d THEN [Str(d) EXCEPT !.bytes = (@ \o h) \o b] ELSE Str(i)
    <2>1. i = d \/ i \in 1..(d - 1)
      BY <1>1
    <2> HIDE DEF got
    <2>2. CASE i = d
      BY <1>3, <2>2
    <2>3. CASE i # d
      BY <1>4, <2>1, <2>3
    <2>4. QED
      BY <2>2, <2>3
  <1>7. StringsOf(mem', stack', d) = [i \in 1..d |-> got(i)]
    BY DEF StringsOf
  <1> HIDE DEF got, new
  <1>8. QED
    BY <1>5, <1>6, <1>7 DEF new

\* A field that fits lengthens the bytes of its frame by its header and its
\* value, and changes no byte in front of them; the bytes of a frame that is
\* popped lie behind the reserve, where the header does not reach.
LEMMA WrittenField ==
    ASSUME FramesInv, damage # "frames", NEW d \in 1..depth, NEW raw \in BOOLEAN,
           NEW f \in Field, NEW n \in 0..BufLen, NEW src \in {0, depth},
           src # 0 => /\ src = depth /\ d = depth - 1 /\ ~raw
                      /\ n = Used(stack[depth].buf)
                      /\ WireTypeAs(f, raw) = "STRING",
           WriteField(d, raw, f, n, src), ret' = "OK"
    PROVE  StringsOf(mem', stack', d)
             = [Strings(d) EXCEPT ![d].bytes =
                  (@ \o Header(f, n, raw)) \o Value(f, n, raw, src)]
  <1> DEFINE buf  == stack[d].buf
             h    == Header(f, n, raw)
             len  == BodyLen(f, n, raw)
             m    == Write(mem, buf.pos, h)
             b    == Value(f, n, raw, src)
             base == buf.base
             u    == Used(buf)
  <1>1. /\ h \in Seq(Cell) /\ Len(h) \in Nat /\ len \in 0..n /\ n \in Nat /\ len \in Nat
        /\ n <= BufLen
    BY HeaderType, LengthAssumption
  <1>2. /\ buf \in Buf /\ base \in Nat /\ u \in Nat /\ buf.pos \in Nat /\ BufLen \in Nat
        /\ buf.pos = base + u /\ Left(buf) \in Nat /\ buf.pos + Left(buf) <= BufLen
    BY FrameBytes, BufFacts
  <1>3. mem \in [Addr -> Cell]
    BY DEF FramesInv, TypeOK
  <1>4. /\ Len(h) + len <= Left(buf)
        /\ mem' = Write(m, buf.pos + Len(h),
                        IF src = 0 THEN SubSeq(ValueBytes(f, n), 1, len)
                        ELSE Bytes(m, stack[src].buf.base, len))
        /\ stack' = [stack EXCEPT ![d].buf.pos = @ + Len(h) +
                        Len(IF src = 0 THEN SubSeq(ValueBytes(f, n), 1, len)
                            ELSE Bytes(m, stack[src].buf.base, len))]
    <2>1. Len(h) + len <= Left(buf)
      BY DEF WriteField
    <2>2. Len(h) <= Left(buf)
      BY <1>1, <1>2, <2>1
    <2>3. QED
      BY <2>1, <2>2 DEF WriteField
  <1>5. /\ b \in Seq(Cell) /\ Len(b) = len
        /\ b = IF src = 0 THEN SubSeq(ValueBytes(f, n), 1, len)
               ELSE Bytes(m, stack[src].buf.base, len)
    <2>1. CASE src = 0
      <3>1. ValueBytes(f, n) \in Seq(Cell) /\ Len(ValueBytes(f, n)) = n
        BY PieceType, FieldFacts
      <3>2. b = SubSeq(ValueBytes(f, n), 1, len)
        BY <2>1 DEF Value
      <3>3. QED
        BY <1>1, <2>1, <3>1, <3>2, PrefixType
    <2>2. CASE src # 0
      <3> DEFINE from == stack[depth].buf.base
      <3>1. /\ src = depth /\ d = depth - 1 /\ n = Used(stack[depth].buf) /\ ~raw
            /\ WireTypeAs(f, raw) = "STRING" /\ len = n
            /\ b = Bytes(mem, from, n)
        BY <2>2 DEF Value, BodyLen
      <3>2. depth \in 1..depth /\ depth > 1 /\ depth \in Nat
        BY <3>1, EncoderAssumption DEF FramesInv, TypeOK
      <3>3. /\ from \in Nat /\ from + n <= BufLen /\ from = buf.pos + Reserve
        BY <1>2, <3>1, <3>2, FrameBytes DEF FramesInv, FramesNested
      <3>4. Len(h) <= Reserve /\ Reserve \in Nat
        <4>1. KeyLen[f] + VarintLen[n] <= Reserve /\ Reserve \in Nat
          BY FieldFacts
        <4>2. Len(h) = KeyLen[f] + VarintLen[n]
          BY <3>1, HeaderType
        <4>3. QED
          BY <4>1, <4>2
      <3>5. \A a \in from..(from + n - 1) : m[a] = mem[a]
        <4> DEFINE pos == buf.pos
        <4>1. /\ pos \in Nat /\ h \in Seq(Cell) /\ from = pos + Reserve /\ Len(h) \in Nat
              /\ Len(h) <= Reserve /\ Reserve \in Nat
              /\ n \in Nat /\ from + n <= BufLen /\ BufLen \in Nat
          BY <1>1, <1>2, <3>3, <3>4
        <4>2. \A a \in Addr : a \notin pos..(pos + Len(h) - 1) => m[a] = mem[a]
          <5> HIDE DEF h, pos
          <5>1. \A a \in Addr : a \notin pos..(pos + Len(h) - 1)
                                 => Write(mem, pos, h)[a] = mem[a]
            BY <1>3, <4>1, WriteType
          <5>2. QED
            BY <5>1 DEF pos
        <4> SUFFICES ASSUME NEW a \in from..(from + n - 1) PROVE m[a] = mem[a]
          OBVIOUS
        <4> HIDE DEF from, h, m, pos, len, b
        <4>3. a \in Addr /\ a \notin pos..(pos + Len(h) - 1)
          BY <4>1 DEF Addr
        <4>4. QED
          BY <4>2, <4>3
      <3>6. Bytes(m, from, n) = b
        <4>1. n \in Nat /\ from \in Nat
          BY <1>1, <3>3
        <4> HIDE DEF m, from, b
        <4>2. QED
          BY <3>1, <3>5, <4>1, BytesSame, ZenonT(40)
      <3>7. b \in Seq(Cell) /\ Len(b) = n
        BY <1>1, <1>3, <3>1, <3>3, BytesType
      <3>8. QED
        BY <2>2, <3>1, <3>6, <3>7
    <2>3. QED
      BY <2>1, <2>2
  <1>6. mem' = Written(mem, buf.pos, h, b)
    BY <1>4, <1>5 DEF Written
  <1>7. stack' = [stack EXCEPT ![d].buf.pos = @ + Len(h) + Len(b)]
    BY <1>4, <1>5
  <1> HIDE DEF b, h, len, m
  <1>8. base + u + Len(h) + Len(b) <= BufLen /\ Len(h) + Len(b) \in 0..Left(buf)
    BY <1>1, <1>2, <1>4, <1>5
  <1>10. buf.pos + Len(h) + Len(b) = buf.pos + (Len(h) + Len(b))
    BY <1>1, <1>2, <1>5
  <1>11. stack' = [stack EXCEPT ![d].buf.pos = @ + (Len(h) + Len(b))]
    BY <1>7, <1>10
  <1>13. StringsOf(mem', stack', d) = [Strings(d) EXCEPT ![d].bytes = (@ \o h) \o b]
    BY <1>1, <1>5, <1>6, <1>8, <1>11, StringsWritten
  <1>14. QED
    BY <1>13 DEF b, h

-----------------------------------------------------------------------------
(* Every step of the encoder is a step of the builder, or none. *)

\* What the mapping makes of the states of a step that leaves no error.
LEMMA MappedStates ==
    ASSUME PackedInv, Intact, Intact'
    PROVE  /\ OpenStrings = Strings(depth)
           /\ OpenStrings' = StringsOf(mem', stack', depth')
           /\ damage = "none" /\ damage' = "none" /\ damage # "frames"
           /\ status = "running" /\ status' = "running"
           /\ FramesInv
           /\ depth \in 1..MaxDepth /\ depth \in Nat /\ depth \in 1..depth /\ depth - 1 \in Nat
           /\ packed \in BOOLEAN
  BY EncoderAssumption
     DEF PackedInv, FramesInv, TypeOK, Intact, OpenStrings, Strings, Str, StringsOf

\* add_field of a value of the caller's.
LEMMA AddMaps ==
    ASSUME PackedInv, Intact, Intact', NEW f \in Field, NEW n \in ValueLens[f],
           AddField(f, n)
    PROVE  Builder!AddValue(f, n) \/ UNCHANGED <<OpenStrings, Intact>>
  <1> DEFINE h == Header(f, n, packed)
             b == Value(f, n, packed, 0)
  <1>1. /\ n \in 0..BufLen /\ n \in Nat /\ depth' = depth
        /\ AddFieldTo(depth, packed, f, n, 0)
    BY LengthAssumption DEF AddField, Abort, Intact
  <1>2. CASE UNCHANGED <<mem, stack>>
    <2>1. UNCHANGED <<OpenStrings, Intact>>
      BY <1>1, <1>2, MappedStates DEF Strings, StringsOf, Str
    <2>2. QED
      BY <2>1
  <1>3. CASE Belongs(depth, packed, f) /\ WriteField(depth, packed, f, n, 0)
    <2>1. ret' = "OK"
      BY <1>3, MappedStates DEF WriteField, Spoil
    <2>2. StringsOf(mem', stack', depth)
            = [Strings(depth) EXCEPT ![depth].bytes = (@ \o h) \o b]
      <3>1. /\ FramesInv /\ damage # "frames" /\ depth \in 1..depth /\ packed \in BOOLEAN
            /\ 0 \in {0, depth}
        BY MappedStates
      <3>2. QED
        BY <1>1, <1>3, <2>1, <3>1, WrittenField, SMTT(30)
    <2>3. Builder!Fits(Strings(depth), f)
      BY <1>3, StringsFit
    <2>4. /\ Builder!Header(f, n, packed) = h
          /\ SubSeq(Builder!ValueBytes(f, n), 1, Builder!BodyLen(f, n, packed)) = b
      BY <1>1, MappedStates, SameFormat DEF Value
    <2>5. Len(Strings(depth)) = depth /\ Builder!Raw(Strings(depth)) = packed
      BY MappedStates, StringsType, StringsMode
    <2> HIDE DEF h, b
    <2>6. QED
      BY <1>1, <2>2, <2>3, <2>4, <2>5, MappedStates DEF Builder!AddValue, Builder!Top
  <1>4. QED
    BY <1>1, <1>2, <1>3 DEF AddFieldTo, Abort, Undefined, Intact

\* nested_start and packed_repeated_start.
LEMMA OpenMaps ==
    ASSUME PackedInv, Intact, Intact', NEW f \in Field, NEW m \in Msg \cup {NoMsg},
           NEW pack \in BOOLEAN, Typ[f] = "message" \/ Packed[f],
           PushFrame(f, m, pack)
    PROVE  Builder!Open(f)
  <1> DEFINE parent == stack[depth].buf
             half == [stack EXCEPT ![depth + 1].field = f, ![depth + 1].msg = m]
             last == [field |-> f, bytes |-> << >>]
             s == Strings(depth)
             t == StringsOf(mem', stack', depth + 1)
             S == {Str(i) : i \in 1..depth} \cup {last}
  <1>1. /\ depth \in 1..(MaxDepth - 1) /\ depth' = depth + 1 /\ mem' = mem
        /\ stack' = [half EXCEPT ![depth + 1].buf = ChildBuf(parent)]
        /\ ~packed
    BY MappedStates DEF PushFrame, Undefined, Abort, Spoil, Intact
  <1>2. /\ depth + 1 \in 1..MaxDepth /\ depth \in Nat /\ stack \in [1..MaxDepth -> Frame]
        /\ \A i \in 1..depth : i \in 1..MaxDepth /\ i # depth + 1
    BY <1>1, EncoderAssumption DEF PackedInv, FramesInv, TypeOK
  <1>3. /\ \A i \in 1..depth : stack'[i] = stack[i]
        /\ stack'[depth + 1].field = f
        /\ stack'[depth + 1].buf = ChildBuf(parent)
    BY <1>1, <1>2 DEF Frame
  <1>4. Used(ChildBuf(parent)) = 0 /\ ChildBuf(parent).base \in Nat
    <2>1. parent.pos \in Nat /\ Reserve \in Nat
      BY MappedStates, FrameBytes, EncoderAssumption
    <2>2. QED
      BY <2>1 DEF ChildBuf, NewBuf, Used
  <1>5. \A from : Bytes(mem, from, 0) = << >>
    BY NoBytes
  <1>6. /\ t \in [1..(depth + 1) -> S]
        /\ \A i \in 1..depth : t[i] = s[i]
        /\ t[depth + 1] = last
    <2>1. \A i \in 1..(depth + 1) : i \in 1..depth \/ i = depth + 1
      BY <1>2
    <2>2. \A i \in 1..depth : t[i] = Str(i) /\ s[i] = Str(i)
      BY <1>1, <1>2, <1>3, StringsType DEF StringsOf, Str
    <2>3. t[depth + 1] = last
      BY <1>1, <1>2, <1>3, <1>4, <1>5 DEF StringsOf
    <2>4. t = [i \in 1..(depth + 1) |-> t[i]]
      BY DEF StringsOf
    <2> HIDE DEF t
    <2>5. \A i \in 1..(depth + 1) : t[i] \in S
      BY <2>1, <2>2, <2>3
    <2> HIDE DEF S, last, s
    <2>6. QED
      BY <2>2, <2>3, <2>4, <2>5
  <1>7. t \in Seq(S) /\ Len(t) = depth + 1
    <2> HIDE DEF t, S
    <2>1. depth + 1 \in Nat
      BY <1>2
    <2>2. QED
      BY <2>1, <1>6, FunctionIsSeq
  <1>8. s \in Seq(S) /\ Len(s) = depth /\ last \in S
    <2>1. \A i \in 1..depth : s[i] = Str(i)
      BY <1>2, StringsType
    <2>2. \A i \in 1..depth : s[i] \in S
      BY <2>1
    <2>3. s = [i \in 1..depth |-> s[i]]
      BY DEF Strings
    <2> HIDE DEF s, S
    <2>4. s \in [1..depth -> S]
      BY <2>2, <2>3
    <2>5. QED
      BY <1>2, <2>4, FunctionIsSeq DEF S
  <1>9. t = Append(s, last)
    <2> HIDE DEF t, s, S, last
    <2>1. /\ Append(s, last) \in Seq(S) /\ Len(Append(s, last)) = depth + 1
          /\ \A i \in 1..depth : Append(s, last)[i] = s[i]
          /\ Append(s, last)[depth + 1] = last
      BY <1>8, AppendProperties
    <2>2. \A i \in 1..(depth + 1) : t[i] = Append(s, last)[i]
      <3>1. \A i \in 1..(depth + 1) : i \in 1..depth \/ i = depth + 1
        BY <1>2
      <3>2. QED
        BY <1>6, <2>1, <3>1
    <2>3. QED
      BY <1>7, <2>1, <2>2, SeqEqual
  <1>10. Builder!Raw(s) = FALSE
    BY <1>1, MappedStates, StringsMode
  <1> HIDE DEF t, s
  <1>11. QED
    BY <1>1, <1>9, <1>10, MappedStates DEF Builder!Open, s, t

\* nested_end and packed_repeated_end.
LEMMA CloseMaps ==
    ASSUME PackedInv, Intact, Intact', NEW raw \in BOOLEAN, PopInto(raw), raw => packed
    PROVE  Builder!Close \/ Builder!Discard
  <1> DEFINE d == depth - 1
             f == stack[depth].field
             n == Used(stack[depth].buf)
             h == Header(f, n, FALSE)
             b == Value(f, n, FALSE, depth)
  <1>1. /\ depth \in 2..depth /\ depth > 1 /\ d \in 1..depth /\ d \in Nat /\ d \in 1..MaxDepth
        /\ depth' = d /\ AddFieldTo(d, raw, f, n, depth)
    <2>1. depth \in 1..MaxDepth /\ MaxDepth \in Nat /\ depth > 1
      BY MappedStates, EncoderAssumption DEF PopInto
    <2>2. QED
      BY <2>1 DEF PopInto
  <1>2. /\ f \in Field /\ n \in 0..BufLen /\ n \in Nat
        /\ Typ[f] = "message" \/ Packed[f]
    BY <1>1, MappedStates, FrameBytes DEF FramesInv, PushedFields
  <1>3. ~raw
    BY MappedStates, PopOutsideRun
  <1>4. WireTypeAs(f, FALSE) = "STRING" /\ BodyLen(f, n, FALSE) = n
    BY <1>2, FieldAssumption DEF WireTypeAs, WireType, BodyLen
  <1>5. /\ Len(Strings(depth)) = depth /\ Strings(depth)[depth] = Str(depth)
        /\ SubSeq(Strings(depth), 1, depth - 1) = Strings(d)
    <2>1. depth \in Nat \ {0}
      BY MappedStates
    <2>2. QED
      BY <2>1, StringsTop, BelowStrings
  <1>6. /\ b = Bytes(mem, stack[depth].buf.base, n)
        /\ Str(depth).field = f /\ Str(depth).bytes = b
    <2>1. depth # 0
      BY MappedStates
    <2>2. b = Bytes(mem, stack[depth].buf.base, n)
      BY <2>1 DEF Value
    <2> HIDE DEF b
    <2>3. QED
      BY <2>2 DEF Str
  <1>7. CASE UNCHANGED <<mem, stack>> /\ ~Belongs(d, FALSE, f)
    <2>1. OpenStrings' = Strings(d)
      BY <1>1, <1>7, MappedStates DEF Strings, StringsOf, Str
    <2>2. ~Builder!Fits(Strings(d), f)
      BY <1>1, <1>2, <1>7, StringsFit
    <2>3. Builder!Discard
      BY <1>1, <1>5, <1>6, <2>1, <2>2, MappedStates
         DEF Builder!Discard, Builder!Top, Builder!Below
    <2>4. QED
      BY <2>3
  <1>8. CASE Belongs(d, FALSE, f) /\ WriteField(d, FALSE, f, n, depth)
    <2>1. ret' = "OK"
      BY <1>8, MappedStates DEF WriteField, Spoil
    <2>2. StringsOf(mem', stack', d) = [Strings(d) EXCEPT ![d].bytes = (@ \o h) \o b]
      <3>1. depth \in {0, depth} /\ FALSE \in BOOLEAN /\ n = Used(stack[depth].buf)
            /\ d = depth - 1 /\ FramesInv /\ damage # "frames"
        BY MappedStates
      <3> HIDE DEF f, n, d
      <3>2. QED
        BY <1>1, <1>2, <1>4, <1>8, <2>1, <3>1, WrittenField, ZenonT(40)
    <2>3. Builder!Fits(Strings(d), f)
      BY <1>1, <1>2, <1>8, StringsFit
    <2>4. Len(b) = n
      <3>1. mem \in [Addr -> Cell] /\ stack[depth].buf.base \in Nat
            /\ stack[depth].buf.base + n <= BufLen
        <4>1. /\ stack[depth].buf.base \in Nat
              /\ stack[depth].buf.base + n = stack[depth].buf.pos
              /\ stack[depth].buf.pos \in 0..BufLen /\ BufLen \in Nat
          BY MappedStates, FrameBytes, LengthAssumption
        <4>2. mem \in [Addr -> Cell]
          BY MappedStates DEF FramesInv, TypeOK
        <4> HIDE DEF n
        <4>3. QED
          BY <4>1, <4>2
      <3> HIDE DEF b, n
      <3>2. QED
        BY <1>2, <1>6, <3>1, BytesType
    <2>5. Builder!Header(f, n, FALSE) = h
      BY <1>2, SameFormat
    <2> HIDE DEF h, b, f, n
    <2>6. Builder!Close
      BY <1>1, <1>5, <1>6, <2>2, <2>3, <2>4, <2>5, MappedStates
         DEF Builder!Close, Builder!Top, Builder!Below
    <2>7. QED
      BY <2>6
  <1>9. QED
    BY <1>1, <1>3, <1>7, <1>8 DEF AddFieldTo, Abort, Undefined, Intact

\* lwpb_encoder_start begins a message, whatever became of the one before.
LEMMA StartMaps ==
    ASSUME PackedInv, status = "running", NEW len \in 0..BufLen, Start(len)
    PROVE  Builder!Begin
  <1> DEFINE t == StringsOf(mem', stack', 1)
             r == [field |-> NoField, bytes |-> << >>]
  <1>1. 1 \in 1..MaxDepth /\ stack \in [1..MaxDepth -> Frame]
    BY EncoderAssumption DEF PackedInv, FramesInv, TypeOK
  <1>2. /\ stack'[1].buf = NewBuf(0, len) /\ stack'[1].field = NoField
        /\ depth' = 1 /\ status' = "running" /\ damage' = "none"
    BY <1>1 DEF Start
  <1>3. Used(stack'[1].buf) = 0
    BY <1>2 DEF Used, NewBuf
  <1>4. t = [i \in 1..1 |-> r]
    <2>1. [field |-> stack'[1].field,
           bytes |-> Bytes(mem', stack'[1].buf.base, Used(stack'[1].buf))] = r
      BY <1>2, <1>3, NoBytes
    <2> HIDE DEF r
    <2>2. QED
      BY <2>1 DEF StringsOf
  <1>5. t = << r >>
    <2> HIDE DEF r
    <2>1. QED
      BY <1>4
  <1>6. Intact' /\ OpenStrings' = t
    BY <1>2 DEF Intact, OpenStrings, StringsOf
  <1>7. QED
    BY <1>5, <1>6 DEF Builder!Begin

\* A call that is no start leaves the error of an earlier call behind.
LEMMA CallKeepsError ==
    ASSUME PackedInv, Next, ~ \E len \in 0..BufLen : Start(len), Intact'
    PROVE  Intact
  <1>1. depth \in Nat /\ packed \in BOOLEAN /\ MaxDepth \in Nat
    BY EncoderAssumption DEF PackedInv, FramesInv, TypeOK
  <1>2. ASSUME NEW f \in Field, NEW m, NEW pack, PushFrame(f, m, pack)
        PROVE  depth > 0 /\ damage = "none"
    BY <1>1, <1>2 DEF PushFrame, Undefined, Abort, Spoil, Intact
  <1>3. ASSUME NEW d, NEW raw, NEW f, NEW n, NEW src, AddFieldTo(d, raw, f, n, src)
        PROVE  damage = "none"
    BY <1>3 DEF AddFieldTo, WriteField, Undefined, Abort, Spoil, Intact
  <1>4. ASSUME NEW f \in Field, NestedStart(f) \/ PackedRepeatedStart(f)
        PROVE  depth > 0 /\ damage = "none"
    BY <1>2, <1>4 DEF NestedStart, PackedRepeatedStart, Abort, Intact
  <1>5. ASSUME NEW f \in Field, NEW n \in ValueLens[f], AddField(f, n)
        PROVE  depth > 0 /\ damage = "none"
    BY <1>3, <1>5 DEF AddField, Abort, Intact
  <1>6. ASSUME NEW f \in Field, AddScalarOutsideRun(f) PROVE FALSE
    BY <1>6 DEF AddScalarOutsideRun, Undefined, Intact
  <1>7. ASSUME NEW raw, PopInto(raw) PROVE depth > 0 /\ damage = "none"
    BY <1>1, <1>3, <1>7 DEF PopInto
  <1>8. ASSUME NestedEnd \/ PackedRepeatedEnd PROVE depth > 0 /\ damage = "none"
    BY <1>7, <1>8 DEF NestedEnd, PackedRepeatedEnd, Abort, Intact
  <1>9. QED
    BY <1>4, <1>5, <1>6, <1>8 DEF Next, Intact

LEMMA StepMaps == PackedInv /\ [Next]_vars => [Builder!BNext]_<<OpenStrings, Intact>>
  <1> SUFFICES ASSUME PackedInv, [Next]_vars
               PROVE  Builder!BNext \/ UNCHANGED <<OpenStrings, Intact>>
    OBVIOUS
  <1>1. CASE UNCHANGED vars
    BY <1>1 DEF vars, OpenStrings, Intact
  <1>2. CASE ~Intact'
    <2>1. OpenStrings' = << >> /\ Intact' = FALSE
      BY <1>2 DEF OpenStrings, Intact
    <2>2. QED
      BY <2>1 DEF Builder!BNext, Builder!Fail
  <1>3. ASSUME NEW len \in 0..BufLen, Start(len), status = "running"
        PROVE  Builder!BNext
    BY <1>3, StartMaps DEF Builder!BNext
  <1>4. ASSUME Intact', Next, ~ \E len \in 0..BufLen : Start(len)
        PROVE  Builder!BNext \/ UNCHANGED <<OpenStrings, Intact>>
    <2>1. Intact
      BY <1>4, CallKeepsError
    <2>2. ASSUME NEW f \in Field, NestedStart(f)
          PROVE  Builder!Open(f)
      BY <1>4, <2>1, <2>2, OpenMaps, FieldAssumption DEF NestedStart
    <2>3. ASSUME NEW f \in Field, PackedRepeatedStart(f)
          PROVE  Builder!Open(f)
      BY <1>4, <2>1, <2>3, OpenMaps DEF PackedRepeatedStart, Abort, Intact
    <2>4. ASSUME NEW f \in Field, NEW n \in ValueLens[f], AddField(f, n)
          PROVE  Builder!AddValue(f, n) \/ UNCHANGED <<OpenStrings, Intact>>
      BY <1>4, <2>1, <2>4, AddMaps
    <2>5. ASSUME NEW f \in Field, AddScalarOutsideRun(f)
          PROVE  FALSE
      BY <1>4, <2>5 DEF AddScalarOutsideRun, Undefined, Intact
    <2>6. ASSUME NestedEnd \/ PackedRepeatedEnd
          PROVE  Builder!Close \/ Builder!Discard
      <3>1. packed \in BOOLEAN
        BY DEF PackedInv, FramesInv, TypeOK
      <3>2. PICK raw \in BOOLEAN : PopInto(raw) /\ (raw => packed)
        BY <1>4, <2>6, <3>1 DEF NestedEnd, PackedRepeatedEnd, Abort, Intact
      <3>3. QED
        BY <1>4, <2>1, <3>2, CloseMaps
    <2>7. QED
      BY <1>4, <2>2, <2>3, <2>4, <2>5, <2>6 DEF Next, Builder!BNext
  <1>5. QED
    BY <1>1, <1>2, <1>3, <1>4 DEF Next

\* The encoder, with its one buffer, reserved bytes and moves, builds what a
\* stack of separate strings would: for every sequence of calls, up to the
\* first error the caller ignores.
THEOREM EncoderImplementsBuilder == Spec => ImplementsBuilder
  <1>1. Init => Builder!BInit
    BY DEF Init, Builder!BInit, OpenStrings, Intact
  <1>2. PackedInv /\ [Next]_vars => [Builder!BNext]_(Builder!bvars)
    BY StepMaps DEF Builder!bvars
  <1>3. QED
    BY <1>1, <1>2, PackedInvInit, PackedInvNext, PTL
       DEF Spec, ImplementsBuilder, Builder!BSpec
=============================================================================
