------------------------- MODULE LwpbEncoder_proofs -------------------------
(* Proofs about the encoder, for every schema, buffer and depth. *)
EXTENDS LwpbEncoder, Foundations, SequenceTheorems, TLAPS

-----------------------------------------------------------------------------
(* The bytes of a field. *)

\* A function on 1..n is a sequence of length n.
LEMMA FunctionIsSeq ==
    ASSUME NEW S, NEW n \in Nat, NEW g \in [1..n -> S]
    PROVE  g \in Seq(S) /\ Len(g) = n
  <1>1. g \in Seq(S)
    BY SeqDef
  <1>2. DOMAIN g = 1..Len(g) /\ Len(g) \in Nat
    BY <1>1, LenProperties
  <1>3. 1..n = 1..Len(g)
    BY <1>2
  <1>4. QED
    BY <1>1, <1>2, <1>3

\* A varint takes a byte or more.
LEMMA VarintType ==
    ASSUME NEW n \in Nat
    PROVE  VarintLen[n] \in Nat \ {0}
  <1>1. PICK c : c = Cardinality({k \in VarintSteps : k <= n})
    OBVIOUS
  <1>2. c \in Nat
    BY <1>1, LengthAssumption, CountUpTo
  <1>3. VarintLen[n] = 1 + c
    BY <1>1 DEF VarintLen
  <1>4. QED
    BY <1>2, <1>3

\* What the constants promise of one field and one length.
LEMMA FieldFacts ==
    ASSUME NEW f \in Field, NEW n \in 0..BufLen
    PROVE  /\ KeyLen[f] \in Nat \ {0} /\ VarintLen[n] \in Nat \ {0}
           /\ KeyLen[f] + VarintLen[n] <= Reserve
           /\ KeyLen[f] <= Reserve /\ VarintLen[n] <= Reserve
           /\ BufLen \in Nat /\ Reserve \in Nat
           /\ WireType(f) \in WireTypes
  <1>1. KeyLen[f] \in Nat \ {0} /\ VarintLen[n] \in Nat \ {0}
    BY LengthAssumption, VarintType
  <1>2. KeyLen[f] + VarintLen[n] <= Reserve /\ Reserve \in Nat
    BY EncoderAssumption
  <1>3. WireType(f) \in WireTypes
    BY DEF WireType, WireTypes
  <1>4. QED
    BY <1>1, <1>2, <1>3, LengthAssumption

\* Keys, lengths and values are byte strings of the lengths they announce.
LEMMA PieceType ==
    ASSUME NEW f \in Field, NEW n \in 0..BufLen, NEW wt \in WireTypes
    PROVE  /\ KeyBytes(f, wt) \in Seq(Cell) /\ Len(KeyBytes(f, wt)) = KeyLen[f]
           /\ LenBytes(n) \in Seq(Cell) /\ Len(LenBytes(n)) = VarintLen[n]
           /\ ValueBytes(f, n) \in Seq(Cell) /\ Len(ValueBytes(f, n)) = n
  <1>1. \A i \in 1..KeyLen[f] : <<"key", f, wt, i>> \in Cell
    BY FieldFacts DEF Cell
  <1>2. \A i \in 1..VarintLen[n] : <<"len", n, i>> \in Cell
    BY FieldFacts DEF Cell
  <1>3. \A i \in 1..n : <<"val", f, n, i>> \in Cell
    BY FieldFacts DEF Cell
  <1>4. KeyBytes(f, wt) \in [1..KeyLen[f] -> Cell]
    BY <1>1 DEF KeyBytes
  <1>5. LenBytes(n) \in [1..VarintLen[n] -> Cell]
    BY <1>2 DEF LenBytes
  <1>6. ValueBytes(f, n) \in [1..n -> Cell]
    BY <1>3 DEF ValueBytes
  <1>7. n \in Nat /\ KeyLen[f] \in Nat /\ VarintLen[n] \in Nat
    BY FieldFacts
  <1>8. QED
    BY <1>4, <1>5, <1>6, <1>7, FunctionIsSeq

\* The header is a byte string; its length is what the room check counts.
LEMMA HeaderType ==
    ASSUME NEW f \in Field, NEW n \in 0..BufLen, NEW raw \in BOOLEAN
    PROVE  /\ Header(f, n, raw) \in Seq(Cell)
           /\ Len(Header(f, n, raw)) \in Nat
           /\ WireTypeAs(f, raw) = "STRING"
                => Len(Header(f, n, raw)) =
                     (IF raw THEN 0 ELSE KeyLen[f]) + VarintLen[n]
           /\ WireTypeAs(f, raw) = "VARINT"
                => Len(Header(f, n, raw)) = (IF raw THEN 0 ELSE KeyLen[f]) + n
           /\ WireTypeAs(f, raw) = "BITS"
                => Len(Header(f, n, raw)) = (IF raw THEN 0 ELSE KeyLen[f])
           /\ BodyLen(f, n, raw) \in 0..n
  <1> DEFINE wt == WireTypeAs(f, raw)
             k  == IF raw THEN << >> ELSE KeyBytes(f, wt)
             t  == CASE wt = "VARINT" -> ValueBytes(f, n)
                     [] wt = "STRING" -> LenBytes(n)
                     [] OTHER         -> << >>
  <1>1. wt \in WireTypes
    BY FieldFacts DEF WireTypeAs, WireTypes
  <1>2. k \in Seq(Cell) /\ Len(k) = IF raw THEN 0 ELSE KeyLen[f]
    BY <1>1, PieceType
  <1>3. /\ t \in Seq(Cell)
        /\ wt = "STRING" => Len(t) = VarintLen[n]
        /\ wt = "VARINT" => Len(t) = n
        /\ wt = "BITS" => Len(t) = 0
    BY <1>1, PieceType, EmptySeq
  <1>4. Header(f, n, raw) = k \o t
    BY DEF Header
  <1>5. /\ k \o t \in Seq(Cell)
        /\ Len(k \o t) = Len(k) + Len(t)
        /\ Len(k \o t) \in Nat
    <2> HIDE DEF k, t
    <2> QED BY <1>2, <1>3
  <1>6. BodyLen(f, n, raw) \in 0..n
    BY FieldFacts DEF BodyLen
  <1>7. (IF raw THEN 0 ELSE KeyLen[f]) \in Nat
    BY FieldFacts
  <1> HIDE DEF k, t
  <1>8. QED
    BY <1>2, <1>3, <1>4, <1>5, <1>6, <1>7

-----------------------------------------------------------------------------
(* Writing into the buffer. *)

\* A buffer lies within the caller's memory, its position within the buffer.
LEMMA BufFacts ==
    ASSUME NEW b \in Buf
    PROVE  /\ BufLen \in Nat
           /\ b.base \in 0..BufLen /\ b.pos \in 0..BufLen /\ b.end \in 0..BufLen
           /\ b.base \in Nat /\ b.pos \in Nat /\ b.end \in Nat
           /\ b.base <= b.pos /\ b.pos <= b.end /\ b.end <= BufLen
           /\ Left(b) \in Nat /\ b.pos + Left(b) = b.end
           /\ Used(b) \in Nat /\ b.base + Used(b) = b.pos
  <1>1. /\ BufLen \in Nat
        /\ b.base \in 0..BufLen /\ b.pos \in 0..BufLen /\ b.end \in 0..BufLen
        /\ b.base <= b.pos /\ b.pos <= b.end
    BY LengthAssumption DEF Buf
  <1> DEFINE base == b.base
             pos  == b.pos
             end  == b.end
  <1>2. /\ base \in 0..BufLen /\ pos \in 0..BufLen /\ end \in 0..BufLen
        /\ base <= pos /\ pos <= end
    BY <1>1
  <1>3. Left(b) = end - pos /\ Used(b) = pos - base
    BY DEF Left, Used
  <1> HIDE DEF base, pos, end
  <1>4. /\ base \in Nat /\ pos \in Nat /\ end \in Nat /\ end <= BufLen
        /\ end - pos \in Nat /\ pos + (end - pos) = end
        /\ pos - base \in Nat /\ base + (pos - base) = pos
    BY <1>1, <1>2
  <1>5. QED
    BY <1>1, <1>2, <1>3, <1>4 DEF base, pos, end

\* A write changes the cells it covers and no other.
LEMMA WriteType ==
    ASSUME NEW m \in [Addr -> Cell], NEW at \in Nat, NEW s \in Seq(Cell)
    PROVE  /\ Write(m, at, s) \in [Addr -> Cell]
           /\ \A a \in Addr : a \notin at..(at + Len(s) - 1)
                                => Write(m, at, s)[a] = m[a]
  <1>1. Len(s) \in Nat /\ BufLen \in Nat
    BY LenProperties, LengthAssumption
  <1>2. ASSUME NEW a \in Addr, a \in at..(at + Len(s) - 1)
        PROVE  s[a - at + 1] \in Cell
    <2>1. a - at + 1 \in 1..Len(s)
      BY <1>1, <1>2 DEF Addr
    <2>2. QED
      BY <2>1, ElementOfSeq
  <1>3. QED
    BY <1>2 DEF Write

\* Outside two adjacent ranges is outside each.
LEMMA OutsideBoth ==
    ASSUME NEW p \in Nat, NEW x \in Nat, NEW y \in Nat, NEW a \in Nat,
           a \notin p..(p + (x + y) - 1)
    PROVE  a \notin p..(p + x - 1) /\ a \notin (p + x)..(p + x + y - 1)
  OBVIOUS

\* The first k bytes of a byte string.
LEMMA PrefixType ==
    ASSUME NEW s \in Seq(Cell), NEW k \in 0..Len(s)
    PROVE  SubSeq(s, 1, k) \in Seq(Cell) /\ Len(SubSeq(s, 1, k)) = k
  <1>1. Len(s) \in Nat
    BY LenProperties
  <1>2. \A i \in 1..k : s[i] \in Cell
    BY <1>1, ElementOfSeq
  <1>3. SubSeq(s, 1, k) \in Seq(Cell)
        /\ Len(SubSeq(s, 1, k)) = IF 1 <= k THEN k - 1 + 1 ELSE 0
    BY <1>1, <1>2, SubSeqProperties
  <1>4. QED
    BY <1>1, <1>3

\* lwpb_encoder_add_field, once it has accepted the field, appends k bytes to
\* its frame, k at most what the frame has left, and touches nothing else; it
\* reports END_OF_BUF only if the field does not fit.
LEMMA WriteFieldAppends ==
    ASSUME NEW d \in 1..MaxDepth, NEW raw \in BOOLEAN, NEW f \in Field,
           NEW n \in 0..BufLen, NEW src \in 0..MaxDepth,
           TypeOK,
           stack[d].buf \in Buf,
           src # 0 => stack[src].buf \in Buf /\ n = Used(stack[src].buf),
           WriteField(d, raw, f, n, src)
    PROVE  /\ \E k \in 0..Left(stack[d].buf) :
                /\ stack' = [stack EXCEPT ![d].buf.pos = @ + k]
                /\ \A a \in Addr :
                     a \notin stack[d].buf.pos..(stack[d].buf.pos + k - 1)
                        => mem'[a] = mem[a]
           /\ mem' \in [Addr -> Cell]
           /\ ret' \in {"OK", "END_OF_BUF"}
           /\ Len(Header(f, n, raw)) + BodyLen(f, n, raw) <= Left(stack[d].buf)
                => ret' = "OK"
           /\ damage' \in {damage, "bytes"} /\ (damage = "frames" => damage' = damage)
           /\ status' = status
  <1> DEFINE buf  == stack[d].buf
             head == Header(f, n, raw)
             put  == IF Len(head) <= Left(buf) THEN head
                                               ELSE SubSeq(head, 1, Left(buf))
             len  == BodyLen(f, n, raw)
             fits == Len(head) + len <= Left(buf)
             m    == Write(mem, buf.pos, put)
             body == IF ~fits THEN << >>
                     ELSE IF src = 0 THEN SubSeq(ValueBytes(f, n), 1, len)
                     ELSE Bytes(m, stack[src].buf.base, len)
  <1>1. /\ mem' = Write(m, buf.pos + Len(put), body)
        /\ stack' = [stack EXCEPT ![d].buf.pos = @ + Len(put) + Len(body)]
        /\ IF fits THEN ret' = "OK" /\ UNCHANGED damage
                   ELSE ret' = "END_OF_BUF" /\ Spoil("bytes")
        /\ UNCHANGED status
    BY DEF WriteField
  <1>2. /\ head \in Seq(Cell) /\ Len(head) \in Nat /\ len \in 0..n
        /\ n \in Nat /\ len \in Nat
    BY HeaderType, LengthAssumption
  <1>3. /\ buf.pos \in Nat /\ buf.base \in Nat /\ Left(buf) \in Nat
        /\ buf.pos + Left(buf) <= BufLen /\ BufLen \in Nat
    <2>1. buf.pos + Left(buf) = buf.end /\ buf.end <= BufLen
      BY BufFacts
    <2>2. buf.pos \in Nat /\ buf.base \in Nat /\ Left(buf) \in Nat /\ BufLen \in Nat
      BY BufFacts
    <2> HIDE DEF buf
    <2>3. QED
      BY <2>1, <2>2
  <1>4. put \in Seq(Cell) /\ Len(put) \in Nat /\ Len(put) <= Left(buf)
        /\ (fits => Len(put) = Len(head))
    <2>1. CASE Len(head) <= Left(buf)
      BY <2>1, <1>2
    <2>2. CASE ~(Len(head) <= Left(buf))
      <3>1. Left(buf) \in 0..Len(head)
        BY <2>2, <1>2, <1>3
      <3>2. SubSeq(head, 1, Left(buf)) \in Seq(Cell)
            /\ Len(SubSeq(head, 1, Left(buf))) = Left(buf)
        BY <3>1, <1>2, PrefixType
      <3>3. ~fits
        BY <2>2, <1>2, <1>3
      <3>4. QED
        BY <2>2, <3>2, <3>3, <1>3
    <2>3. QED
      BY <2>1, <2>2
  <1> HIDE DEF put, head
  <1>5. m \in [Addr -> Cell]
        /\ \A a \in Addr : a \notin buf.pos..(buf.pos + Len(put) - 1) => m[a] = mem[a]
    BY <1>3, <1>4, WriteType DEF TypeOK
  <1> HIDE DEF m
  <1>6. body \in Seq(Cell) /\ Len(body) \in Nat
        /\ Len(body) = IF fits THEN len ELSE 0
    <2>1. CASE ~fits
      <3>1. body = << >>
        BY <2>1
      <3>2. QED
        BY <2>1, <3>1, EmptySeq
    <2>2. CASE fits /\ src = 0
      <3>1. body = SubSeq(ValueBytes(f, n), 1, len)
        BY <2>2
      <3>2. ValueBytes(f, n) \in Seq(Cell) /\ Len(ValueBytes(f, n)) = n
        BY PieceType, FieldFacts
      <3>3. SubSeq(ValueBytes(f, n), 1, len) \in Seq(Cell)
            /\ Len(SubSeq(ValueBytes(f, n), 1, len)) = len
        BY <3>2, <1>2, PrefixType
      <3>4. QED
        BY <3>1, <3>3, <2>2, <1>2
    <2>3. CASE fits /\ src # 0
      <3> DEFINE b == stack[src].buf.base
      <3>1. b \in Nat /\ b + len <= BufLen
        <4>1. stack[src].buf \in Buf /\ n = Used(stack[src].buf)
          BY <2>3
        <4>2. b \in Nat /\ b + n = stack[src].buf.pos
              /\ stack[src].buf.pos \in 0..BufLen
          BY <4>1, BufFacts
        <4>3. len \in Nat /\ n \in Nat /\ len <= n /\ BufLen \in Nat
          <5>1. len \in 0..n /\ n \in Nat
            BY <1>2
          <5> HIDE DEF len
          <5>2. QED
            BY <5>1, <1>3
        <4>4. b + n <= BufLen
          BY <4>2, <1>3
        <4> HIDE DEF b, len
        <4>5. QED
          BY <4>2, <4>3, <4>4
      <3>2. \A i \in 1..len : b + i - 1 \in Addr
        <4>1. len \in Nat /\ BufLen \in Nat
          BY <1>2, <1>3
        <4> HIDE DEF b, len
        <4>2. QED
          BY <3>1, <4>1 DEF Addr
      <3>3. Bytes(m, b, len) \in [1..len -> Cell]
        BY <3>2, <1>5 DEF Bytes
      <3>4. Bytes(m, b, len) \in Seq(Cell) /\ Len(Bytes(m, b, len)) = len
        BY <3>3, <1>2, FunctionIsSeq
      <3>5. body = Bytes(m, b, len)
        BY <2>3
      <3>6. QED
        BY <3>4, <3>5, <2>3, <1>2
    <2>4. QED
      BY <2>1, <2>2, <2>3
  <1> HIDE DEF body
  <1>7. /\ Write(m, buf.pos + Len(put), body) \in [Addr -> Cell]
        /\ \A a \in Addr :
             a \notin (buf.pos + Len(put))..(buf.pos + Len(put) + Len(body) - 1)
               => Write(m, buf.pos + Len(put), body)[a] = m[a]
    <2>1. buf.pos + Len(put) \in Nat
      BY <1>3, <1>4
    <2>2. QED
      BY <2>1, <1>5, <1>6, WriteType
  <1> DEFINE k == Len(put) + Len(body)
  <1>8. k \in 0..Left(buf)
    BY <1>2, <1>3, <1>4, <1>6
  <1>9. stack' = [stack EXCEPT ![d].buf.pos = @ + k]
    <2>1. buf.pos + Len(put) + Len(body) = buf.pos + k
      BY <1>3, <1>4, <1>6
    <2>2. QED
      BY <2>1, <1>1
  <1>10. \A a \in Addr : a \notin buf.pos..(buf.pos + k - 1) => mem'[a] = mem[a]
    <2> SUFFICES ASSUME NEW a \in Addr, a \notin buf.pos..(buf.pos + k - 1)
                 PROVE  mem'[a] = mem[a]
      OBVIOUS
    <2>1. a \in Nat
      BY <1>3 DEF Addr
    <2>2. /\ a \notin buf.pos..(buf.pos + Len(put) - 1)
          /\ a \notin (buf.pos + Len(put))..(buf.pos + Len(put) + Len(body) - 1)
      BY <2>1, <1>3, <1>4, <1>6, OutsideBoth
    <2>3. QED
      BY <2>2, <1>1, <1>5, <1>7
  <1>11. QED
    <2>1. mem' \in [Addr -> Cell]
      BY <1>1, <1>7
    <2>2. /\ ret' \in {"OK", "END_OF_BUF"}
          /\ fits => ret' = "OK"
          /\ damage' \in {damage, "bytes"} /\ (damage = "frames" => damage' = damage)
          /\ status' = status
      BY <1>1 DEF Spoil
    <2>3. QED
      BY <2>1, <2>2, <1>8, <1>9, <1>10 DEF head

-----------------------------------------------------------------------------
(* The steps. *)

\* An initialised frame of the stack holds a buffer; a buffer is never Uninit.
LEMMA FrameBuf ==
    ASSUME TypeOK, NEW i \in 1..MaxDepth
    PROVE  /\ stack[i].buf # Uninit => stack[i].buf \in Buf
           /\ stack[i].buf \in Buf => stack[i].buf # Uninit
           /\ Used(stack[i].buf) \in 0..BufLen
  <1>1. stack[i] \in Frame
    BY DEF TypeOK
  <1>2. stack[i].buf \in Buf \cup {Uninit}
    BY <1>1 DEF Frame
  <1>3. Uninit \notin Buf
    BY LengthAssumption DEF Buf, Uninit
  <1>4. Used(stack[i].buf) \in 0..BufLen
    <2>1. CASE stack[i].buf \in Buf
      <3>1. /\ stack[i].buf.base \in 0..BufLen /\ stack[i].buf.pos \in 0..BufLen
            /\ Used(stack[i].buf) \in Nat
            /\ stack[i].buf.base + Used(stack[i].buf) = stack[i].buf.pos
        BY <2>1, BufFacts
      <3>2. QED
        BY <3>1, LengthAssumption
    <2>2. CASE stack[i].buf = Uninit
      BY <2>2, LengthAssumption DEF Uninit, Used
    <2>3. QED
      BY <1>2, <2>1, <2>2
  <1>5. QED
    BY <1>2, <1>3, <1>4

\* Moving a position forward, within what is left, keeps the stack typed and
\* changes nothing else of any frame.
LEMMA AdvanceType ==
    ASSUME TypeOK, NEW d \in 1..MaxDepth, stack[d].buf \in Buf,
           NEW k \in 0..Left(stack[d].buf),
           stack' = [stack EXCEPT ![d].buf.pos = @ + k]
    PROVE  /\ stack' \in [1..MaxDepth -> Frame]
           /\ stack'[d].buf \in Buf
           /\ stack'[d].buf.pos = stack[d].buf.pos + k
           /\ stack'[d].buf.base = stack[d].buf.base
           /\ stack'[d].buf.end = stack[d].buf.end
           /\ stack'[d].field = stack[d].field /\ stack'[d].msg = stack[d].msg
           /\ \A i \in 1..MaxDepth : i # d => stack'[i] = stack[i]
  <1> DEFINE b == stack[d].buf
             new == [b EXCEPT !.pos = @ + k]
  <1>1. stack \in [1..MaxDepth -> Frame] /\ stack[d] \in Frame
    BY DEF TypeOK
  <1>2. /\ b \in [base : 0..BufLen, pos : 0..BufLen, end : 0..BufLen]
        /\ b.base <= b.pos /\ b.pos <= b.end
    BY DEF Buf
  <1>3. k \in Nat /\ b.pos + k <= b.end /\ b.pos + k \in 0..BufLen
    <2>1. /\ BufLen \in Nat /\ b.pos \in Nat /\ b.end \in Nat /\ b.end <= BufLen
          /\ Left(b) \in Nat /\ b.pos + Left(b) = b.end
      BY BufFacts
    <2>2. k \in 0..Left(b)
      OBVIOUS
    <2> HIDE DEF b
    <2>3. QED
      BY <2>1, <2>2
  <1>4. /\ new \in [base : 0..BufLen, pos : 0..BufLen, end : 0..BufLen]
        /\ new.base = b.base /\ new.pos = b.pos + k /\ new.end = b.end
    BY <1>2, <1>3
  <1>5. new \in Buf
    <2>1. new.base <= new.pos /\ new.pos <= new.end
      BY <1>2, <1>3, <1>4
    <2> HIDE DEF new
    <2>2. QED
      BY <2>1, <1>4 DEF Buf
  <1>6. stack' = [stack EXCEPT ![d] = [stack[d] EXCEPT !.buf = new]]
    BY <1>1
  <1> HIDE DEF new
  <1>7. [stack[d] EXCEPT !.buf = new] \in Frame
    BY <1>1, <1>5 DEF Frame
  <1>8. stack'[d] = [stack[d] EXCEPT !.buf = new]
    BY <1>1, <1>6
  <1>9. /\ stack'[d].buf = new /\ stack'[d].field = stack[d].field
        /\ stack'[d].msg = stack[d].msg
    BY <1>1, <1>8 DEF Frame
  <1>10. QED
    BY <1>1, <1>4, <1>5, <1>6, <1>7, <1>9

\* What any call of add_field does to the frames up to d and to the memory,
\* whether it is refused, cut short or carried out.
LEMMA AddFieldToStep ==
    ASSUME TypeOK, NEW d \in 1..MaxDepth, NEW raw \in BOOLEAN, NEW f \in Field,
           NEW n \in 0..BufLen, NEW src \in 0..MaxDepth,
           src # 0 => n = Used(stack[src].buf),
           AddFieldTo(d, raw, f, n, src)
    PROVE  /\ \/ stack' = stack /\ mem' = mem
              \/ /\ stack[d].buf \in Buf
                 /\ \E k \in 0..Left(stack[d].buf) :
                      /\ stack' = [stack EXCEPT ![d].buf.pos = @ + k]
                      /\ \A a \in Addr :
                           a \notin stack[d].buf.pos..(stack[d].buf.pos + k - 1)
                              => mem'[a] = mem[a]
           /\ mem' \in [Addr -> Cell]
           /\ stack' \in [1..MaxDepth -> Frame]
           /\ ret' \in {"OK", "UNKNOWN_FIELD", "END_OF_BUF"}
           /\ status' \in {"running", "aborted", "undefined"}
           /\ damage' \in {damage, "bytes"} /\ (damage = "frames" => damage' = damage)
           /\ /\ status' = "running"
              /\ stack[d].buf \in Buf
                   => Len(Header(f, n, raw)) + BodyLen(f, n, raw) <= Left(stack[d].buf)
              => ret' # "END_OF_BUF"
  <1>1. CASE UNCHANGED <<mem, stack, damage>> /\ (status' = "running" => ret' = "UNKNOWN_FIELD")
             /\ ret' \in {ret, "UNKNOWN_FIELD"} /\ status' \in {status, "aborted", "undefined"}
    BY <1>1 DEF TypeOK
  <1>2. CASE Belongs(d, raw, f) /\ Initialised(d, src) /\ WriteField(d, raw, f, n, src)
    <2>1. stack[d].buf \in Buf /\ (src # 0 => stack[src].buf \in Buf)
      BY <1>2, FrameBuf DEF Initialised
    <2>2. /\ \E k \in 0..Left(stack[d].buf) :
                /\ stack' = [stack EXCEPT ![d].buf.pos = @ + k]
                /\ \A a \in Addr :
                     a \notin stack[d].buf.pos..(stack[d].buf.pos + k - 1)
                        => mem'[a] = mem[a]
          /\ mem' \in [Addr -> Cell]
          /\ ret' \in {"OK", "END_OF_BUF"}
          /\ Len(Header(f, n, raw)) + BodyLen(f, n, raw) <= Left(stack[d].buf)
                => ret' = "OK"
          /\ damage' \in {damage, "bytes"} /\ (damage = "frames" => damage' = damage)
          /\ status' = status
      BY <1>2, <2>1, WriteFieldAppends
    <2>3. stack' \in [1..MaxDepth -> Frame]
      BY <2>1, <2>2, AdvanceType
    <2>4. QED
      BY <2>1, <2>2, <2>3 DEF TypeOK
  <1>3. QED
    BY <1>1, <1>2 DEF AddFieldTo, Abort, Undefined

\* After an append to frame d, which is left on top, the frames up to d are
\* nested as before.
LEMMA NestedAfterAppend ==
    ASSUME TypeOK, FramesNested, PushedFields, damage # "frames",
           NEW d \in 1..depth,
           \/ stack' = stack
           \/ /\ stack[d].buf \in Buf
              /\ \E k \in 0..Left(stack[d].buf) :
                    stack' = [stack EXCEPT ![d].buf.pos = @ + k]
    PROVE  /\ \A i \in 1..d :
                /\ stack'[i].buf # Uninit
                /\ stack'[i].buf.end = stack'[1].buf.end
                /\ i > 1 => stack'[i].buf.base = stack'[i - 1].buf.pos + Reserve
           /\ stack'[1].buf.end = stack[1].buf.end
  <1>1. depth \in 0..MaxDepth /\ MaxDepth \in Nat
    BY EncoderAssumption DEF TypeOK
  <1>2. \A i \in 1..d : /\ stack[i].buf # Uninit
                        /\ stack[i].buf.end = stack[1].buf.end
                        /\ i > 1 => stack[i].buf.base = stack[i - 1].buf.pos + Reserve
    BY <1>1 DEF FramesNested
  <1>3. CASE stack' = stack
    BY <1>1, <1>2, <1>3
  <1>4. CASE stack[d].buf \in Buf /\ \E k \in 0..Left(stack[d].buf) :
                    stack' = [stack EXCEPT ![d].buf.pos = @ + k]
    <2> PICK k \in 0..Left(stack[d].buf) : stack' = [stack EXCEPT ![d].buf.pos = @ + k]
      BY <1>4
    <2>1. d \in 1..MaxDepth
      BY <1>1
    <2>2. /\ stack' \in [1..MaxDepth -> Frame]
          /\ stack'[d].buf \in Buf
          /\ stack'[d].buf.base = stack[d].buf.base
          /\ stack'[d].buf.end = stack[d].buf.end
          /\ \A i \in 1..MaxDepth : i # d => stack'[i] = stack[i]
      BY <1>4, <2>1, AdvanceType
    <2>3. stack'[d].buf # Uninit
      BY <2>2, LengthAssumption DEF Buf, Uninit
    <2>4. \A i \in 1..d : /\ stack'[i].buf # Uninit
                          /\ stack'[i].buf.end = stack[i].buf.end
                          /\ stack'[i].buf.base = stack[i].buf.base
                          /\ i # d => stack'[i].buf.pos = stack[i].buf.pos
      BY <1>1, <1>2, <2>2, <2>3
    <2>5. QED
      BY <1>1, <1>2, <2>4
  <1>5. QED
    BY <1>3, <1>4

-----------------------------------------------------------------------------
(* Every action preserves FramesInv. *)

\* A call that aborts or runs into undefined behaviour leaves the stack alone.
LEMMA CutShort ==
    ASSUME FramesInv, Abort \/ Undefined, UNCHANGED <<depth, packed, starts>>
    PROVE  FramesInv'
  BY DEF FramesInv, TypeOK, PushedFields, FramesNested, Abort, Undefined

LEMMA StartStep ==
    ASSUME FramesInv, NEW len \in 0..BufLen, Start(len)
    PROVE  FramesInv'
  <1> DEFINE first == [buf |-> NewBuf(0, len), field |-> NoField, msg |-> RootMsg]
  <1>1. NewBuf(0, len) = [base |-> 0, pos |-> 0, end |-> len]
    BY DEF NewBuf
  <1>2. NewBuf(0, len) \in Buf
    BY <1>1, LengthAssumption DEF Buf
  <1>3. first \in Frame
    BY <1>2, FieldAssumption DEF Frame
  <1>4. 1 \in 1..MaxDepth /\ MaxDepth \in Nat /\ MaxStarts \in Nat
    BY EncoderAssumption
  <1>5. stack' = [stack EXCEPT ![1] = first]
    BY DEF Start
  <1>6. stack' \in [1..MaxDepth -> Frame] /\ stack'[1] = first
    BY <1>3, <1>4, <1>5 DEF FramesInv, TypeOK
  <1>7. stack'[1].buf # Uninit
    BY <1>1, <1>6, LengthAssumption DEF Uninit
  <1>8. starts' \in 0..MaxStarts
    BY <1>4 DEF Start, FramesInv, TypeOK
  <1>9. TypeOK'
    <2>1. mem' \in [Addr -> Cell]
      BY DEF Start, Cell
    <2>2. depth' \in 0..MaxDepth
      BY <1>4 DEF Start
    <2>3. QED
      BY <2>1, <2>2, <1>6, <1>8 DEF Start, FramesInv, TypeOK
  <1>10. PushedFields' /\ FramesNested'
    BY <1>7 DEF Start, PushedFields, FramesNested
  <1>11. QED
    BY <1>9, <1>10 DEF FramesInv

LEMMA PushStep ==
    ASSUME FramesInv, status = "running", NEW f \in Field, NEW m \in Msg \cup {NoMsg},
           NEW pack \in BOOLEAN, Typ[f] = "message" \/ Packed[f],
           PushFrame(f, m, pack), UNCHANGED starts
    PROVE  FramesInv'
  <1> DEFINE parent == stack[depth].buf
             half   == [stack EXCEPT ![depth + 1].field = f, ![depth + 1].msg = m]
             fresh  == NewBuf(parent.pos + Reserve, Left(parent) - Reserve)
  <1> USE DEF FramesInv
  <1>1. MaxDepth \in Nat /\ Reserve \in Nat /\ BufLen \in Nat
    BY EncoderAssumption, LengthAssumption
  <1>2. CASE (Abort \/ Undefined) /\ UNCHANGED <<depth, packed>>
    BY <1>2, CutShort
  <1>3. ASSUME depth \in 1..(MaxDepth - 1), parent # Uninit
        PROVE  /\ half \in [1..MaxDepth -> Frame]
               /\ half[depth + 1].field = f /\ half[depth + 1].msg = m
               /\ \A i \in 1..depth : half[i] = stack[i]
               /\ parent \in Buf
               /\ depth \in 1..MaxDepth /\ depth + 1 \in 1..MaxDepth
    <2>1. depth \in 1..MaxDepth /\ depth + 1 \in 1..MaxDepth
      BY <1>1, <1>3
    <2>2. stack \in [1..MaxDepth -> Frame] /\ stack[depth + 1] \in Frame
      BY <2>1 DEF TypeOK
    <2>3. half = [stack EXCEPT ![depth + 1] =
                    [stack[depth + 1] EXCEPT !.field = f, !.msg = m]]
      BY <2>1, <2>2
    <2>4. [stack[depth + 1] EXCEPT !.field = f, !.msg = m] \in Frame
      BY <2>2 DEF Frame
    <2>5. parent \in Buf
      BY <1>3, <2>1, FrameBuf
    <2>6. half[depth + 1] = [stack[depth + 1] EXCEPT !.field = f, !.msg = m]
      BY <2>1, <2>2, <2>3
    <2>7. half[depth + 1].field = f /\ half[depth + 1].msg = m
      BY <2>2, <2>6 DEF Frame
    <2> HIDE DEF half
    <2>8. QED
      BY <1>1, <2>1, <2>2, <2>3, <2>4, <2>5, <2>7
  <1>4. CASE /\ depth \in 1..(MaxDepth - 1) /\ parent # Uninit
             /\ depth' = depth + 1
             /\ stack' = half
             /\ ret' = "END_OF_BUF"
             /\ damage' = "frames"
             /\ UNCHANGED <<mem, packed, status>>
    <2>1. TypeOK'
      BY <1>1, <1>3, <1>4 DEF TypeOK
    <2>2. PushedFields'
      <3> SUFFICES ASSUME NEW i \in 2..(depth + 1)
                   PROVE  stack'[i].field \in Field
                     /\ (Typ[stack'[i].field] = "message" \/ Packed[stack'[i].field])
        BY <1>4 DEF PushedFields
      <3>1. CASE i = depth + 1
        BY <3>1, <1>3, <1>4
      <3>2. CASE i # depth + 1
        <4>1. i \in 2..depth /\ i \in 1..depth
          <5>1. depth \in Nat
            BY <1>4, EncoderAssumption
          <5>2. QED
            BY <3>2, <5>1
        <4>2. stack'[i] = stack[i]
          BY <4>1, <1>3, <1>4
        <4>3. QED
          BY <4>1, <4>2 DEF FramesInv, PushedFields
      <3>3. QED
        BY <3>1, <3>2
    <2>3. FramesNested'
      BY <1>4 DEF FramesNested
    <2>4. QED
      BY <2>1, <2>2, <2>3
  <1>5. CASE /\ depth \in 1..(MaxDepth - 1) /\ parent # Uninit
             /\ HasRoom(parent)
             /\ depth' = depth + 1
             /\ stack' = [half EXCEPT ![depth + 1].buf = fresh]
             /\ packed' = (packed \/ pack)
             /\ ret' = "OK"
             /\ IF packed THEN Spoil("bytes") ELSE UNCHANGED damage
             /\ UNCHANGED <<mem, status>>
    <2>1. /\ half \in [1..MaxDepth -> Frame]
          /\ half[depth + 1].field = f /\ half[depth + 1].msg = m
          /\ \A i \in 1..depth : half[i] = stack[i]
          /\ parent \in Buf
          /\ depth \in 1..MaxDepth /\ depth + 1 \in 1..MaxDepth
      BY <1>3, <1>5
    <2>2. /\ fresh = [base |-> parent.pos + Reserve, pos |-> parent.pos + Reserve,
                      end |-> parent.end]
          /\ fresh \in Buf
      <3>1. /\ parent.pos \in 0..BufLen /\ parent.end \in 0..BufLen
            /\ parent.pos + Reserve <= parent.end
        BY <1>1, <1>5, <2>1 DEF Buf, Left, HasRoom
      <3>2. parent.pos + Reserve + (parent.end - parent.pos - Reserve) = parent.end
        BY <3>1, <1>1
      <3>3. fresh = [base |-> parent.pos + Reserve, pos |-> parent.pos + Reserve,
                      end |-> parent.end]
        BY <3>2 DEF NewBuf, Left
      <3>4. parent.pos + Reserve \in 0..BufLen
        BY <3>1, <1>1
      <3> HIDE DEF parent, fresh
      <3>5. QED
        BY <3>1, <3>3, <3>4, <1>1 DEF Buf
    <2>3. fresh # Uninit
      BY <2>2, <1>1 DEF Buf, Uninit
    <2> HIDE DEF half, fresh
    <2>4. stack' = [half EXCEPT ![depth + 1] = [half[depth + 1] EXCEPT !.buf = fresh]]
      BY <1>5, <2>1
    <2>5. half[depth + 1] \in Frame
      BY <2>1
    <2>6. /\ [half[depth + 1] EXCEPT !.buf = fresh] \in Frame
          /\ [half[depth + 1] EXCEPT !.buf = fresh].buf = fresh
          /\ [half[depth + 1] EXCEPT !.buf = fresh].field = half[depth + 1].field
      BY <2>2, <2>5 DEF Frame
    <2>7. /\ stack' \in [1..MaxDepth -> Frame]
          /\ stack'[depth + 1].buf = fresh /\ stack'[depth + 1].field = f
          /\ \A i \in 1..depth : stack'[i] = stack[i]
      BY <1>1, <2>1, <2>4, <2>6
    <2>8. TypeOK'
      BY <1>1, <1>5, <2>1, <2>7 DEF TypeOK, Spoil
    <2>9. PushedFields'
      <3> SUFFICES ASSUME NEW i \in 2..(depth + 1)
                   PROVE  stack'[i].field \in Field
                     /\ (Typ[stack'[i].field] = "message" \/ Packed[stack'[i].field])
        BY <1>5 DEF PushedFields
      <3>1. CASE i = depth + 1
        BY <3>1, <2>7
      <3>2. CASE i # depth + 1
        BY <3>2, <1>1, <2>1, <2>7 DEF PushedFields
      <3>3. QED
        BY <3>1, <3>2
    <2>10. FramesNested'
      <3> SUFFICES ASSUME damage' # "frames", NEW i \in 1..(depth + 1)
                   PROVE  /\ stack'[i].buf # Uninit
                          /\ stack'[i].buf.end = stack'[1].buf.end
                          /\ i > 1 => stack'[i].buf.base = stack'[i - 1].buf.pos + Reserve
        BY <1>5 DEF FramesNested
      <3>1. damage # "frames"
        BY <1>5 DEF Spoil
      <3>2. CASE i = depth + 1
        <4>1. parent.end = stack[1].buf.end
          BY <3>1, <2>1 DEF FramesNested
        <4>2. stack'[1] = stack[1] /\ stack'[depth] = stack[depth] /\ i - 1 = depth
          BY <2>1, <2>7, <3>2
        <4>3. QED
          BY <4>1, <4>2, <2>2, <2>3, <2>7, <3>2
      <3>3. CASE i # depth + 1
        <4>1. i \in 1..depth /\ (i > 1 => i - 1 \in 1..depth) /\ 1 \in 1..depth
          BY <3>3, <2>1
        <4>2. QED
          BY <4>1, <3>1, <2>7 DEF FramesNested
      <3>4. QED
        BY <3>2, <3>3
    <2>11. QED
      BY <2>8, <2>9, <2>10
  <1>6. QED
    BY <1>2, <1>4, <1>5 DEF PushFrame, ChildBuf

LEMMA AddFieldStep ==
    ASSUME FramesInv, status = "running", NEW f \in Field, NEW n \in 0..BufLen,
           AddField(f, n), UNCHANGED starts
    PROVE  FramesInv'
  <1> USE DEF FramesInv
  <1>1. CASE Abort /\ UNCHANGED <<depth, packed>>
    BY <1>1, CutShort
  <1>2. CASE depth > 0 /\ AddFieldTo(depth, packed, f, n, 0) /\ UNCHANGED <<depth, packed>>
    <2>1. depth \in 1..MaxDepth /\ packed \in BOOLEAN /\ 0 \in 0..MaxDepth
      BY <1>2, EncoderAssumption DEF TypeOK
    <2>2. /\ \/ stack' = stack
             \/ /\ stack[depth].buf \in Buf
                /\ \E k \in 0..Left(stack[depth].buf) :
                     stack' = [stack EXCEPT ![depth].buf.pos = @ + k]
          /\ mem' \in [Addr -> Cell]
          /\ stack' \in [1..MaxDepth -> Frame]
          /\ ret' \in {"OK", "UNKNOWN_FIELD", "END_OF_BUF"}
          /\ status' \in {"running", "aborted", "undefined"}
          /\ damage' \in {damage, "bytes"} /\ (damage = "frames" => damage' = damage)
      BY <1>2, <2>1, AddFieldToStep
    <2>3. TypeOK'
      BY <1>2, <2>2 DEF TypeOK
    <2>4. \A i \in 1..MaxDepth : stack'[i].field = stack[i].field
      BY <2>1, <2>2, AdvanceType
    <2>5. PushedFields'
      <3>1. \A i \in 2..depth : i \in 1..MaxDepth
        BY <2>1, EncoderAssumption
      <3>2. QED
        BY <1>2, <2>4, <3>1 DEF PushedFields
    <2>6. FramesNested'
      <3>1. SUFFICES ASSUME damage # "frames" PROVE FramesNested'
        BY <2>2 DEF FramesNested
      <3>2. depth \in 1..depth
        BY <2>1
      <3>3. QED
        BY <1>2, <2>2, <3>1, <3>2, NestedAfterAppend DEF FramesNested
    <2>7. QED
      BY <2>3, <2>5, <2>6
  <1>3. QED
    BY <1>1, <1>2 DEF AddField

LEMMA PopStep ==
    ASSUME FramesInv, status = "running", NEW raw \in BOOLEAN, PopInto(raw),
           packed' \in BOOLEAN, UNCHANGED starts
    PROVE  FramesInv'
  <1> DEFINE d == depth - 1
  <1> USE DEF FramesInv
  <1>1. /\ d \in 1..MaxDepth /\ depth \in 1..MaxDepth /\ depth \in 2..depth
        /\ depth \in 0..MaxDepth /\ d \in 1..depth
    BY EncoderAssumption DEF PopInto, TypeOK
  <1>2. stack[depth].field \in Field /\ Used(stack[depth].buf) \in 0..BufLen
    BY <1>1, FrameBuf DEF PushedFields
  <1>3. AddFieldTo(d, raw, stack[depth].field, Used(stack[depth].buf), depth)
        /\ depth' = d
    BY DEF PopInto
  <1>4. /\ \/ stack' = stack
           \/ /\ stack[d].buf \in Buf
              /\ \E k \in 0..Left(stack[d].buf) :
                     stack' = [stack EXCEPT ![d].buf.pos = @ + k]
        /\ mem' \in [Addr -> Cell]
        /\ stack' \in [1..MaxDepth -> Frame]
        /\ ret' \in {"OK", "UNKNOWN_FIELD", "END_OF_BUF"}
        /\ status' \in {"running", "aborted", "undefined"}
        /\ damage' \in {damage, "bytes"} /\ (damage = "frames" => damage' = damage)
    BY <1>1, <1>2, <1>3, AddFieldToStep
  <1>5. TypeOK'
    <2>1. d \in 0..MaxDepth
      BY <1>1
    <2>2. QED
      BY <1>3, <1>4, <2>1 DEF TypeOK
  <1>6. \A i \in 1..MaxDepth : stack'[i].field = stack[i].field
    BY <1>1, <1>4, AdvanceType
  <1>7. PushedFields'
    <2>1. \A i \in 2..d : i \in 2..depth /\ i \in 1..MaxDepth
      BY <1>1, EncoderAssumption
    <2>2. QED
      BY <1>3, <1>6, <2>1 DEF PushedFields
  <1>8. FramesNested'
    <2>1. SUFFICES ASSUME damage # "frames" PROVE FramesNested'
      BY <1>4 DEF FramesNested
    <2>2. QED
      BY <1>1, <1>3, <1>4, <2>1, NestedAfterAppend DEF FramesNested
  <1>9. QED
    BY <1>5, <1>7, <1>8

LEMMA FramesInvInit == Init => FramesInv
  <1> SUFFICES ASSUME Init PROVE FramesInv
    OBVIOUS
  <1>1. TypeOK
    <2>1. mem \in [Addr -> Cell]
      BY DEF Init, Cell
    <2>2. depth \in 0..MaxDepth /\ starts \in 0..MaxStarts
      BY EncoderAssumption DEF Init
    <2>3. QED
      BY <2>1, <2>2 DEF Init, TypeOK, Frame
  <1>2. PushedFields /\ FramesNested
    BY DEF Init, PushedFields, FramesNested
  <1>3. QED
    BY <1>1, <1>2 DEF FramesInv

LEMMA FramesInvNext == FramesInv /\ [Next]_vars => FramesInv'
  <1> SUFFICES ASSUME FramesInv, [Next]_vars PROVE FramesInv'
    OBVIOUS
  <1>1. CASE UNCHANGED vars
    BY <1>1 DEF vars, FramesInv, TypeOK, PushedFields, FramesNested
  <1>2. ASSUME NEW len \in 0..BufLen, Start(len)
        PROVE  FramesInv'
    BY <1>2, StartStep
  <1> DEFINE Running == status = "running" /\ UNCHANGED starts
  <1>3. ASSUME Running, NEW f \in Field, NestedStart(f)
        PROVE  FramesInv'
    BY <1>3, PushStep, FieldAssumption DEF NestedStart
  <1>4. ASSUME Running, NEW f \in Field, PackedRepeatedStart(f)
        PROVE  FramesInv'
    BY <1>4, PushStep, CutShort DEF PackedRepeatedStart
  <1>5. ASSUME Running, NEW f \in Field, AddScalarOutsideRun(f)
        PROVE  FramesInv'
    BY <1>5, CutShort DEF AddScalarOutsideRun
  <1>6. ASSUME Running, NEW f \in Field, NEW n \in ValueLens[f], AddField(f, n)
        PROVE  FramesInv'
    <2>1. n \in 0..BufLen
      BY LengthAssumption
    <2>2. QED
      BY <1>6, <2>1, AddFieldStep
  <1>7. ASSUME Running, NestedEnd
        PROVE  FramesInv'
    <2>1. packed \in BOOLEAN
      BY DEF FramesInv, TypeOK
    <2>2. QED
      BY <1>7, <2>1, PopStep, CutShort DEF NestedEnd
  <1>8. ASSUME Running, PackedRepeatedEnd
        PROVE  FramesInv'
    BY <1>8, PopStep, CutShort DEF PackedRepeatedEnd
  <1>9. QED
    BY <1>1, <1>2, <1>3, <1>4, <1>5, <1>6, <1>7, <1>8 DEF Next

\* The state keeps its types, buffers of spoilt frames included.
THEOREM TypeCorrect == Spec => []TypeOK
  <1>1. FramesInv => TypeOK
    BY DEF FramesInv
  <1>2. QED
    BY <1>1, FramesInvInit, FramesInvNext, PTL DEF Spec

\* The open frames stay nested inside the caller's buffer, each Reserve bytes
\* behind its parent, until the error of a start call is ignored.
THEOREM NestingHolds == Spec => []FramesNested
  <1>1. FramesInv => FramesNested
    BY DEF FramesInv
  <1>2. QED
    BY <1>1, FramesInvInit, FramesInvNext, PTL DEF Spec

-----------------------------------------------------------------------------
(* What a step may do. *)

\* The parent of an open frame has room for the frame's bytes behind their key
\* and length: that is what the reserve is for.
LEMMA RoomForChild ==
    ASSUME FramesInv, damage # "frames", depth > 1, NEW raw \in BOOLEAN
    PROVE  Len(Header(stack[depth].field, Used(stack[depth].buf), raw))
             + BodyLen(stack[depth].field, Used(stack[depth].buf), raw)
           <= Left(stack[depth - 1].buf)
  <1> DEFINE f == stack[depth].field
             n == Used(stack[depth].buf)
             b == stack[depth].buf
             up == stack[depth - 1].buf
             room == Left(up)
  <1> USE DEF FramesInv
  <1>1. /\ depth \in 1..MaxDepth /\ depth - 1 \in 1..MaxDepth
        /\ depth \in 2..depth /\ depth \in 1..depth /\ depth - 1 \in 1..depth
    BY EncoderAssumption DEF TypeOK
  <1>2. f \in Field /\ (Typ[f] = "message" \/ Packed[f]) /\ n \in 0..BufLen
    BY <1>1, FrameBuf DEF PushedFields
  <1>3. b \in Buf /\ up \in Buf
    BY <1>1, FrameBuf DEF FramesNested
  <1>4. b.end = up.end /\ b.base = up.pos + Reserve
    BY <1>1 DEF FramesNested
  <1>5. n + Reserve <= room /\ room \in Nat /\ n \in Nat /\ Reserve \in Nat
    BY <1>2, <1>3, <1>4, FieldFacts DEF Buf, Used, Left
  <1>6. /\ KeyLen[f] \in Nat /\ VarintLen[n] \in Nat
        /\ KeyLen[f] + VarintLen[n] <= Reserve /\ VarintLen[n] <= Reserve
    BY <1>2, FieldFacts
  <1> SUFFICES Len(Header(f, n, raw)) + BodyLen(f, n, raw) <= room
    OBVIOUS
  <1> HIDE DEF f, n, room
  <1>7. CASE WireTypeAs(f, raw) = "STRING"
    <2>1. BodyLen(f, n, raw) = n
      BY <1>7 DEF BodyLen
    <2>2. Len(Header(f, n, raw)) = (IF raw THEN 0 ELSE KeyLen[f]) + VarintLen[n]
      BY <1>2, <1>7, HeaderType
    <2>3. QED
      BY <2>1, <2>2, <1>5, <1>6
  <1>8. CASE WireTypeAs(f, raw) # "STRING"
    <2>1. raw /\ Typ[f] # "message"
      BY <1>2, <1>8 DEF WireTypeAs, WireType
    <2>2. WireTypeAs(f, raw) \in {"VARINT", "BITS"}
      BY <1>8 DEF WireTypeAs, WireType
    <2>3. Len(Header(f, n, raw)) + BodyLen(f, n, raw) = n
      <3>1. CASE WireTypeAs(f, raw) = "VARINT"
        <4>1. Len(Header(f, n, raw)) = n
          <5>1. Len(Header(f, n, raw)) = (IF raw THEN 0 ELSE KeyLen[f]) + n
            BY <3>1, <1>2, HeaderType
          <5>2. QED
            BY <5>1, <2>1, <1>5
        <4>2. BodyLen(f, n, raw) = 0
          BY <3>1 DEF BodyLen
        <4>3. QED
          BY <4>1, <4>2, <1>5
      <3>2. CASE WireTypeAs(f, raw) = "BITS"
        <4>1. Len(Header(f, n, raw)) = 0
          <5>1. Len(Header(f, n, raw)) = (IF raw THEN 0 ELSE KeyLen[f])
            BY <3>2, <1>2, HeaderType
          <5>2. QED
            BY <5>1, <2>1
        <4>2. BodyLen(f, n, raw) = n
          BY <3>2 DEF BodyLen
        <4>3. QED
          BY <4>1, <4>2, <1>5
      <3>3. QED
        BY <3>1, <3>2, <2>2
    <2>4. QED
      BY <2>3, <1>5
  <1>9. QED
    BY <1>7, <1>8

\* A call other than start leaves the memory alone, or adds a field to the top
\* frame, or pops the top frame into the one below.
LEMMA StepShape ==
    ASSUME FramesInv, Next, starts' = starts
    PROVE  \/ mem' = mem /\ depth' \in {depth, depth + 1}
           \/ \E f \in Field : \E n \in ValueLens[f] :
                depth > 0 /\ depth' = depth /\ AddFieldTo(depth, packed, f, n, 0)
           \/ \E raw \in BOOLEAN : PopInto(raw)
  <1> DEFINE Still == mem' = mem /\ depth' \in {depth, depth + 1}
  <1>1. starts \in Nat /\ packed \in BOOLEAN
    BY EncoderAssumption DEF FramesInv, TypeOK
  <1>2. ~ \E len \in 0..BufLen : Start(len)
    BY <1>1 DEF Start
  <1>3. ASSUME NEW f \in Field, NEW m, NEW pack, PushFrame(f, m, pack)
        PROVE  Still
    BY <1>3 DEF PushFrame, ChildBuf, Abort, Undefined
  <1>4. ASSUME NEW f \in Field,
               NestedStart(f) \/ PackedRepeatedStart(f) \/ AddScalarOutsideRun(f)
        PROVE  Still
    <2> HIDE DEF Still
    <2>1. CASE NestedStart(f)
      BY <2>1, <1>3 DEF NestedStart
    <2>2. CASE PackedRepeatedStart(f)
      BY <2>2, <1>3 DEF PackedRepeatedStart, Abort, Still
    <2>3. CASE AddScalarOutsideRun(f)
      BY <2>3 DEF AddScalarOutsideRun, Undefined, Still
    <2>4. QED
      BY <1>4, <2>1, <2>2, <2>3
  <1>5. ASSUME NEW f \in Field, NEW n \in ValueLens[f], AddField(f, n)
        PROVE  Still \/ (depth > 0 /\ depth' = depth /\ AddFieldTo(depth, packed, f, n, 0))
    BY <1>5 DEF AddField, Abort
  <1>6. ASSUME NestedEnd \/ PackedRepeatedEnd
        PROVE  Still \/ \E raw \in BOOLEAN : PopInto(raw)
    BY <1>1, <1>6 DEF NestedEnd, PackedRepeatedEnd, Abort
  <1> HIDE DEF Still
  <1>7. \/ \E f \in Field : \/ NestedStart(f) \/ PackedRepeatedStart(f)
                             \/ AddScalarOutsideRun(f)
                             \/ \E n \in ValueLens[f] : AddField(f, n)
        \/ NestedEnd \/ PackedRepeatedEnd
    BY <1>2 DEF Next
  <1>8. QED
    BY <1>4, <1>5, <1>6, <1>7 DEF Still

\* What popping the top frame does to the frame below and to the memory.
LEMMA PopAppends ==
    ASSUME FramesInv, NEW raw \in BOOLEAN, PopInto(raw)
    PROVE  LET d == depth - 1
           IN  /\ d \in 1..depth /\ depth' = d
               /\ \/ stack' = stack /\ mem' = mem
                  \/ /\ stack[d].buf \in Buf
                     /\ \E k \in 0..Left(stack[d].buf) :
                          /\ stack' = [stack EXCEPT ![d].buf.pos = @ + k]
                          /\ \A a \in Addr :
                               a \notin stack[d].buf.pos..(stack[d].buf.pos + k - 1)
                                  => mem'[a] = mem[a]
               /\ damage = "frames" => damage' = damage
  <1> DEFINE d == depth - 1
             f == stack[depth].field
             n == Used(stack[depth].buf)
  <1>1. /\ d \in 1..MaxDepth /\ d \in 1..depth
        /\ depth \in 1..MaxDepth /\ depth \in 2..depth /\ depth' = d
        /\ depth \in 0..MaxDepth
    BY EncoderAssumption DEF PopInto, FramesInv, TypeOK
  <1>2. f \in Field /\ n \in 0..BufLen
    BY <1>1, FrameBuf DEF FramesInv, PushedFields
  <1>3. AddFieldTo(d, raw, f, n, depth) /\ TypeOK /\ n = Used(stack[depth].buf)
    BY DEF PopInto, FramesInv
  <1> HIDE DEF d, f, n
  <1>4. /\ \/ stack' = stack /\ mem' = mem
           \/ /\ stack[d].buf \in Buf
              /\ \E k \in 0..Left(stack[d].buf) :
                   /\ stack' = [stack EXCEPT ![d].buf.pos = @ + k]
                   /\ \A a \in Addr :
                        a \notin stack[d].buf.pos..(stack[d].buf.pos + k - 1)
                           => mem'[a] = mem[a]
        /\ damage = "frames" => damage' = damage
    BY <1>1, <1>2, <1>3, AddFieldToStep
  <1>5. QED
    BY <1>1, <1>4 DEF d

\* The end of a nested message or of a packed run never fails for want of room
\* unless the error of a start call was ignored.
THEOREM EndsFit == Spec => EndAlwaysFits
  <1> DEFINE Fits == starts' = starts /\ depth' < depth /\ damage # "frames"
                       /\ status' = "running" => ret' # "END_OF_BUF"
  <1>1. FramesInv /\ [Next]_vars => Fits \/ UNCHANGED vars
    <2> SUFFICES ASSUME FramesInv, Next, starts' = starts, depth' < depth,
                        damage # "frames", status' = "running"
                 PROVE  ret' # "END_OF_BUF"
      OBVIOUS
    <2>1. depth \in Nat
      BY EncoderAssumption DEF FramesInv, TypeOK
    <2>2. PICK raw \in BOOLEAN : PopInto(raw)
      BY <2>1, StepShape
    <2>3. /\ depth - 1 \in 1..MaxDepth /\ depth \in 0..MaxDepth
          /\ depth \in 1..MaxDepth /\ depth \in 2..depth
      BY <2>2, EncoderAssumption DEF FramesInv, TypeOK, PopInto
    <2>4. stack[depth].field \in Field /\ Used(stack[depth].buf) \in 0..BufLen
      BY <2>3, FrameBuf DEF FramesInv, PushedFields
    <2>5. Len(Header(stack[depth].field, Used(stack[depth].buf), raw))
             + BodyLen(stack[depth].field, Used(stack[depth].buf), raw)
           <= Left(stack[depth - 1].buf)
      BY <2>2, RoomForChild DEF PopInto
    <2>6. AddFieldTo(depth - 1, raw, stack[depth].field, Used(stack[depth].buf), depth)
      BY <2>2 DEF PopInto
    <2>7. QED
      BY <2>3, <2>4, <2>5, <2>6, AddFieldToStep DEF FramesInv
  <1>2. QED
    BY <1>1, FramesInvInit, FramesInvNext, PTL DEF Spec, EndAlwaysFits

\* The bytes add_field changes are those it appends.
LEMMA ChangesAreAppended ==
    ASSUME FramesInv, damage # "frames", NEW d \in 1..depth,
           \/ stack' = stack /\ mem' = mem
           \/ /\ stack[d].buf \in Buf
              /\ \E k \in 0..Left(stack[d].buf) :
                    /\ stack' = [stack EXCEPT ![d].buf.pos = @ + k]
                    /\ \A a \in Addr :
                         a \notin stack[d].buf.pos..(stack[d].buf.pos + k - 1)
                            => mem'[a] = mem[a],
           NEW a \in Addr, mem'[a] # mem[a]
    PROVE  /\ a >= stack[d].buf.pos
           /\ a < stack'[d].buf.pos
           /\ a < stack[1].buf.end
  <1> DEFINE b == stack[d].buf
  <1>1. b \in Buf
    OBVIOUS
  <1>2. PICK k \in 0..Left(b) :
            /\ stack' = [stack EXCEPT ![d].buf.pos = @ + k]
            /\ a \in b.pos..(b.pos + k - 1)
    OBVIOUS
  <1>3. d \in 1..MaxDepth
    BY EncoderAssumption DEF FramesInv, TypeOK
  <1>4. stack'[d].buf.pos = b.pos + k
    BY <1>1, <1>2, <1>3, AdvanceType DEF FramesInv
  <1>5. b.end = stack[1].buf.end
    BY DEF FramesInv, FramesNested
  <1>6. b.pos \in Nat /\ b.end \in Nat /\ k \in Nat /\ b.pos + k <= b.end /\ a \in Nat
    <2>1. /\ b.pos \in Nat /\ b.end \in Nat
          /\ Left(b) \in Nat /\ b.pos + Left(b) = b.end
      BY <1>1, BufFacts
    <2>2. a \in Nat
      BY LengthAssumption DEF Addr
    <2> HIDE DEF b
    <2>3. QED
      BY <2>1, <2>2, <1>2
  <1>7. QED
    BY <1>2, <1>4, <1>5, <1>6

\* A call writes only what it appends to the frame it leaves on top.
THEOREM WritesAppend == Spec => WritesOnlyAppend
  <1> DEFINE Appends == starts' = starts /\ damage' # "frames" =>
                \A a \in Addr : mem'[a] # mem[a] =>
                    /\ a >= stack[depth'].buf.pos
                    /\ a < stack'[depth'].buf.pos
                    /\ a < stack[1].buf.end
  <1>1. FramesInv /\ [Next]_vars => Appends \/ UNCHANGED vars
    <2> SUFFICES ASSUME FramesInv, Next, starts' = starts, damage' # "frames",
                        mem' # mem, NEW a \in Addr, mem'[a] # mem[a]
                 PROVE  /\ a >= stack[depth'].buf.pos
                        /\ a < stack'[depth'].buf.pos
                        /\ a < stack[1].buf.end
      OBVIOUS
    <2>1. depth \in 0..MaxDepth /\ starts \in Nat /\ packed \in BOOLEAN /\ MaxDepth \in Nat
      BY EncoderAssumption DEF FramesInv, TypeOK
    <2>2. \/ \E f \in Field : \E n \in ValueLens[f] :
                depth > 0 /\ depth' = depth /\ AddFieldTo(depth, packed, f, n, 0)
          \/ \E raw \in BOOLEAN : PopInto(raw)
      BY StepShape
    <2>3. ASSUME NEW f \in Field, NEW n \in ValueLens[f], depth > 0, depth' = depth,
                 AddFieldTo(depth, packed, f, n, 0)
          PROVE  /\ a >= stack[depth'].buf.pos
                 /\ a < stack'[depth'].buf.pos
                 /\ a < stack[1].buf.end
      <3>1. n \in 0..BufLen /\ depth \in 1..MaxDepth /\ depth \in 1..depth /\ 0 \in 0..MaxDepth
        BY <2>1, <2>3, LengthAssumption
      <3>2. /\ \/ stack' = stack /\ mem' = mem
               \/ /\ stack[depth].buf \in Buf
                  /\ \E k \in 0..Left(stack[depth].buf) :
                       /\ stack' = [stack EXCEPT ![depth].buf.pos = @ + k]
                       /\ \A c \in Addr :
                            c \notin stack[depth].buf.pos..(stack[depth].buf.pos + k - 1)
                               => mem'[c] = mem[c]
            /\ (damage = "frames" => damage' = damage)
        BY <3>1, <2>1, <2>3, AddFieldToStep DEF FramesInv
      <3>3. QED
        BY <3>1, <3>2, <2>3, ChangesAreAppended
    <2>4. ASSUME NEW raw \in BOOLEAN, PopInto(raw)
          PROVE  /\ a >= stack[depth'].buf.pos
                 /\ a < stack'[depth'].buf.pos
                 /\ a < stack[1].buf.end
      BY <2>4, PopAppends, ChangesAreAppended
    <2>5. QED
      BY <2>2, <2>3, <2>4
  <1>2. QED
    BY <1>1, FramesInvInit, FramesInvNext, PTL DEF Spec, WritesOnlyAppend
=============================================================================
