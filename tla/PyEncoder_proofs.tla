-------------------------- MODULE PyEncoder_proofs --------------------------
(***************************************************************************)
(* Encoding a Python dict: what the two passes do, for every record of any *)
(* messages, however deep.  EncoderInv is inductive, in four parts: how    *)
(* the calls are nested (WalkInv), the room each has counted or taken      *)
(* (SizeInv), the types of what they have passed (TypesInv), and the bytes *)
(* they have written (BytesInv).                                           *)
(***************************************************************************)
EXTENDS PyRecord, SequenceTheorems, Foundations

-----------------------------------------------------------------------------
(* Sequences of anything. *)

\* A sequence over some set is one over its own elements.
LEMMA SeqIsSeq ==
    ASSUME NEW S, NEW q \in Seq(S)
    PROVE  IsSeq(q)
  <1>1. Len(q) \in Nat /\ q \in [1..Len(q) -> S] /\ DOMAIN q = 1..Len(q)
    BY LenProperties
  <1>2. q \in [1..Len(q) -> {q[i] : i \in DOMAIN q}]
    BY <1>1
  <1>3. QED
    BY <1>1, <1>2, SeqDef DEF IsSeq

\* The length and the indices of a sequence.
LEMMA SeqFacts ==
    ASSUME NEW q, IsSeq(q)
    PROVE  Len(q) \in Nat /\ DOMAIN q = 1..Len(q)
  BY LenProperties DEF IsSeq

\* Three sequences are sequences over one set.
LEMMA Joint ==
    ASSUME NEW s, NEW t, NEW u, IsSeq(s), IsSeq(t), IsSeq(u)
    PROVE  \E S : s \in Seq(S) /\ t \in Seq(S) /\ u \in Seq(S)
  <1> DEFINE A == {s[i] : i \in DOMAIN s}
             B == {t[i] : i \in DOMAIN t}
             C == {u[i] : i \in DOMAIN u}
  <1>1. s \in Seq(A) /\ t \in Seq(B) /\ u \in Seq(C)
    BY DEF IsSeq
  <1>2. s \in Seq(A \cup B \cup C)
    <2> HIDE DEF A, B, C
    <2> QED BY <1>1, SeqMonotonic, A \subseteq A \cup B \cup C
  <1>3. t \in Seq(A \cup B \cup C)
    <2> HIDE DEF A, B, C
    <2> QED BY <1>1, SeqMonotonic, B \subseteq A \cup B \cup C
  <1>4. u \in Seq(A \cup B \cup C)
    <2> HIDE DEF A, B, C
    <2> QED BY <1>1, SeqMonotonic, C \subseteq A \cup B \cup C
  <1> HIDE DEF A, B, C
  <1>5. QED
    BY <1>2, <1>3, <1>4

\* Three strings, grouped the other way.
LEMMA Regroup ==
    ASSUME NEW s, NEW t, NEW u, IsSeq(s), IsSeq(t), IsSeq(u),
           NEW v, v = t \o u
    PROVE  s \o t \o u = s \o v
  <1>1. PICK S : s \in Seq(S) /\ t \in Seq(S) /\ u \in Seq(S)
    BY Joint
  <1>2. (s \o t) \o u = s \o (t \o u)
    BY <1>1, SMTT(30)
  <1>3. QED
    BY <1>2, Zenon

\* Sequences with the same elements are the same.
LEMMA SameSeq ==
    ASSUME NEW s, NEW t, IsSeq(s), IsSeq(t), Len(s) = Len(t),
           \A i \in 1..Len(s) : s[i] = t[i]
    PROVE  s = t
  <1>1. PICK S : s \in Seq(S) /\ t \in Seq(S)
    BY Joint
  <1>2. QED
    BY <1>1, SeqEqual

\* Concatenation.
LEMMA ConcatFacts ==
    ASSUME NEW s, NEW t, IsSeq(s), IsSeq(t)
    PROVE  /\ IsSeq(s \o t)
           /\ Len(s \o t) = Len(s) + Len(t)
           /\ \A i \in 1..Len(s) : (s \o t)[i] = s[i]
           /\ \A i \in 1..Len(t) : (s \o t)[Len(s) + i] = t[i]
  <1>1. PICK S : s \in Seq(S) /\ t \in Seq(S)
    BY Joint
  <1>2. /\ s \o t \in Seq(S)
        /\ Len(s \o t) = Len(s) + Len(t)
        /\ \A i \in 1..Len(s) + Len(t) :
              (s \o t)[i] = IF i <= Len(s) THEN s[i] ELSE t[i - Len(s)]
    BY <1>1, ConcatProperties
  <1>3. Len(s) \in Nat /\ Len(t) \in Nat
    BY SeqFacts
  <1>4. IsSeq(s \o t)
    BY <1>2, SeqIsSeq
  <1>5. \A i \in 1..Len(s) : (s \o t)[i] = s[i]
    BY <1>2, <1>3
  <1>6. \A i \in 1..Len(t) : (s \o t)[Len(s) + i] = t[i]
    <2> SUFFICES ASSUME NEW i \in 1..Len(t) PROVE (s \o t)[Len(s) + i] = t[i]
      OBVIOUS
    <2>1. /\ Len(s) + i \in 1..Len(s) + Len(t) /\ ~(Len(s) + i <= Len(s))
          /\ Len(s) + i - Len(s) = i
      BY <1>3
    <2>2. QED
      BY <1>2, <2>1
  <1>7. QED
    BY <1>2, <1>4, <1>5, <1>6

\* Parts.
LEMMA PartFacts ==
    ASSUME NEW q, IsSeq(q), NEW m \in Nat \ {0}, NEW n \in 0..Len(q)
    PROVE  /\ IsSeq(SubSeq(q, m, n))
           /\ Len(SubSeq(q, m, n)) = IF m <= n THEN n - m + 1 ELSE 0
           /\ \A i \in 1..(n - m + 1) : SubSeq(q, m, n)[i] = q[m + i - 1]
  <1> DEFINE S == {q[i] : i \in DOMAIN q}
  <1>1. Len(q) \in Nat /\ DOMAIN q = 1..Len(q)
    BY SeqFacts
  <1>2. m \in Int /\ n \in Int /\ \A i \in m..n : q[i] \in S
    BY <1>1
  <1> HIDE DEF S
  <1>3. /\ SubSeq(q, m, n) \in Seq(S)
        /\ Len(SubSeq(q, m, n)) = IF m <= n THEN n - m + 1 ELSE 0
        /\ \A i \in 1..(n - m + 1) : SubSeq(q, m, n)[i] = q[m + i - 1]
    BY <1>2, SubSeqProperties
  <1>4. QED
    BY <1>3, SeqIsSeq

\* One more element.
LEMMA AppendFacts ==
    ASSUME NEW q, IsSeq(q), NEW x
    PROVE  /\ IsSeq(Append(q, x))
           /\ Len(Append(q, x)) = Len(q) + 1
           /\ \A i \in 1..Len(q) : Append(q, x)[i] = q[i]
           /\ Append(q, x)[Len(q) + 1] = x
  <1> DEFINE S == {q[i] : i \in DOMAIN q} \cup {x}
  <1>1. q \in Seq(S)
    BY SeqMonotonic DEF IsSeq
  <1>2. x \in S
    OBVIOUS
  <1> HIDE DEF S
  <1>3. /\ Append(q, x) \in Seq(S)
        /\ Len(Append(q, x)) = Len(q) + 1
        /\ \A i \in 1..Len(q) : Append(q, x)[i] = q[i]
        /\ Append(q, x)[Len(q) + 1] = x
    BY <1>1, <1>2, AppendProperties
  <1>4. QED
    BY <1>3, SeqIsSeq

\* Nothing.
LEMMA NoBytes ==
    /\ IsSeq(<< >>) /\ Len(<< >>) = 0
    /\ \A q : IsSeq(q) => q \o << >> = q /\ << >> \o q = q /\ (Len(q) = 0 => q = << >>)
  <1>1. << >> \in Seq({}) /\ Len(<< >>) = 0
    BY EmptySeq
  <1>2. IsSeq(<< >>)
    BY <1>1, SeqIsSeq
  <1>3. ASSUME NEW q, IsSeq(q)
        PROVE  q \o << >> = q /\ << >> \o q = q /\ (Len(q) = 0 => q = << >>)
    <2>1. q \in Seq({q[i] : i \in DOMAIN q})
      BY <1>3 DEF IsSeq
    <2>2. q \o << >> = q /\ << >> \o q = q
      BY <2>1, ConcatEmptySeq
    <2>3. Len(q) = 0 => q = << >>
      BY <2>1, EmptySeq
    <2>4. QED
      BY <2>2, <2>3
  <1>4. QED
    BY <1>1, <1>2, <1>3

-----------------------------------------------------------------------------
(* Sums and concatenations of the first of a sequence. *)

LEMMA SumsFacts ==
    ASSUME NEW ns, IsSeq(ns), \A k \in 1..Len(ns) : ns[k] \in Nat
    PROVE  /\ Sums(ns) \in [0..Len(ns) -> Nat]
           /\ Sums(ns)[0] = 0
           /\ \A k \in 1..Len(ns) : Sums(ns)[k] = Sums(ns)[k - 1] + ns[k]
  <1> DEFINE Whole(s) == [k \in 0..Len(ns) |-> IF k = 0 THEN 0 ELSE s[k - 1] + ns[k]]
  <1>1. Len(ns) \in Nat
    BY SeqFacts
  <1>2. PICK step : step = [k \in 1..Len(ns) |-> [n \in Nat |-> n + ns[k]]]
    OBVIOUS
  <1>3. \A k \in 1..Len(ns) : \A n \in Nat : step[k][n] = n + ns[k] /\ step[k][n] \in Nat
    BY <1>2, SMTT(20)
  <1>4. PICK g \in [0..Len(ns) -> Nat] :
           g[0] = 0 /\ \A k \in 1..Len(ns) : g[k] = step[k][g[k - 1]]
    <2>1. PICK e, n, V : e = 0 /\ n = Len(ns) /\ V = Nat
      OBVIOUS
    <2>2. n \in Nat /\ e \in V /\ StepsWithin(step, n, V)
      BY <1>1, <1>3, <2>1 DEF StepsWithin
    <2>3. PICK g : StepsTo(g, step, n, V, e)
      BY <2>2, StepFunction
    <2>4. QED
      BY <2>1, <2>3 DEF StepsTo
  <1>5. /\ \A k \in 0..Len(ns) : k # 0 => k \in 1..Len(ns)
        /\ \A k \in 1..Len(ns) : k \in 0..Len(ns) /\ k # 0 /\ k - 1 \in 0..Len(ns)
        /\ 0 \in 0..Len(ns)
    BY <1>1
  <1>6. \A k \in 1..Len(ns) : g[k] = g[k - 1] + ns[k]
    BY <1>3, <1>4, <1>5
  <1>7. g = Whole(g)
    BY <1>4, <1>5, <1>6
  <1>8. Sums(ns) = CHOOSE s : s = Whole(s)
    BY Zenon DEF Sums
  <1>9. PICK s : s = Sums(ns)
    OBVIOUS
  <1>10. s = Whole(s)
    <2> HIDE DEF Whole
    <2>1. QED
      BY <1>7, <1>8, <1>9, Zenon
  <1>11. /\ s[0] = 0 /\ \A k \in 1..Len(ns) : s[k] = s[k - 1] + ns[k]
    BY <1>5, <1>10
  <1>12. s \in [0..Len(ns) -> {s[k] : k \in 0..Len(ns)}]
    BY <1>10
  <1>13. \A k \in 0..Len(ns) : s[k] = g[k]
    <2> DEFINE rank == [k \in 0..Len(ns) |-> k]
    <2>1. rank \in [0..Len(ns) -> Nat]
      BY <1>1
    <2>2. ASSUME NEW k \in 0..Len(ns), \A l \in 0..Len(ns) : rank[l] < rank[k] => s[l] = g[l]
          PROVE  s[k] = g[k]
      <3>1. k = 0 \/ (k \in 1..Len(ns) /\ k - 1 < k)
        BY <1>1, <1>5
      <3>2. k = 0 \/ s[k - 1] = g[k - 1]
        BY <1>5, <2>2, <3>1
      <3>3. QED
        BY <1>4, <1>6, <1>11, <3>1, <3>2
    <2>3. LowerDecide(s, g, 0..Len(ns), rank)
      BY <2>2 DEF LowerDecide
    <2>4. PICK S, r : S = 0..Len(ns) /\ r = rank
      OBVIOUS
    <2> HIDE DEF rank
    <2>5. r \in [S -> Nat] /\ LowerDecide(s, g, S, r)
      BY <2>1, <2>3, <2>4, Zenon
    <2>6. \A k \in S : s[k] = g[k]
      BY <2>5, UniqueFunction
    <2>7. QED
      BY <2>4, <2>6
  <1>14. s \in [0..Len(ns) -> Nat]
    BY <1>4, <1>12, <1>13
  <1>15. QED
    BY <1>9, <1>11, <1>14, Zenon

\* The concatenations of the first k of a sequence of sequences.
LEMMA JoinsFacts ==
    ASSUME NEW S, NEW ss, IsSeq(ss), \A k \in 1..Len(ss) : ss[k] \in Seq(S)
    PROVE  /\ Joins(ss) \in [0..Len(ss) -> Seq(S)]
           /\ Joins(ss)[0] = << >>
           /\ \A k \in 1..Len(ss) : Joins(ss)[k] = Joins(ss)[k - 1] \o ss[k]
  <1> DEFINE Whole(s) == [k \in 0..Len(ss) |-> IF k = 0 THEN << >> ELSE s[k - 1] \o ss[k]]
  <1>1. Len(ss) \in Nat
    BY SeqFacts
  <1>2. PICK step : step = [k \in 1..Len(ss) |-> [v \in Seq(S) |-> v \o ss[k]]]
    OBVIOUS
  <1>3. \A k \in 1..Len(ss) : \A v \in Seq(S) : step[k][v] = v \o ss[k] /\ step[k][v] \in Seq(S)
    BY <1>2
  <1>4. PICK g \in [0..Len(ss) -> Seq(S)] :
           g[0] = << >> /\ \A k \in 1..Len(ss) : g[k] = step[k][g[k - 1]]
    <2>1. PICK e, n, V : e = << >> /\ n = Len(ss) /\ V = Seq(S)
      OBVIOUS
    <2>2. n \in Nat /\ e \in V /\ StepsWithin(step, n, V)
      BY <1>1, <1>3, <2>1 DEF StepsWithin
    <2>3. PICK g : StepsTo(g, step, n, V, e)
      BY <2>2, StepFunction
    <2>4. QED
      BY <2>1, <2>3 DEF StepsTo
  <1>5. /\ \A k \in 0..Len(ss) : k # 0 => k \in 1..Len(ss)
        /\ \A k \in 1..Len(ss) : k \in 0..Len(ss) /\ k # 0 /\ k - 1 \in 0..Len(ss)
        /\ 0 \in 0..Len(ss)
    BY <1>1
  <1>6. \A k \in 1..Len(ss) : g[k] = g[k - 1] \o ss[k]
    BY <1>3, <1>4, <1>5
  <1>7. g = Whole(g)
    BY <1>4, <1>5, <1>6
  <1>8. Joins(ss) = CHOOSE s : s = Whole(s)
    BY Zenon DEF Joins
  <1>9. PICK s : s = Joins(ss)
    OBVIOUS
  <1>10. s = Whole(s)
    <2> HIDE DEF Whole
    <2>1. QED
      BY <1>7, <1>8, <1>9, Zenon
  <1>11. /\ s[0] = << >> /\ \A k \in 1..Len(ss) : s[k] = s[k - 1] \o ss[k]
    BY <1>5, <1>10
  <1>12. s \in [0..Len(ss) -> {s[k] : k \in 0..Len(ss)}]
    BY <1>10
  <1>13. \A k \in 0..Len(ss) : s[k] = g[k]
    <2> DEFINE rank == [k \in 0..Len(ss) |-> k]
    <2>1. rank \in [0..Len(ss) -> Nat]
      BY <1>1
    <2>2. ASSUME NEW k \in 0..Len(ss), \A l \in 0..Len(ss) : rank[l] < rank[k] => s[l] = g[l]
          PROVE  s[k] = g[k]
      <3>1. k = 0 \/ (k \in 1..Len(ss) /\ k - 1 < k)
        BY <1>1, <1>5
      <3>2. k = 0 \/ s[k - 1] = g[k - 1]
        BY <1>5, <2>2, <3>1
      <3>3. QED
        BY <1>4, <1>6, <1>11, <3>1, <3>2
    <2>3. LowerDecide(s, g, 0..Len(ss), rank)
      BY <2>2 DEF LowerDecide
    <2>4. PICK D, r : D = 0..Len(ss) /\ r = rank
      OBVIOUS
    <2> HIDE DEF rank
    <2>5. r \in [D -> Nat] /\ LowerDecide(s, g, D, r)
      BY <2>1, <2>3, <2>4, Zenon
    <2>6. \A k \in D : s[k] = g[k]
      BY <2>5, UniqueFunction
    <2>7. QED
      BY <2>4, <2>6
  <1>14. s \in [0..Len(ss) -> Seq(S)]
    BY <1>4, <1>12, <1>13
  <1>15. QED
    BY <1>9, <1>11, <1>14, Zenon

-----------------------------------------------------------------------------
(* Lengths. *)

\* A varint takes a byte at least, and no fewer for a greater number.
LEMMA VarintFacts ==
    ASSUME NEW n \in Nat
    PROVE  VarintLen[n] \in Nat \ {0} /\ VarintLen[n] <= 1 + Cardinality(VarintSteps)
  <1>1. PICK c : c = Cardinality({k \in VarintSteps : k <= n})
    OBVIOUS
  <1>2. c \in Nat /\ c <= Cardinality(VarintSteps)
    BY <1>1, LengthAssumption, CountUpTo DEF LengthAssumption
  <1>3. VarintLen[n] = 1 + c
    BY <1>1 DEF VarintLen
  <1>4. Cardinality(VarintSteps) \in Nat
    BY LengthAssumption, FS_CardinalityType DEF LengthAssumption
  <1>5. QED
    BY <1>2, <1>3, <1>4

\* The varint of a larger number is no shorter.
LEMMA VarintGrows ==
    ASSUME NEW m \in Nat, NEW n \in Nat, m <= n
    PROVE  VarintLen[m] <= VarintLen[n]
  <1>1. PICK a, b : /\ a = Cardinality({k \in VarintSteps : k <= m})
                    /\ b = Cardinality({k \in VarintSteps : k <= n})
    OBVIOUS
  <1>2. VarintSteps \subseteq Int /\ IsFiniteSet(VarintSteps)
    BY LengthAssumption DEF LengthAssumption
  <1>3. a <= b
    <2>1. m \in Int /\ n \in Int
      OBVIOUS
    <2>2. Cardinality({k \in VarintSteps : k <= m}) <= Cardinality({k \in VarintSteps : k <= n})
      BY <1>2, <2>1, CountGrows
    <2>3. QED
      BY <1>1, <2>2, Zenon
  <1>4. a \in Nat /\ b \in Nat
    BY <1>1, <1>2, CountUpTo
  <1>5. VarintLen[m] = 1 + a /\ VarintLen[n] = 1 + b
    BY <1>1 DEF VarintLen
  <1>6. QED
    BY <1>3, <1>4, <1>5

\* What is written behind free room: messages, and packed runs when whole.
Boxed(f) == Typ[f] = "message" \/ Packed[f]

\* How many bytes a value adds, of any length, SIZE_MAX for a message included.
LEMMA AddedFacts ==
    ASSUME NEW f \in Field, NEW n \in Nat, NEW raw \in BOOLEAN
    PROVE  AddedLen(f, n, raw) \in Nat
  <1>1. KeyLen[f] \in Nat /\ VarintLen[n] \in Nat
    BY LengthAssumption, VarintFacts DEF LengthAssumption
  <1>2. PICK w : w = WireTypeAs(f, raw)
    OBVIOUS
  <1>3. n # SizeMax
    BY DEF SizeMax
  <1>4. HeaderLen(f, n, raw) \in Nat
    BY <1>1, <1>2, <1>3 DEF HeaderLen
  <1>5. BodyLen(f, n, raw) \in Nat
    BY <1>2 DEF BodyLen
  <1>6. QED
    BY <1>4, <1>5 DEF AddedLen

LEMMA AddedErrorFacts ==
    ASSUME NEW f \in Field, Typ[f] = "message", NEW raw \in BOOLEAN
    PROVE  AddedLen(f, SizeMax, raw) \in Nat
  <1>1. KeyLen[f] \in Nat
    BY LengthAssumption DEF LengthAssumption
  <1>2. WireTypeAs(f, raw) = "STRING"
    BY DEF WireTypeAs, WireType
  <1>3. HeaderLen(f, SizeMax, raw) = (IF raw THEN 0 ELSE KeyLen[f]) + 10
    BY <1>2 DEF HeaderLen, SizeMaxLen
  <1>4. BodyLen(f, SizeMax, raw) = -1
    BY <1>2 DEF BodyLen, SizeMax
  <1>5. QED
    BY <1>1, <1>3, <1>4 DEF AddedLen

\* A message or a whole packed run has a key and a length before it.
LEMMA BoxedLen ==
    ASSUME NEW f \in Field, Boxed(f), NEW n \in Nat
    PROVE  AddedLen(f, n, FALSE) = KeyLen[f] + VarintLen[n] + n
  <1>1. KeyLen[f] \in Nat /\ VarintLen[n] \in Nat
    BY LengthAssumption, VarintFacts DEF LengthAssumption
  <1>2. WireTypeAs(f, FALSE) = "STRING"
    BY DEF WireTypeAs, WireType, Boxed
  <1>3. HeaderLen(f, n, FALSE) = KeyLen[f] + VarintLen[n]
    BY <1>1, <1>2 DEF HeaderLen, SizeMax
  <1>4. BodyLen(f, n, FALSE) = n
    BY <1>2 DEF BodyLen
  <1>5. QED
    BY <1>1, <1>3, <1>4 DEF AddedLen

\* More bytes in an enclosed value take no less room.
LEMMA BoxedGrows ==
    ASSUME NEW f \in Field, Boxed(f), NEW m \in Nat, NEW n \in Nat, m <= n
    PROVE  AddedLen(f, m, FALSE) <= AddedLen(f, n, FALSE) /\ m <= AddedLen(f, m, FALSE)
  <1>1. KeyLen[f] \in Nat /\ VarintLen[m] \in Nat /\ VarintLen[n] \in Nat
    BY LengthAssumption, VarintFacts DEF LengthAssumption
  <1>2. VarintLen[m] <= VarintLen[n]
    BY VarintGrows
  <1>3. PICK a, b : a = AddedLen(f, m, FALSE) /\ b = AddedLen(f, n, FALSE)
    OBVIOUS
  <1>4. a = KeyLen[f] + VarintLen[m] + m /\ b = KeyLen[f] + VarintLen[n] + n
    BY <1>3, BoxedLen
  <1>5. a <= b /\ m <= a
    BY <1>1, <1>2, <1>4
  <1>6. QED
    BY <1>3, <1>5, Zenon

-----------------------------------------------------------------------------
(* The functions on records are what their definitions say. *)

\* The fields of a message.
LEMMA OrderFacts ==
    ASSUME NEW m \in Msg
    PROVE  /\ IsSeq(FieldOrder[m]) /\ Len(FieldOrder[m]) \in Nat
           /\ \A i \in 1..Len(FieldOrder[m]) :
                 FieldOrder[m][i] \in Field /\ FieldOrder[m][i] \in FieldsOf[m]
           /\ \A f \in FieldsOf[m] : \E i \in 1..Len(FieldOrder[m]) : f = FieldOrder[m][i]
  <1>1. FieldOrder[m] \in Seq(Field)
    BY OrderAssumption DEF OrderAssumption
  <1>2. IsSeq(FieldOrder[m])
    BY <1>1, SeqIsSeq
  <1>3. Len(FieldOrder[m]) \in Nat /\ DOMAIN FieldOrder[m] = 1..Len(FieldOrder[m])
    BY <1>2, SeqFacts
  <1>4. {FieldOrder[m][i] : i \in DOMAIN FieldOrder[m]} = FieldsOf[m]
    BY OrderAssumption DEF OrderAssumption
  <1>5. \A i \in 1..Len(FieldOrder[m]) : FieldOrder[m][i] \in FieldsOf[m]
    BY <1>3, <1>4
  <1>6. FieldsOf[m] \subseteq Field
    BY FieldAssumption DEF FieldAssumption
  <1>7. \A f \in FieldsOf[m] : \E i \in 1..Len(FieldOrder[m]) : f = FieldOrder[m][i]
    BY <1>3, <1>4
  <1>8. QED
    BY <1>2, <1>3, <1>5, <1>6, <1>7

\* The values of a field of an object.
LEMMA ObjectFacts ==
    ASSUME NEW o \in Object, NEW f \in DOMAIN o.of
    PROVE  /\ IsSeq(o.of[f]) /\ Len(o.of[f]) \in Nat
           /\ DOMAIN o.of[f] = 1..Len(o.of[f])
           /\ \A i \in 1..Len(o.of[f]) :
                 /\ o.of[f][i] \in Object
                 /\ Height[o.of[f][i]] < Height[o]
  <1>1. /\ o.of[f] \in Seq(Object)
        /\ \A i \in DOMAIN o.of[f] : Height[o.of[f][i]] < Height[o]
    BY ObjectAssumption DEF ObjectAssumption
  <1>2. PICK q : q = o.of[f]
    OBVIOUS
  <1>3. q \in Seq(Object)
    BY <1>1, <1>2
  <1>4. IsSeq(q)
    BY <1>3, SeqIsSeq
  <1>5. Len(q) \in Nat /\ DOMAIN q = 1..Len(q)
    BY <1>4, SeqFacts
  <1>6. \A i \in 1..Len(q) : q[i] \in Object
    BY <1>3, <1>5
  <1>7. QED
    BY <1>1, <1>2, <1>4, <1>5, <1>6

\* A message field has a message.
LEMMA SubMsgFacts ==
    ASSUME NEW f \in Field
    PROVE  /\ Typ[f] \in {"varint", "fixed", "string", "message"}
           /\ Packed[f] \in BOOLEAN
           /\ Typ[f] = "message" => SubMsg[f] \in Msg /\ ~Packed[f]
  BY FieldAssumption DEF FieldAssumption

\* A function from 1..n is a sequence.
LEMMA FunIsSeq ==
    ASSUME NEW n \in Nat, NEW g, DOMAIN g = 1..n, g = [i \in 1..n |-> g[i]]
    PROVE  IsSeq(g) /\ Len(g) = n
  <1>1. g \in [1..n -> {g[i] : i \in 1..n}]
    OBVIOUS
  <1>2. g \in Seq({g[i] : i \in 1..n})
    BY <1>1, SeqDef
  <1>3. Len(g) \in Nat /\ DOMAIN g = 1..Len(g)
    BY <1>2, LenProperties
  <1>4. Len(g) = n
    BY <1>3
  <1>5. QED
    BY <1>2, <1>4, SeqIsSeq

LEMMA ItemRoomType ==
    ASSUME NEW room \in [Object -> [Msg -> Nat]], NEW f \in Field, NEW x \in Object
    PROVE  ItemRoom(room, f, x) \in Nat
  <1>1. CASE Typ[f] = "message"
    <2>1. room[x][SubMsg[f]] \in Nat
      BY <1>1, SubMsgFacts
    <2>2. AddedLen(f, room[x][SubMsg[f]], FALSE) \in Nat
      BY <2>1, AddedFacts
    <2>3. PICK a \in Nat : a = AddedLen(f, room[x][SubMsg[f]], FALSE)
      BY <2>2
    <2>4. ItemRoom(room, f, x) = 10 + a
      BY <1>1, <2>3 DEF ItemRoom, MSG_RESERVE_BYTES
    <2>5. QED
      BY <2>4
  <1>2. CASE Typ[f] # "message"
    <2>1. x.n \in Nat /\ Packed[f] \in BOOLEAN
      BY ObjectAssumption, SubMsgFacts DEF ObjectAssumption
    <2>2. AddedLen(f, x.n, Packed[f]) \in Nat
      BY <2>1, AddedFacts
    <2>3. QED
      BY <1>2, <2>2 DEF ItemRoom
  <1>3. QED
    BY <1>1, <1>2

LEMMA ItemsRoomFacts ==
    ASSUME NEW room \in [Object -> [Msg -> Nat]], NEW f \in Field,
           NEW o \in Object, f \in DOMAIN o.of
    PROVE  /\ ItemsRoom(room, o, f) \in [0..Len(o.of[f]) -> Nat]
           /\ ItemsRoom(room, o, f)[0] = 0
           /\ \A i \in 1..Len(o.of[f]) :
                 ItemsRoom(room, o, f)[i] =
                    ItemsRoom(room, o, f)[i - 1] + ItemRoom(room, f, o.of[f][i])
  <1>1. PICK n : n = Len(o.of[f])
    OBVIOUS
  <1>2. n \in Nat /\ \A i \in 1..n : o.of[f][i] \in Object
    BY <1>1, ObjectFacts
  <1>3. PICK ns : ns = [i \in 1..n |-> ItemRoom(room, f, o.of[f][i])]
    OBVIOUS
  <1>4. IsSeq(ns) /\ Len(ns) = n
    <2>1. DOMAIN ns = 1..n /\ ns = [i \in 1..n |-> ns[i]]
      BY <1>3
    <2>2. QED
      BY <1>2, <2>1, FunIsSeq
  <1>5. \A i \in 1..n : ItemRoom(room, f, o.of[f][i]) \in Nat
    BY <1>2, ItemRoomType
  <1>6. \A i \in 1..n : ns[i] \in Nat /\ ns[i] = ItemRoom(room, f, o.of[f][i])
    BY <1>3, <1>5
  <1>7. /\ Sums(ns) \in [0..n -> Nat] /\ Sums(ns)[0] = 0
        /\ \A k \in 1..n : Sums(ns)[k] = Sums(ns)[k - 1] + ns[k]
    BY <1>4, <1>6, SumsFacts
  <1>8. ItemsRoom(room, o, f) = Sums(ns)
    BY <1>1, <1>3, Zenon DEF ItemsRoom
  <1>9. QED
    BY <1>1, <1>6, <1>7, <1>8

LEMMA FieldRoomType ==
    ASSUME NEW room \in [Object -> [Msg -> Nat]], NEW f \in Field, NEW o \in Object
    PROVE  FieldRoom(room, o, f) \in Nat
  <1>1. CASE f \notin DOMAIN o.of
    BY <1>1 DEF FieldRoom
  <1>2. CASE f \in DOMAIN o.of
    <2>1. PICK n : n = ItemsRoom(room, o, f)[Len(o.of[f])]
      OBVIOUS
    <2>2. n \in Nat
      <3>1. PICK l : l = Len(o.of[f])
        OBVIOUS
      <3>2. l \in Nat
        BY <1>2, <3>1, ObjectFacts
      <3>3. ItemsRoom(room, o, f) \in [0..l -> Nat]
        BY <1>2, <3>1, ItemsRoomFacts
      <3>4. QED
        BY <2>1, <3>1, <3>2, <3>3
    <2>3. PICK a \in Nat : a = AddedLen(f, n, FALSE)
      BY <2>2, AddedFacts
    <2>4. FieldRoom(room, o, f) = IF Packed[f] THEN 10 + a ELSE n
      BY <1>2, <2>1, <2>3 DEF FieldRoom, MSG_RESERVE_BYTES
    <2>5. QED
      BY <2>2, <2>4
  <1>3. QED
    BY <1>1, <1>2

LEMMA FieldsRoomFacts ==
    ASSUME NEW room \in [Object -> [Msg -> Nat]], NEW m \in Msg, NEW o \in Object
    PROVE  /\ FieldsRoom(room, o, m) \in [0..Len(FieldOrder[m]) -> Nat]
           /\ FieldsRoom(room, o, m)[0] = 0
           /\ \A i \in 1..Len(FieldOrder[m]) :
                 FieldsRoom(room, o, m)[i] =
                    FieldsRoom(room, o, m)[i - 1] + FieldRoom(room, o, FieldOrder[m][i])
  <1>1. PICK n : n = Len(FieldOrder[m])
    OBVIOUS
  <1>2. n \in Nat /\ \A i \in 1..n : FieldOrder[m][i] \in Field
    BY <1>1, OrderFacts
  <1>3. PICK ns : ns = [i \in 1..n |-> FieldRoom(room, o, FieldOrder[m][i])]
    OBVIOUS
  <1>4. IsSeq(ns) /\ Len(ns) = n
    <2>1. DOMAIN ns = 1..n /\ ns = [i \in 1..n |-> ns[i]]
      BY <1>3
    <2>2. QED
      BY <1>2, <2>1, FunIsSeq
  <1>5. \A i \in 1..n : FieldRoom(room, o, FieldOrder[m][i]) \in Nat
    BY <1>2, FieldRoomType
  <1>6. \A i \in 1..n : ns[i] \in Nat /\ ns[i] = FieldRoom(room, o, FieldOrder[m][i])
    BY <1>3, <1>5
  <1>7. /\ Sums(ns) \in [0..n -> Nat] /\ Sums(ns)[0] = 0
        /\ \A k \in 1..n : Sums(ns)[k] = Sums(ns)[k - 1] + ns[k]
    BY <1>4, <1>6, SumsFacts
  <1>8. FieldsRoom(room, o, m) = Sums(ns)
    BY <1>1, <1>3, Zenon DEF FieldsRoom
  <1>9. QED
    BY <1>1, <1>6, <1>7, <1>8

\* The definition for an object uses the function for its parts only.
LEMMA RoomAgree ==
    ASSUME NEW g, NEW h, NEW o \in Object, NEW m \in Msg,
           \A y \in Object : Height[y] < Height[o] => g[y] = h[y]
    PROVE  FieldsRoom(g, o, m) = FieldsRoom(h, o, m)
  <1>1. ASSUME NEW f \in DOMAIN o.of PROVE ItemsRoom(g, o, f) = ItemsRoom(h, o, f)
    <2>1. PICK n : n = Len(o.of[f])
      OBVIOUS
    <2>2. \A i \in 1..n : ItemRoom(g, f, o.of[f][i]) = ItemRoom(h, f, o.of[f][i])
      <3> SUFFICES ASSUME NEW i \in 1..n
                   PROVE  ItemRoom(g, f, o.of[f][i]) = ItemRoom(h, f, o.of[f][i])
        OBVIOUS
      <3>1. PICK x : x = o.of[f][i]
        OBVIOUS
      <3>2. x \in Object /\ Height[x] < Height[o]
        BY <2>1, <3>1, ObjectFacts
      <3>3. g[x] = h[x]
        BY <3>2
      <3>4. ItemRoom(g, f, x) = ItemRoom(h, f, x)
        BY <3>3, Zenon DEF ItemRoom
      <3>5. QED
        BY <3>1, <3>4
    <2>3. [i \in 1..n |-> ItemRoom(g, f, o.of[f][i])] = [i \in 1..n |-> ItemRoom(h, f, o.of[f][i])]
      BY <2>2
    <2>4. QED
      BY <2>1, <2>3, Zenon DEF ItemsRoom
  <1>2. ASSUME NEW f PROVE FieldRoom(g, o, f) = FieldRoom(h, o, f)
    <2>1. CASE f \in DOMAIN o.of
      BY <1>1, <2>1, Zenon DEF FieldRoom
    <2>2. CASE f \notin DOMAIN o.of
      BY <2>2, Zenon DEF FieldRoom
    <2>3. QED
      BY <2>1, <2>2
  <1>3. QED
    BY <1>2, Zenon DEF FieldsRoom

\* Room is what its recursive definition says, by well-founded recursion on Height.
LEMMA RoomDef ==
    /\ Room \in [Object -> [Msg -> Nat]]
    /\ \A o \in Object, m \in Msg : Room[o][m] = FieldsRoom(Room, o, m)[Len(FieldOrder[m])]
  <1> DEFINE Of(g, o) == [m \in Msg |-> FieldsRoom(g, o, m)[Len(FieldOrder[m])]]
             Whole(g) == [o \in Object |-> Of(g, o)]
             V == [Msg -> Nat]
  <1>1. ASSUME NEW g, NEW h, NEW o \in Object,
               \A y \in Object : Height[y] < Height[o] => g[y] = h[y]
        PROVE  Of(g, o) = Of(h, o)
    <2>1. \A m \in Msg : FieldsRoom(g, o, m) = FieldsRoom(h, o, m)
      BY <1>1, RoomAgree
    <2>2. QED
      BY <2>1
  <1>2. ASSUME NEW g \in [Object -> V] PROVE Whole(g) \in [Object -> V]
    <2> SUFFICES ASSUME NEW o \in Object, NEW m \in Msg
                 PROVE  FieldsRoom(g, o, m)[Len(FieldOrder[m])] \in Nat
      OBVIOUS
    <2>1. PICK n : n = Len(FieldOrder[m])
      OBVIOUS
    <2>2. n \in Nat
      BY <2>1, OrderFacts
    <2>3. FieldsRoom(g, o, m) \in [0..n -> Nat]
      BY <2>1, FieldsRoomFacts
    <2>4. n \in 0..n
      BY <2>2
    <2>5. FieldsRoom(g, o, m)[n] \in Nat
      BY <2>3, <2>4
    <2>6. QED
      BY <2>1, <2>5, Zenon
  <1>3. PICK F : F = [g \in [Object -> V] |-> Whole(g)]
    OBVIOUS
  <1> HIDE DEF Of
  <1>4. LowerFirst(F, Object, V, Height)
    <2>1. F \in [[Object -> V] -> [Object -> V]]
      <3> HIDE DEF V, Whole
      <3>1. QED
        BY <1>2, <1>3
    <2>2. ASSUME NEW g \in [Object -> V], NEW h \in [Object -> V], NEW o \in Object,
                 \A y \in Object : Height[y] < Height[o] => g[y] = h[y]
          PROVE  F[g][o] = F[h][o]
      <3>1. Of(g, o) = Of(h, o)
        BY <1>1, <2>2
      <3>2. F[g] = Whole(g) /\ F[h] = Whole(h)
        <4> HIDE DEF V, Whole
        <4>1. QED
          BY <1>3
      <3>3. QED
        BY <3>1, <3>2
    <2> HIDE DEF V
    <2>3. QED
      BY <2>1, <2>2 DEF LowerFirst
  <1>5. V # {} /\ Height \in [Object -> Nat]
    <2>1. [m \in Msg |-> 0] \in V
      OBVIOUS
    <2>2. Height \in [Object -> Nat]
      BY ObjectAssumption DEF ObjectAssumption
    <2> HIDE DEF V
    <2>3. QED
      BY <2>1, <2>2
  <1>6. PICK g \in [Object -> V] : F[g] = g
    <2> HIDE DEF V
    <2>1. QED
      BY <1>4, <1>5, RecursiveFunction
  <1>7. g = Whole(g)
    <2> HIDE DEF V, Whole
    <2>1. QED
      BY <1>3, <1>6
  <1>8. Room = CHOOSE r : r = Whole(r)
    BY Zenon DEF Room, Of
  <1>9. PICK r : r = Room
    OBVIOUS
  <1>10. r = Whole(r)
    <2> HIDE DEF Whole
    <2>1. QED
      BY <1>7, <1>8, <1>9, Zenon
  <1>11. \A o \in Object : r[o] = Of(r, o) /\ g[o] = Of(g, o)
    BY <1>7, <1>10
  <1>12. LowerDecide(r, g, Object, Height)
    BY <1>1, <1>11 DEF LowerDecide
  <1>13. \A o \in Object : r[o] = g[o]
    BY <1>5, <1>12, UniqueFunction
  <1>14. r \in [Object -> V]
    BY <1>6, <1>10, <1>13
  <1>15. QED
    BY <1>9, <1>11, <1>14 DEF Of

-----------------------------------------------------------------------------
(* The bytes of a field. *)

\* What an encoding is made of.
Cell == {<<"key", f, wt, i>> : f \in Field, wt \in WireTypes, i \in Nat}
        \cup {<<"len", n, i>> : n \in Nat, i \in Nat}
        \cup {<<"val", f, n, i>> : f \in Field, n \in Nat, i \in Nat}

\* A function on 1..n to a set is a sequence over it.
LEMMA CellSeq ==
    ASSUME NEW n \in Nat, NEW g, DOMAIN g = 1..n, g = [i \in 1..n |-> g[i]],
           \A i \in 1..n : g[i] \in Cell
    PROVE  g \in Seq(Cell) /\ Len(g) = n
  <1> HIDE DEF Cell
  <1>1. g \in [1..n -> Cell]
    OBVIOUS
  <1>2. g \in Seq(Cell)
    BY <1>1, SeqDef
  <1>3. Len(g) \in Nat /\ DOMAIN g = 1..Len(g)
    BY <1>2, LenProperties
  <1>4. Len(g) = n
    BY <1>3
  <1>5. QED
    BY <1>2, <1>4

LEMMA CellConcat ==
    ASSUME NEW s \in Seq(Cell), NEW t \in Seq(Cell)
    PROVE  s \o t \in Seq(Cell) /\ Len(s \o t) = Len(s) + Len(t)
  BY ConcatProperties

LEMMA KeyFacts ==
    ASSUME NEW f \in Field, NEW wt \in WireTypes
    PROVE  KeyBytes(f, wt) \in Seq(Cell) /\ Len(KeyBytes(f, wt)) = KeyLen[f]
  <1>1. KeyLen[f] \in Nat
    BY LengthAssumption DEF LengthAssumption
  <1>2. PICK g : g = KeyBytes(f, wt)
    OBVIOUS
  <1>3. DOMAIN g = 1..KeyLen[f] /\ g = [i \in 1..KeyLen[f] |-> g[i]]
    BY <1>2 DEF KeyBytes
  <1>4. \A i \in 1..KeyLen[f] : g[i] \in Cell
    <2>1. \A i \in 1..KeyLen[f] : g[i] = <<"key", f, wt, i>> /\ i \in Nat
      BY <1>1, <1>2 DEF KeyBytes
    <2>2. QED
      BY <2>1 DEF Cell
  <1>5. g \in Seq(Cell) /\ Len(g) = KeyLen[f]
    BY <1>1, <1>3, <1>4, CellSeq
  <1>6. QED
    BY <1>2, <1>5

LEMMA LenFacts ==
    ASSUME NEW n \in Nat
    PROVE  LenBytes(n) \in Seq(Cell) /\ Len(LenBytes(n)) = VarintLen[n]
  <1>1. VarintLen[n] \in Nat
    BY VarintFacts
  <1>2. PICK g : g = LenBytes(n)
    OBVIOUS
  <1>3. DOMAIN g = 1..VarintLen[n] /\ g = [i \in 1..VarintLen[n] |-> g[i]]
    BY <1>2 DEF LenBytes
  <1>4. \A i \in 1..VarintLen[n] : g[i] \in Cell
    <2>1. \A i \in 1..VarintLen[n] : g[i] = <<"len", n, i>> /\ i \in Nat
      BY <1>1, <1>2 DEF LenBytes
    <2>2. QED
      BY <2>1 DEF Cell
  <1>5. g \in Seq(Cell) /\ Len(g) = VarintLen[n]
    BY <1>1, <1>3, <1>4, CellSeq
  <1>6. QED
    BY <1>2, <1>5

LEMMA ValueFacts ==
    ASSUME NEW f \in Field, NEW n \in Nat
    PROVE  ValueBytes(f, n) \in Seq(Cell) /\ Len(ValueBytes(f, n)) = n
  <1>1. PICK g : g = ValueBytes(f, n)
    OBVIOUS
  <1>2. DOMAIN g = 1..n /\ g = [i \in 1..n |-> g[i]]
    BY <1>1 DEF ValueBytes
  <1>3. \A i \in 1..n : g[i] \in Cell
    <2>1. \A i \in 1..n : g[i] = <<"val", f, n, i>> /\ i \in Nat
      BY <1>1 DEF ValueBytes
    <2>2. QED
      BY <2>1 DEF Cell
  <1>4. g \in Seq(Cell) /\ Len(g) = n
    BY <1>2, <1>3, CellSeq
  <1>5. QED
    BY <1>1, <1>4

LEMMA HeaderFacts ==
    ASSUME NEW f \in Field, NEW n \in Nat, NEW raw \in BOOLEAN
    PROVE  Header(f, n, raw) \in Seq(Cell) /\ Len(Header(f, n, raw)) = HeaderLen(f, n, raw)
  <1>1. PICK wt : wt = WireTypeAs(f, raw)
    OBVIOUS
  <1>2. wt \in WireTypes
    BY <1>1 DEF WireTypeAs, WireType, WireTypes
  <1>3. << >> \in Seq(Cell) /\ Len(<< >>) = 0
    BY EmptySeq
  <1>4. PICK a : a = IF raw THEN << >> ELSE KeyBytes(f, wt)
    OBVIOUS
  <1>5. a \in Seq(Cell) /\ Len(a) = IF raw THEN 0 ELSE KeyLen[f]
    BY <1>2, <1>3, <1>4, KeyFacts
  <1>6. PICK b : b = CASE wt = "VARINT" -> ValueBytes(f, n)
                       [] wt = "STRING" -> LenBytes(n)
                       [] OTHER         -> << >>
    OBVIOUS
  <1>7. PICK l : l = CASE wt = "VARINT" -> n
                       [] wt = "STRING" -> VarintLen[n]
                       [] OTHER -> 0
    OBVIOUS
  <1>8. b \in Seq(Cell) /\ Len(b) = l
    <2>1. CASE wt = "VARINT"
      <3>1. b = ValueBytes(f, n) /\ l = n
        BY <1>6, <1>7, <2>1
      <3>2. QED
        BY <3>1, ValueFacts
    <2>2. CASE wt = "STRING"
      <3>1. b = LenBytes(n) /\ l = VarintLen[n]
        BY <1>6, <1>7, <2>2
      <3>2. QED
        BY <3>1, LenFacts
    <2>3. CASE wt # "VARINT" /\ wt # "STRING"
      <3>1. b = << >> /\ l = 0
        BY <1>6, <1>7, <2>3
      <3>2. QED
        BY <1>3, <3>1
    <2>4. QED
      BY <2>1, <2>2, <2>3
  <1>9. Header(f, n, raw) = a \o b
    BY <1>1, <1>4, <1>6, Zenon DEF Header
  <1>10. n # SizeMax
    BY DEF SizeMax
  <1>11. HeaderLen(f, n, raw) = Len(a) + Len(b)
    BY <1>1, <1>5, <1>7, <1>8, <1>10 DEF HeaderLen
  <1>12. a \o b \in Seq(Cell) /\ Len(a \o b) = Len(a) + Len(b)
    BY <1>5, <1>8, CellConcat
  <1>13. QED
    BY <1>9, <1>11, <1>12

LEMMA ScalarFacts ==
    ASSUME NEW f \in Field, NEW n \in Nat, NEW raw \in BOOLEAN
    PROVE  /\ ScalarBytes(f, n, raw) \in Seq(Cell)
           /\ Len(ScalarBytes(f, n, raw)) = AddedLen(f, n, raw)
  <1>1. PICK h : h = Header(f, n, raw)
    OBVIOUS
  <1>2. h \in Seq(Cell) /\ Len(h) = HeaderLen(f, n, raw)
    BY <1>1, HeaderFacts
  <1>3. PICK l : l = BodyLen(f, n, raw)
    OBVIOUS
  <1>4. l \in 0..n
    BY <1>3 DEF BodyLen
  <1>5. PICK b : b = SubSeq(ValueBytes(f, n), 1, l)
    OBVIOUS
  <1>6. b \in Seq(Cell) /\ Len(b) = l
    <2>1. PICK v : v = ValueBytes(f, n)
      OBVIOUS
    <2>2. v \in Seq(Cell) /\ Len(v) = n
      BY <2>1, ValueFacts
    <2>3. PICK w : w = SubSeq(v, 1, l)
      OBVIOUS
    <2>4. w \in Seq(Cell) /\ Len(w) = l
      BY <1>4, <2>2, <2>3
    <2>5. QED
      BY <1>5, <2>1, <2>3, <2>4, Zenon
  <1>7. ScalarBytes(f, n, raw) = h \o b
    BY <1>1, <1>3, <1>5, Zenon DEF ScalarBytes
  <1>8. h \o b \in Seq(Cell) /\ Len(h \o b) = Len(h) + Len(b)
    BY <1>2, <1>6, CellConcat
  <1>9. AddedLen(f, n, raw) = Len(h) + Len(b)
    BY <1>2, <1>3, <1>6 DEF AddedLen
  <1>10. QED
    BY <1>7, <1>8, <1>9

LEMMA EnclosedFacts ==
    ASSUME NEW f \in Field, NEW bytes \in Seq(Cell)
    PROVE  Enclosed(f, bytes) \in Seq(Cell)
  <1>1. Len(bytes) \in Nat
    BY LenProperties
  <1>2. Header(f, Len(bytes), FALSE) \in Seq(Cell)
    BY <1>1, HeaderFacts
  <1>3. QED
    BY <1>2, CellConcat DEF Enclosed

-----------------------------------------------------------------------------
(* Encodings are sequences of cells. *)

LEMMA ItemBytesType ==
    ASSUME NEW enc \in [Object -> [Msg -> Seq(Cell)]], NEW f \in Field, NEW x \in Object
    PROVE  ItemBytes(enc, f, x) \in Seq(Cell)
  <1>1. CASE Typ[f] = "message"
    <2>1. PICK b : b = enc[x][SubMsg[f]]
      OBVIOUS
    <2>2. b \in Seq(Cell)
      BY <1>1, <2>1, SubMsgFacts
    <2>3. Enclosed(f, b) \in Seq(Cell)
      BY <2>2, EnclosedFacts
    <2>4. ItemBytes(enc, f, x) = Enclosed(f, b)
      BY <1>1, <2>1 DEF ItemBytes
    <2>5. QED
      BY <2>3, <2>4
  <1>2. CASE Typ[f] # "message"
    <2>1. x.n \in Nat /\ Packed[f] \in BOOLEAN
      BY ObjectAssumption, SubMsgFacts DEF ObjectAssumption
    <2>2. ScalarBytes(f, x.n, Packed[f]) \in Seq(Cell)
      BY <2>1, ScalarFacts
    <2>3. QED
      BY <1>2, <2>2 DEF ItemBytes
  <1>3. QED
    BY <1>1, <1>2

LEMMA ItemsBytesFacts ==
    ASSUME NEW enc \in [Object -> [Msg -> Seq(Cell)]], NEW f \in Field,
           NEW o \in Object, f \in DOMAIN o.of
    PROVE  /\ ItemsBytes(enc, o, f) \in [0..Len(o.of[f]) -> Seq(Cell)]
           /\ ItemsBytes(enc, o, f)[0] = << >>
           /\ \A i \in 1..Len(o.of[f]) :
                 ItemsBytes(enc, o, f)[i] =
                    ItemsBytes(enc, o, f)[i - 1] \o ItemBytes(enc, f, o.of[f][i])
  <1>1. PICK n : n = Len(o.of[f])
    OBVIOUS
  <1>2. n \in Nat /\ \A i \in 1..n : o.of[f][i] \in Object
    BY <1>1, ObjectFacts
  <1>3. PICK ns : ns = [i \in 1..n |-> ItemBytes(enc, f, o.of[f][i])]
    OBVIOUS
  <1>4. IsSeq(ns) /\ Len(ns) = n
    <2>1. DOMAIN ns = 1..n /\ ns = [i \in 1..n |-> ns[i]]
      BY <1>3
    <2>2. QED
      BY <1>2, <2>1, FunIsSeq
  <1>5. \A i \in 1..n : ItemBytes(enc, f, o.of[f][i]) \in Seq(Cell)
    BY <1>2, ItemBytesType
  <1>6. \A i \in 1..n : ns[i] \in Seq(Cell) /\ ns[i] = ItemBytes(enc, f, o.of[f][i])
    BY <1>3, <1>5
  <1>7. /\ Joins(ns) \in [0..n -> Seq(Cell)] /\ Joins(ns)[0] = << >>
        /\ \A k \in 1..n : Joins(ns)[k] = Joins(ns)[k - 1] \o ns[k]
    BY <1>4, <1>6, JoinsFacts
  <1>8. ItemsBytes(enc, o, f) = Joins(ns)
    BY <1>1, <1>3, Zenon DEF ItemsBytes
  <1>9. QED
    BY <1>1, <1>6, <1>7, <1>8

LEMMA FieldBytesType ==
    ASSUME NEW enc \in [Object -> [Msg -> Seq(Cell)]], NEW f \in Field, NEW o \in Object
    PROVE  FieldBytes(enc, o, f) \in Seq(Cell)
  <1>1. CASE f \notin DOMAIN o.of
    BY <1>1, EmptySeq DEF FieldBytes
  <1>2. CASE f \in DOMAIN o.of
    <2>1. PICK b : b = ItemsBytes(enc, o, f)[Len(o.of[f])]
      OBVIOUS
    <2>2. b \in Seq(Cell)
      <3>1. PICK l : l = Len(o.of[f])
        OBVIOUS
      <3>2. l \in Nat
        BY <1>2, <3>1, ObjectFacts
      <3>3. ItemsBytes(enc, o, f) \in [0..l -> Seq(Cell)]
        BY <1>2, <3>1, ItemsBytesFacts
      <3>4. l \in 0..l
        BY <3>2
      <3>5. ItemsBytes(enc, o, f)[l] \in Seq(Cell)
        BY <3>3, <3>4
      <3>6. QED
        BY <2>1, <3>1, <3>5, Zenon
    <2>3. Enclosed(f, b) \in Seq(Cell)
      BY <2>2, EnclosedFacts
    <2>4. FieldBytes(enc, o, f) = IF Packed[f] THEN Enclosed(f, b) ELSE b
      BY <1>2, <2>1 DEF FieldBytes
    <2>5. QED
      BY <2>2, <2>3, <2>4
  <1>3. QED
    BY <1>1, <1>2

LEMMA FieldsBytesFacts ==
    ASSUME NEW enc \in [Object -> [Msg -> Seq(Cell)]], NEW m \in Msg, NEW o \in Object
    PROVE  /\ FieldsBytes(enc, o, m) \in [0..Len(FieldOrder[m]) -> Seq(Cell)]
           /\ FieldsBytes(enc, o, m)[0] = << >>
           /\ \A i \in 1..Len(FieldOrder[m]) :
                 FieldsBytes(enc, o, m)[i] =
                    FieldsBytes(enc, o, m)[i - 1] \o FieldBytes(enc, o, FieldOrder[m][i])
  <1>1. PICK n : n = Len(FieldOrder[m])
    OBVIOUS
  <1>2. n \in Nat /\ \A i \in 1..n : FieldOrder[m][i] \in Field
    BY <1>1, OrderFacts
  <1>3. PICK ns : ns = [i \in 1..n |-> FieldBytes(enc, o, FieldOrder[m][i])]
    OBVIOUS
  <1>4. IsSeq(ns) /\ Len(ns) = n
    <2>1. DOMAIN ns = 1..n /\ ns = [i \in 1..n |-> ns[i]]
      BY <1>3
    <2>2. QED
      BY <1>2, <2>1, FunIsSeq
  <1>5. \A i \in 1..n : FieldBytes(enc, o, FieldOrder[m][i]) \in Seq(Cell)
    BY <1>2, FieldBytesType
  <1>6. \A i \in 1..n : ns[i] \in Seq(Cell) /\ ns[i] = FieldBytes(enc, o, FieldOrder[m][i])
    BY <1>3, <1>5
  <1>7. /\ Joins(ns) \in [0..n -> Seq(Cell)] /\ Joins(ns)[0] = << >>
        /\ \A k \in 1..n : Joins(ns)[k] = Joins(ns)[k - 1] \o ns[k]
    BY <1>4, <1>6, JoinsFacts
  <1>8. FieldsBytes(enc, o, m) = Joins(ns)
    BY <1>1, <1>3, Zenon DEF FieldsBytes
  <1>9. QED
    BY <1>1, <1>6, <1>7, <1>8

\* The encoding of an object depends on the encodings of its parts only.
LEMMA EncodedAgree ==
    ASSUME NEW g, NEW h, NEW o \in Object, NEW m \in Msg,
           \A y \in Object : Height[y] < Height[o] => g[y] = h[y]
    PROVE  FieldsBytes(g, o, m) = FieldsBytes(h, o, m)
  <1>1. ASSUME NEW f \in DOMAIN o.of PROVE ItemsBytes(g, o, f) = ItemsBytes(h, o, f)
    <2>1. PICK n : n = Len(o.of[f])
      OBVIOUS
    <2>2. \A i \in 1..n : ItemBytes(g, f, o.of[f][i]) = ItemBytes(h, f, o.of[f][i])
      <3> SUFFICES ASSUME NEW i \in 1..n
                   PROVE  ItemBytes(g, f, o.of[f][i]) = ItemBytes(h, f, o.of[f][i])
        OBVIOUS
      <3>1. PICK x : x = o.of[f][i]
        OBVIOUS
      <3>2. x \in Object /\ Height[x] < Height[o]
        BY <2>1, <3>1, ObjectFacts
      <3>3. g[x] = h[x]
        BY <3>2
      <3>4. ItemBytes(g, f, x) = ItemBytes(h, f, x)
        BY <3>3, Zenon DEF ItemBytes
      <3>5. QED
        BY <3>1, <3>4
    <2>3. [i \in 1..n |-> ItemBytes(g, f, o.of[f][i])] = [i \in 1..n |-> ItemBytes(h, f, o.of[f][i])]
      BY <2>2
    <2>4. QED
      BY <2>1, <2>3, Zenon DEF ItemsBytes
  <1>2. ASSUME NEW f PROVE FieldBytes(g, o, f) = FieldBytes(h, o, f)
    <2>1. CASE f \in DOMAIN o.of
      BY <1>1, <2>1, Zenon DEF FieldBytes
    <2>2. CASE f \notin DOMAIN o.of
      BY <2>2, Zenon DEF FieldBytes
    <2>3. QED
      BY <2>1, <2>2
  <1>3. QED
    BY <1>2, Zenon DEF FieldsBytes

\* Encoded is what its recursive definition says.
LEMMA EncodedDef ==
    /\ Encoded \in [Object -> [Msg -> Seq(Cell)]]
    /\ \A o \in Object, m \in Msg : Encoded[o][m] = FieldsBytes(Encoded, o, m)[Len(FieldOrder[m])]
  <1> DEFINE Of(g, o) == [m \in Msg |-> FieldsBytes(g, o, m)[Len(FieldOrder[m])]]
             Whole(g) == [o \in Object |-> Of(g, o)]
             V == [Msg -> Seq(Cell)]
  <1>1. ASSUME NEW g, NEW h, NEW o \in Object,
               \A y \in Object : Height[y] < Height[o] => g[y] = h[y]
        PROVE  Of(g, o) = Of(h, o)
    <2>1. \A m \in Msg : FieldsBytes(g, o, m) = FieldsBytes(h, o, m)
      BY <1>1, EncodedAgree
    <2>2. QED
      BY <2>1
  <1>2. ASSUME NEW g \in [Object -> V] PROVE Whole(g) \in [Object -> V]
    <2> SUFFICES ASSUME NEW o \in Object, NEW m \in Msg
                 PROVE  FieldsBytes(g, o, m)[Len(FieldOrder[m])] \in Seq(Cell)
      OBVIOUS
    <2>1. PICK n : n = Len(FieldOrder[m])
      OBVIOUS
    <2>2. n \in Nat
      BY <2>1, OrderFacts
    <2>3. FieldsBytes(g, o, m) \in [0..n -> Seq(Cell)]
      BY <2>1, FieldsBytesFacts
    <2>4. n \in 0..n
      BY <2>2
    <2>5. FieldsBytes(g, o, m)[n] \in Seq(Cell)
      BY <2>3, <2>4
    <2>6. QED
      BY <2>1, <2>5, Zenon
  <1>3. PICK F : F = [g \in [Object -> V] |-> Whole(g)]
    OBVIOUS
  <1> HIDE DEF Of
  <1>4. LowerFirst(F, Object, V, Height)
    <2>1. F \in [[Object -> V] -> [Object -> V]]
      <3> HIDE DEF V, Whole
      <3>1. QED
        BY <1>2, <1>3
    <2>2. ASSUME NEW g \in [Object -> V], NEW h \in [Object -> V], NEW o \in Object,
                 \A y \in Object : Height[y] < Height[o] => g[y] = h[y]
          PROVE  F[g][o] = F[h][o]
      <3>1. Of(g, o) = Of(h, o)
        BY <1>1, <2>2
      <3>2. F[g] = Whole(g) /\ F[h] = Whole(h)
        <4> HIDE DEF V, Whole
        <4>1. QED
          BY <1>3
      <3>3. QED
        BY <3>1, <3>2
    <2> HIDE DEF V
    <2>3. QED
      BY <2>1, <2>2 DEF LowerFirst
  <1>5. V # {} /\ Height \in [Object -> Nat]
    <2>1. [m \in Msg |-> << >>] \in V
      OBVIOUS
    <2>2. Height \in [Object -> Nat]
      BY ObjectAssumption DEF ObjectAssumption
    <2> HIDE DEF V
    <2>3. QED
      BY <2>1, <2>2
  <1>6. PICK g \in [Object -> V] : F[g] = g
    <2> HIDE DEF V
    <2>1. QED
      BY <1>4, <1>5, RecursiveFunction
  <1>7. g = Whole(g)
    <2> HIDE DEF V, Whole
    <2>1. QED
      BY <1>3, <1>6
  <1>8. Encoded = CHOOSE r : r = Whole(r)
    BY Zenon DEF Encoded, Of
  <1>9. PICK r : r = Encoded
    OBVIOUS
  <1>10. r = Whole(r)
    <2> HIDE DEF Whole
    <2>1. QED
      BY <1>7, <1>8, <1>9, Zenon
  <1>11. \A o \in Object : r[o] = Of(r, o) /\ g[o] = Of(g, o)
    BY <1>7, <1>10
  <1>12. LowerDecide(r, g, Object, Height)
    BY <1>1, <1>11 DEF LowerDecide
  <1>13. \A o \in Object : r[o] = g[o]
    BY <1>5, <1>12, UniqueFunction
  <1>14. r \in [Object -> V]
    BY <1>6, <1>10, <1>13
  <1>15. QED
    BY <1>9, <1>11, <1>14 DEF Of

\* A record is well typed when its parts are.
LEMMA TypedDef ==
    /\ WellTyped \in [Object -> [Msg -> BOOLEAN]]
    /\ \A o \in Object, m \in Msg :
          WellTyped[o][m] <=>
             /\ o.kind = "dict"
             /\ \A f \in FieldsOf[m] \cap DOMAIN o.of :
                   \A i \in 1..Len(o.of[f]) : ItemTyped(WellTyped, f, o.of[f][i])
  <1> DEFINE Typed(g, o, m) ==
                /\ o.kind = "dict"
                /\ \A f \in FieldsOf[m] \cap DOMAIN o.of :
                      \A i \in DOMAIN o.of[f] : ItemTyped(g, f, o.of[f][i])
             Of(g, o) == [m \in Msg |-> Typed(g, o, m)]
             Whole(g) == [o \in Object |-> Of(g, o)]
             V == [Msg -> BOOLEAN]
  <1>1. ASSUME NEW g, NEW h, NEW o \in Object,
               \A y \in Object : Height[y] < Height[o] => g[y] = h[y]
        PROVE  Of(g, o) = Of(h, o)
    <2>1. ASSUME NEW f \in DOMAIN o.of, NEW i \in DOMAIN o.of[f]
          PROVE  ItemTyped(g, f, o.of[f][i]) = ItemTyped(h, f, o.of[f][i])
      <3>1. PICK x : x = o.of[f][i]
        OBVIOUS
      <3>2. i \in 1..Len(o.of[f])
        BY ObjectFacts
      <3>3. x \in Object /\ Height[x] < Height[o]
        BY <3>1, <3>2, ObjectFacts
      <3>4. g[x] = h[x]
        BY <1>1, <3>3
      <3>5. ItemTyped(g, f, x) = ItemTyped(h, f, x)
        BY <3>4, Zenon DEF ItemTyped
      <3>6. QED
        BY <3>1, <3>5
    <2>2. \A m \in Msg : Typed(g, o, m) = Typed(h, o, m)
      BY <2>1, Zenon
    <2> HIDE DEF Typed
    <2>3. QED
      BY <2>2
  <1>2. ASSUME NEW g \in [Object -> V] PROVE Whole(g) \in [Object -> V]
    <2>1. \A o, m : Typed(g, o, m) \in BOOLEAN
      OBVIOUS
    <2> HIDE DEF Typed
    <2>2. QED
      BY <2>1
  <1>3. PICK F : F = [g \in [Object -> V] |-> Whole(g)]
    OBVIOUS
  <1> HIDE DEF Of
  <1>4. LowerFirst(F, Object, V, Height)
    <2>1. F \in [[Object -> V] -> [Object -> V]]
      <3> HIDE DEF V, Whole
      <3>1. QED
        BY <1>2, <1>3
    <2>2. ASSUME NEW g \in [Object -> V], NEW h \in [Object -> V], NEW o \in Object,
                 \A y \in Object : Height[y] < Height[o] => g[y] = h[y]
          PROVE  F[g][o] = F[h][o]
      <3>1. Of(g, o) = Of(h, o)
        BY <1>1, <2>2
      <3>2. F[g] = Whole(g) /\ F[h] = Whole(h)
        <4> HIDE DEF V, Whole
        <4>1. QED
          BY <1>3
      <3>3. QED
        BY <3>1, <3>2
    <2> HIDE DEF V
    <2>3. QED
      BY <2>1, <2>2 DEF LowerFirst
  <1>5. V # {} /\ Height \in [Object -> Nat]
    <2>1. [m \in Msg |-> TRUE] \in V
      OBVIOUS
    <2>2. Height \in [Object -> Nat]
      BY ObjectAssumption DEF ObjectAssumption
    <2> HIDE DEF V
    <2>3. QED
      BY <2>1, <2>2
  <1>6. PICK g \in [Object -> V] : F[g] = g
    <2> HIDE DEF V
    <2>1. QED
      BY <1>4, <1>5, RecursiveFunction
  <1>7. g = Whole(g)
    <2> HIDE DEF V, Whole
    <2>1. QED
      BY <1>3, <1>6
  <1>8. WellTyped = CHOOSE r : r = Whole(r)
    BY Zenon DEF WellTyped, Of
  <1>9. PICK r : r = WellTyped
    OBVIOUS
  <1>10. r = Whole(r)
    <2> HIDE DEF Whole
    <2>1. QED
      BY <1>7, <1>8, <1>9, Zenon
  <1>11. \A o \in Object : r[o] = Of(r, o) /\ g[o] = Of(g, o)
    BY <1>7, <1>10
  <1>12. LowerDecide(r, g, Object, Height)
    BY <1>1, <1>11 DEF LowerDecide
  <1>13. \A o \in Object : r[o] = g[o]
    BY <1>5, <1>12, UniqueFunction
  <1>14. r \in [Object -> V]
    BY <1>6, <1>10, <1>13
  <1>15. \A o \in Object, m \in Msg : r[o][m] = Typed(r, o, m)
    <2> HIDE DEF Typed
    <2>1. QED
      BY <1>11 DEF Of
  <1>16. ASSUME NEW o \in Object, NEW m \in Msg
         PROVE  WellTyped[o][m] <=>
                   /\ o.kind = "dict"
                   /\ \A f \in FieldsOf[m] \cap DOMAIN o.of :
                         \A i \in 1..Len(o.of[f]) : ItemTyped(WellTyped, f, o.of[f][i])
    <2>1. \A f \in DOMAIN o.of : DOMAIN o.of[f] = 1..Len(o.of[f])
      BY ObjectFacts
    <2>2. WellTyped[o][m] <=> Typed(WellTyped, o, m)
      <3> HIDE DEF Typed
      <3>1. QED
        BY <1>9, <1>15
    <2>3. QED
      BY <2>1, <2>2, Zenon
  <1>17. QED
    BY <1>9, <1>14, <1>16

-----------------------------------------------------------------------------
(* The stack of calls. *)

\* The innermost call goes on.
LEMMA FramesSet ==
    ASSUME frames \in Seq(FrameType), frames # << >>, NEW n, n = Len(frames),
           NEW fr \in FrameType, SetTop(fr)
    PROVE  /\ n \in Nat \ {0}
           /\ frames' \in Seq(FrameType) /\ Len(frames') = n /\ frames' # << >>
           /\ \A k \in 1..(n - 1) : frames'[k] = frames[k]
           /\ frames'[n] = fr
  <1>1. n \in Nat \ {0}
    BY LenProperties, EmptySeq
  <1>2. frames' = [frames EXCEPT ![n] = fr]
    BY DEF SetTop
  <1>3. n \in 1..Len(frames)
    BY <1>1
  <1> HIDE DEF FrameType
  <1>4. /\ frames' \in Seq(FrameType) /\ Len(frames') = n
        /\ \A k \in 1..n : frames'[k] = IF k = n THEN fr ELSE frames[k]
    BY <1>2, <1>3, ExceptSeq
  <1>5. frames' # << >>
    BY <1>1, <1>4, EmptySeq
  <1>6. \A k \in 1..(n - 1) : k \in 1..n /\ k # n
    BY <1>1
  <1>7. n \in 1..n
    BY <1>1
  <1>8. QED
    BY <1>1, <1>4, <1>5, <1>6, <1>7

\* The innermost call makes another one.
LEMMA FramesPush ==
    ASSUME frames \in Seq(FrameType), frames # << >>, NEW n, n = Len(frames),
           NEW fr \in FrameType, NEW new \in FrameType,
           frames' = Append([frames EXCEPT ![Len(frames)] = fr], new)
    PROVE  /\ n \in Nat \ {0}
           /\ frames' \in Seq(FrameType) /\ Len(frames') = n + 1 /\ frames' # << >>
           /\ \A k \in 1..(n - 1) : frames'[k] = frames[k]
           /\ frames'[n] = fr /\ frames'[n + 1] = new
  <1>1. n \in Nat \ {0}
    BY LenProperties, EmptySeq
  <1>2. PICK s : s = [frames EXCEPT ![n] = fr]
    OBVIOUS
  <1>3. n \in 1..Len(frames)
    BY <1>1
  <1> HIDE DEF FrameType
  <1>4. /\ s \in Seq(FrameType) /\ Len(s) = n
        /\ \A k \in 1..n : s[k] = IF k = n THEN fr ELSE frames[k]
    BY <1>2, <1>3, ExceptSeq
  <1>5. frames' = Append(s, new)
    BY <1>2
  <1>6. /\ frames' \in Seq(FrameType) /\ Len(frames') = n + 1
        /\ \A k \in 1..n : frames'[k] = s[k]
        /\ frames'[n + 1] = new
    BY <1>4, <1>5, AppendProperties
  <1>7. frames' # << >>
    BY <1>1, <1>6, EmptySeq
  <1>8. \A k \in 1..(n - 1) : k \in 1..n /\ k # n
    BY <1>1
  <1>9. n \in 1..n
    BY <1>1
  <1>10. QED
    BY <1>1, <1>4, <1>6, <1>7, <1>8, <1>9

\* The innermost call returns.
LEMMA FramesPop ==
    ASSUME frames \in Seq(FrameType), frames # << >>, NEW n, n = Len(frames),
           NEW r, ReturnWith(r)
    PROVE  /\ n \in Nat \ {0}
           /\ frames' \in Seq(FrameType) /\ Len(frames') = n - 1
           /\ n > 1 => frames' # << >>
           /\ n = 1 => frames' = << >>
           /\ \A k \in 1..(n - 1) : frames'[k] = frames[k]
           /\ ret' = << r >> /\ Len(ret') = 1 /\ ret'[1] = r
  <1>1. n \in Nat \ {0}
    BY LenProperties, EmptySeq
  <1>2. frames' = SubSeq(frames, 1, n - 1) /\ ret' = << r >>
    BY DEF ReturnWith
  <1> HIDE DEF FrameType
  <1>3. n - 1 \in Int /\ 1 \in Int /\ \A i \in 1..(n - 1) : frames[i] \in FrameType
    BY <1>1
  <1>4. /\ SubSeq(frames, 1, n - 1) \in Seq(FrameType)
        /\ Len(SubSeq(frames, 1, n - 1)) = IF 1 <= n - 1 THEN n - 1 - 1 + 1 ELSE 0
        /\ \A i \in 1..(n - 1 - 1 + 1) : SubSeq(frames, 1, n - 1)[i] = frames[1 + i - 1]
    BY <1>3, SubSeqProperties
  <1>5. frames' \in Seq(FrameType) /\ Len(frames') = n - 1
    BY <1>1, <1>2, <1>4
  <1>6. \A k \in 1..(n - 1) : k \in 1..(n - 1 - 1 + 1) /\ 1 + k - 1 = k
    BY <1>1
  <1>7. \A k \in 1..(n - 1) : frames'[k] = frames[k]
    BY <1>2, <1>4, <1>6
  <1>8. (n > 1 => frames' # << >>) /\ (n = 1 => frames' = << >>)
    BY <1>1, <1>5, EmptySeq, SMTT(20)
  <1>9. Len(ret') = 1 /\ ret'[1] = r
    BY <1>2
  <1>10. QED
    BY <1>1, <1>2, <1>5, <1>7, <1>8, <1>9

\* The innermost call.
LEMMA TopFacts ==
    ASSUME WalkInv, frames # << >>, NEW n, n = Len(frames), NEW t, t = frames[n]
    PROVE  /\ n \in Nat \ {0} /\ t \in FrameType /\ t = Top
           /\ t.obj = CallObj(n) /\ t.msg = CallMsg(n)
           /\ FrameWalks(t, ret # << >>)
           /\ ret # << >> => Len(ret) = 1
           /\ Calls = n + Len(ret)
  <1>1. frames \in Seq(FrameType)
    BY DEF WalkInv
  <1>2. n \in Nat \ {0}
    <2> HIDE DEF FrameType
    <2>1. QED
      BY <1>1, LenProperties, EmptySeq
  <1>3. t \in FrameType /\ n \in 1..n
    <2> HIDE DEF FrameType
    <2>1. QED
      BY <1>1, <1>2
  <1>4. ret = << >> \/ ret = << ret[1] >>
    BY DEF WalkInv
  <1>5. Len(ret) = IF ret = << >> THEN 0 ELSE 1
    BY <1>4
  <1>6. n < Calls <=> ret # << >>
    BY <1>2, <1>5 DEF Calls
  <1>7. t.obj = CallObj(n) /\ t.msg = CallMsg(n) /\ FrameWalks(t, n < Calls)
    BY <1>3 DEF WalkInv
  <1>8. FrameWalks(t, ret # << >>)
    BY <1>6, <1>7, Zenon DEF FrameWalks
  <1>9. t = Top
    BY Zenon DEF Top
  <1>10. QED
    BY <1>2, <1>3, <1>5, <1>7, <1>8, <1>9 DEF Calls

\* The field a call is at, and its values.
LEMMA FieldFacts ==
    ASSUME NEW t \in FrameType, t.i <= Len(FieldOrder[t.msg]), NEW f, f = FieldOf(t)
    PROVE  /\ t.obj \in Object /\ t.msg \in Msg /\ t.i \in 1..Len(FieldOrder[t.msg])
           /\ f \in Field /\ f \in FieldsOf[t.msg]
           /\ f \in DOMAIN t.obj.of =>
                 /\ ValuesOf(t) = t.obj.of[f] /\ Len(ValuesOf(t)) \in Nat
                 /\ \A j \in 1..Len(ValuesOf(t)) :
                       ValuesOf(t)[j] \in Object /\ Height[ValuesOf(t)[j]] < Height[t.obj]
  <1>1. t.obj \in Object /\ t.msg \in Msg /\ t.i \in Nat \ {0}
    BY DEF FrameType
  <1>2. t.i \in 1..Len(FieldOrder[t.msg])
    BY <1>1, OrderFacts
  <1>3. f \in Field /\ f \in FieldsOf[t.msg]
    BY <1>1, <1>2, OrderFacts DEF FieldOf
  <1>4. f \in DOMAIN t.obj.of => ValuesOf(t) = t.obj.of[f]
    BY DEF ValuesOf
  <1>5. QED
    BY <1>1, <1>2, <1>3, <1>4, ObjectFacts

\* Positions are numbers.
LEMMA FrameInts ==
    ASSUME NEW fr \in FrameType
    PROVE  /\ fr.buf \in Int /\ fr.fieldbuf \in Int /\ fr.valuebuf \in Int
           /\ fr.len \in Nat /\ fr.extralen \in Nat /\ fr.fieldlen \in Nat
           /\ fr.i \in Nat \ {0} /\ fr.j \in Nat
  BY DEF FrameType, NULL

\* In or between the fields of a call.
LEMMA BetweenFacts ==
    ASSUME WalkInv, Between, NEW z, z = Len(frames), NEW t, t = frames[z]
    PROVE  /\ frames # << >> /\ t = Top /\ t.j = 0 /\ ret = << >>
           /\ t \in FrameType /\ FrameWalks(t, FALSE) /\ FieldOf(t) = Field_
           /\ t.obj \in Object /\ t.msg \in Msg /\ t.i \in Nat \ {0} /\ Len(FieldOrder[t.msg]) \in Nat
  <1>1. frames # << >> /\ t = Top /\ t.j = 0 /\ ret = << >>
    BY Zenon DEF Between, Top
  <1>2. t \in FrameType /\ FrameWalks(t, ret # << >>)
    BY <1>1, TopFacts
  <1>3. FrameWalks(t, FALSE)
    BY <1>2 DEF FrameWalks
  <1>4. t.obj \in Object /\ t.msg \in Msg /\ t.i \in Nat \ {0}
    BY <1>2 DEF FrameType
  <1>5. FieldOf(t) = Field_
    BY <1>1 DEF FieldOf, Field_
  <1>6. QED
    BY <1>1, <1>2, <1>3, <1>4, <1>5, OrderFacts

\* At a value.
LEMMA ValueOfFacts ==
    ASSUME WalkInv, AtValue, NEW z, z = Len(frames), NEW t, t = frames[z], NEW f, f = FieldOf(t)
    PROVE  /\ frames # << >> /\ t = Top /\ f = Field_ /\ ValuesOf(t) = Values
           /\ t \in FrameType /\ FrameWalks(t, ret # << >>)
           /\ t.obj \in Object /\ t.msg \in Msg /\ t.i \in 1..Len(FieldOrder[t.msg])
           /\ f \in Field /\ f \in FieldsOf[t.msg] /\ f \in DOMAIN t.obj.of
           /\ ValuesOf(t) = t.obj.of[f] /\ Len(ValuesOf(t)) \in Nat
           /\ t.j \in 1..Len(ValuesOf(t))
           /\ ItemOf(t) \in Object /\ ItemOf(t) = Values[Top.j]
  <1>1. /\ frames # << >> /\ t = Top /\ f = Field_ /\ ValuesOf(t) = Values
        /\ t.j > 0 /\ t.j <= Len(ValuesOf(t))
    BY Zenon DEF AtValue, Top, Field_, Values, FieldOf, ValuesOf
  <1>2. t \in FrameType /\ FrameWalks(t, ret # << >>)
    BY <1>1, TopFacts
  <1>3. t.i <= Len(FieldOrder[t.msg]) /\ f \in DOMAIN t.obj.of /\ t.j \in Nat
    BY <1>1, <1>2 DEF FrameWalks, FrameType
  <1>4. /\ t.obj \in Object /\ t.msg \in Msg /\ t.i \in 1..Len(FieldOrder[t.msg])
        /\ f \in Field /\ f \in FieldsOf[t.msg]
        /\ ValuesOf(t) = t.obj.of[f] /\ Len(ValuesOf(t)) \in Nat
        /\ \A j \in 1..Len(ValuesOf(t)) : ValuesOf(t)[j] \in Object
    BY <1>2, <1>3, FieldFacts
  <1>5. t.j \in 1..Len(ValuesOf(t))
    BY <1>1, <1>3, <1>4
  <1>6. ItemOf(t) \in Object /\ ItemOf(t) = Values[Top.j]
    BY <1>1, <1>4, <1>5 DEF ItemOf
  <1>7. QED
    BY <1>1, <1>2, <1>3, <1>4, <1>5, <1>6

\* The buffer stays one of the same size.
LEMMA StoreFacts ==
    ASSUME IsSeq(mem), NEW f, NEW n, NEW data, NEW p, NEW raw, Store(f, n, data, p, raw)
    PROVE  IsSeq(mem') /\ Len(mem') = Len(mem)
  <1>1. CASE mem' = mem
    BY <1>1
  <1>2. CASE mem' = Written(f, n, data, p, raw)
    <2>1. PICK l : l = Len(mem)
      OBVIOUS
    <2>2. l \in Nat /\ DOMAIN mem = 1..l
      BY <2>1, SeqFacts
    <2>3. \A m, q, cells : DOMAIN m = 1..l =>
             /\ DOMAIN Overlay(m, q, cells) = 1..l
             /\ Overlay(m, q, cells) = [k \in 1..l |-> Overlay(m, q, cells)[k]]
      BY DEF Overlay
    <2>4. DOMAIN mem' = 1..l /\ mem' = [k \in 1..l |-> mem'[k]]
      <3>1. PICK h : h = Header(f, n, raw)
        OBVIOUS
      <3>2. PICK m : m = Overlay(mem, p, h)
        OBVIOUS
      <3>3. PICK b : mem' = Overlay(m, p + Len(h), b)
        BY <1>2, <3>1, <3>2, Zenon DEF Written
      <3>4. DOMAIN m = 1..l
        BY <2>2, <2>3, <3>2
      <3>5. QED
        BY <2>3, <3>3, <3>4
    <2>5. QED
      BY <2>1, <2>2, <2>4, FunIsSeq
  <1>3. QED
    BY <1>1, <1>2 DEF Store

\* Where a value goes.
LEMMA PlusFacts ==
    ASSUME NEW p \in Nat \cup {NULL}, NEW n \in Nat
    PROVE  /\ Plus(p, n) \in Nat \cup {NULL}
           /\ p = NULL => Plus(p, n) = NULL
           /\ p \in Nat => Plus(p, n) = p + n /\ Plus(p, n) \in Nat
  BY DEF Plus, NULL

\* What the steps make of the innermost call, t.
Skipped(fr, t) ==
    /\ fr.obj = t.obj /\ fr.msg = t.msg /\ fr.i = t.i + 1 /\ fr.j = 0
    /\ fr.buf = t.buf /\ fr.len = t.len /\ fr.extralen = t.extralen

Started(fr, t, room) ==
    /\ fr.obj = t.obj /\ fr.msg = t.msg /\ fr.i = t.i /\ fr.j = 1
    /\ fr.buf = t.buf /\ fr.len = t.len /\ fr.extralen = t.extralen + room
    /\ fr.fieldbuf = Plus(t.buf, room) /\ fr.fieldlen = 0 /\ fr.valuebuf = Plus(t.buf, room)

Waiting(fr, t) ==
    /\ fr.obj = t.obj /\ fr.msg = t.msg /\ fr.i = t.i /\ fr.j = t.j
    /\ fr.buf = t.buf /\ fr.len = t.len /\ fr.extralen = t.extralen + MSG_RESERVE_BYTES
    /\ fr.fieldbuf = t.fieldbuf /\ fr.fieldlen = t.fieldlen /\ fr.valuebuf = t.valuebuf

Added(fr, t, len) ==
    /\ fr.obj = t.obj /\ fr.msg = t.msg /\ fr.i = t.i /\ fr.j = t.j + 1
    /\ fr.buf = t.buf /\ fr.len = t.len /\ fr.extralen = t.extralen
    /\ fr.fieldbuf = t.fieldbuf /\ fr.fieldlen = t.fieldlen + len
    /\ fr.valuebuf = Plus(t.valuebuf, len)

FieldEnded(fr, t, len) ==
    /\ fr.obj = t.obj /\ fr.msg = t.msg /\ fr.i = t.i + 1 /\ fr.j = 0
    /\ fr.buf = Plus(t.buf, len) /\ fr.len = t.len + len /\ fr.extralen = t.extralen

\* What a step makes of the innermost call, action by action.
LEMMA SkipStep ==
    ASSUME WalkInv, AbsentField, NEW z, z = Len(frames), NEW t, t = frames[z]
    PROVE  \E fr \in FrameType : SetTop(fr) /\ Skipped(fr, t)
  <1>1. Between /\ AbsentField
    BY DEF AbsentField, HasField
  <1>2. t = Top /\ t.j = 0 /\ t \in FrameType
    BY <1>1, BetweenFacts
  <1>3. PICK fr : fr = [t EXCEPT !.i = @ + 1]
    OBVIOUS
  <1>4. SetTop(fr)
    BY <1>2, <1>3, Zenon DEF AbsentField
  <1>5. fr \in FrameType /\ Skipped(fr, t)
    BY <1>2, <1>3 DEF FrameType, Skipped
  <1>6. QED
    BY <1>4, <1>5

LEMMA StartStep ==
    ASSUME WalkInv, StartField, status' = "encoding", NEW z, z = Len(frames), NEW t, t = frames[z],
           NEW f, f = FieldOf(t)
    PROVE  /\ ~(Packed[f] /\ packed) /\ f \in DOMAIN t.obj.of
           /\ packed' = (packed \/ Packed[f])
           /\ \E fr \in FrameType :
                 SetTop(fr) /\ Started(fr, t, IF Packed[f] THEN MSG_RESERVE_BYTES ELSE 0)
  <1>1. Between
    BY DEF StartField, HasField
  <1>2. t = Top /\ t \in FrameType /\ f = Field_
    BY <1>1, BetweenFacts
  <1>3. PICK room \in Nat : room = IF Packed[f] THEN MSG_RESERVE_BYTES ELSE 0
    BY DEF MSG_RESERVE_BYTES
  <1>4. PICK from : from = Plus(t.buf, room)
    OBVIOUS
  <1>5. from \in Nat \cup {NULL}
    <2>1. PICK c \in Nat \cup {NULL} : c = t.buf
      BY <1>2 DEF FrameType
    <2>2. QED
      BY <1>4, <2>1, PlusFacts
  <1>6. PICK fr : fr = [t EXCEPT !.j = 1, !.extralen = @ + room, !.fieldbuf = from,
                                 !.fieldlen = 0, !.valuebuf = from]
    OBVIOUS
  <1>7. ~(Packed[f] /\ packed) /\ f \in DOMAIN t.obj.of /\ packed' = (packed \/ Packed[f])
    BY <1>2 DEF StartField
  <1>8. SetTop(fr)
    BY <1>2, <1>3, <1>4, <1>6, <1>7, Zenon DEF StartField
  <1>9. fr \in FrameType /\ Started(fr, t, room)
    <2>1. PICK e \in Nat : e = t.extralen + room
      BY <1>2, FrameInts
    <2>2. fr = [t EXCEPT !.j = 1, !.extralen = e, !.fieldbuf = from, !.fieldlen = 0, !.valuebuf = from]
      BY <1>2, <1>6, <2>1 DEF FrameType
    <2>3. fr \in FrameType
      BY <1>2, <1>5, <2>2 DEF FrameType
    <2>4. QED
      BY <1>2, <1>4, <2>1, <2>2, <2>3 DEF FrameType, Started
  <1>10. QED
    BY <1>3, <1>7, <1>8, <1>9

\* The new call is for the message the old one waits at.
LEMMA NestStep ==
    ASSUME WalkInv, StartNested, NEW z, z = Len(frames), NEW t, t = frames[z],
           NEW f, f = FieldOf(t)
    PROVE  \E fr \in FrameType, new \in FrameType :
              /\ frames' = Append([frames EXCEPT ![Len(frames)] = fr], new)
              /\ Waiting(fr, t) /\ new = Frame(ItemOf(t), SubMsg[f], Plus(t.valuebuf, MSG_RESERVE_BYTES))
  <1>1. AtValue /\ Typ[Field_] = "message"
    BY DEF StartNested
  <1>2. t = Top /\ t \in FrameType /\ f = Field_ /\ f \in Field /\ ItemOf(t) \in Object /\ ItemOf(t) = Values[Top.j]
    BY <1>1, ValueOfFacts
  <1>3. SubMsg[f] \in Msg
    BY <1>1, <1>2, SubMsgFacts
  <1>4. PICK b : b = Plus(t.valuebuf, MSG_RESERVE_BYTES)
    OBVIOUS
  <1>5. b \in Nat \cup {NULL}
    <2>1. PICK c \in Nat \cup {NULL} : c = t.valuebuf
      BY <1>2 DEF FrameType
    <2>2. PICK r \in Nat : r = MSG_RESERVE_BYTES
      BY DEF MSG_RESERVE_BYTES
    <2>3. QED
      BY <1>4, <2>1, <2>2, PlusFacts
  <1>6. PICK fr, new : /\ fr = [t EXCEPT !.extralen = @ + MSG_RESERVE_BYTES]
                       /\ new = Frame(ItemOf(t), SubMsg[f], b)
    OBVIOUS
  <1>7. frames' = Append([frames EXCEPT ![Len(frames)] = fr], new)
    BY <1>2, <1>4, <1>6, Zenon DEF StartNested
  <1>8. fr \in FrameType /\ Waiting(fr, t)
    <2>1. PICK e \in Nat : e = t.extralen + MSG_RESERVE_BYTES
      BY <1>2, FrameInts DEF MSG_RESERVE_BYTES
    <2>2. fr = [t EXCEPT !.extralen = e]
      BY <1>2, <1>6, <2>1 DEF FrameType
    <2>3. QED
      BY <1>2, <2>1, <2>2 DEF FrameType, Waiting
  <1>9. new \in FrameType
    BY <1>2, <1>3, <1>5, <1>6 DEF Frame, FrameType, NULL
  <1>10. QED
    BY <1>4, <1>6, <1>7, <1>8, <1>9

LEMMA AddStep ==
    ASSUME WalkInv, AtValue, NEW n, NEW data, AddValue(n, data),
           NEW z, z = Len(frames), NEW t, t = frames[z], NEW f, f = FieldOf(t),
           NEW len \in Nat, len = AddedLen(f, n, packed)
    PROVE  /\ Store(f, n, data, t.valuebuf, packed)
           /\ \E fr \in FrameType : SetTop(fr) /\ Added(fr, t, len)
  <1>1. t = Top /\ t \in FrameType /\ f = Field_
    BY ValueOfFacts
  <1>2. PICK fr : fr = [t EXCEPT !.j = @ + 1, !.fieldlen = @ + len, !.valuebuf = Plus(@, len)]
    OBVIOUS
  <1>3. SetTop(fr) /\ Store(f, n, data, t.valuebuf, packed)
    BY <1>1, <1>2, Zenon DEF AddValue
  <1>4. PICK v : v = Plus(t.valuebuf, len)
    OBVIOUS
  <1>5. v \in Nat \cup {NULL}
    <2>1. PICK b \in Nat \cup {NULL} : b = t.valuebuf
      BY <1>1 DEF FrameType
    <2>2. QED
      BY <1>4, <2>1, PlusFacts
  <1>6. fr \in FrameType /\ Added(fr, t, len)
    <2>1. PICK j \in Nat, l \in Nat : j = t.j + 1 /\ l = t.fieldlen + len
      BY <1>1, FrameInts
    <2>2. fr = [t EXCEPT !.j = j, !.fieldlen = l, !.valuebuf = v]
      BY <1>1, <1>2, <1>4, <2>1 DEF FrameType
    <2>3. fr \in FrameType
      BY <1>1, <1>5, <2>2 DEF FrameType
    <2>4. QED
      BY <1>1, <1>4, <2>1, <2>2, <2>3 DEF FrameType, Added
  <1>7. QED
    BY <1>3, <1>6

\* How many bytes a field adds to its record.
EndLen(t, f) == IF Packed[f] THEN AddedLen(f, t.fieldlen, FALSE) ELSE t.fieldlen

LEMMA EndStep ==
    ASSUME WalkInv, EndField, NEW z, z = Len(frames), NEW t, t = frames[z], NEW f, f = FieldOf(t),
           NEW len \in Nat, len = EndLen(t, f)
    PROVE  /\ IF Packed[f] THEN Store(f, t.fieldlen, t.fieldbuf, t.buf, FALSE) /\ packed' = FALSE
                           ELSE UNCHANGED <<mem, status, packed>>
           /\ \E fr \in FrameType : SetTop(fr) /\ FieldEnded(fr, t, len)
  <1>1. frames # << >> /\ t = Top /\ f = Field_
    BY Zenon DEF EndField, Top, Field_, FieldOf
  <1>2. t \in FrameType
    BY <1>1, TopFacts
  <1>3. PICK fr : fr = [t EXCEPT !.i = @ + 1, !.j = 0, !.len = @ + len, !.buf = Plus(@, len)]
    OBVIOUS
  <1>4. SetTop(fr)
    BY <1>1, <1>3, Zenon DEF EndField, EndLen
  <1>5. IF Packed[f] THEN Store(f, t.fieldlen, t.fieldbuf, t.buf, FALSE) /\ packed' = FALSE
                     ELSE UNCHANGED <<mem, status, packed>>
    BY <1>1, Zenon DEF EndField
  <1>6. PICK b : b = Plus(t.buf, len)
    OBVIOUS
  <1>7. b \in Nat \cup {NULL}
    <2>1. PICK c \in Nat \cup {NULL} : c = t.buf
      BY <1>2 DEF FrameType
    <2>2. QED
      BY <1>6, <2>1, PlusFacts
  <1>8. fr \in FrameType /\ FieldEnded(fr, t, len)
    <2>1. t.i \in Nat \ {0} /\ t.len \in Nat
      BY <1>2, FrameInts
    <2>2. t.i + 1 \in Nat \ {0} /\ t.len + len \in Nat
      BY <2>1
    <2>3. PICK i, l : i = t.i + 1 /\ l = t.len + len
      OBVIOUS
    <2>4. fr = [t EXCEPT !.i = i, !.j = 0, !.len = l, !.buf = b]
      BY <1>2, <1>3, <1>6, <2>3 DEF FrameType
    <2>5. i \in Nat \ {0} /\ l \in Nat
      BY <2>2, <2>3
    <2>6. fr \in FrameType
      BY <1>2, <1>7, <2>4, <2>5 DEF FrameType
    <2>7. QED
      BY <1>2, <1>6, <2>3, <2>4, <2>6 DEF FrameType, FieldEnded
  <1>9. QED
    BY <1>4, <1>5, <1>8

-----------------------------------------------------------------------------
(* WalkInv is inductive: the walk is over the parts of the dict. *)

\* The calls that wait are not touched.
LEMMA CallsBelow ==
    ASSUME NEW n \in Nat, \A k \in 1..(n - 1) : frames'[k] = frames[k], dict' = dict,
           NEW k \in 1..n
    PROVE  CallObj(k)' = CallObj(k) /\ CallMsg(k)' = CallMsg(k) /\ CallStart(k)' = CallStart(k)
  <1>1. k = 1 \/ k - 1 \in 1..(n - 1)
    OBVIOUS
  <1>2. k = 1 \/ frames'[k - 1] = frames[k - 1]
    BY <1>1
  <1>3. QED
    BY <1>2, Zenon DEF CallObj, CallMsg, CallStart, ItemOf, ValuesOf, FieldOf

\* WalkInv is kept for the calls that wait.
LEMMA WalkBelow ==
    ASSUME WalkInv, frames # << >>, NEW n, n = Len(frames),
           \A k \in 1..(n - 1) : frames'[k] = frames[k], dict' = dict, pass' = pass,
           Calls' \in Nat, Calls' >= n, NEW k \in 1..(n - 1)
    PROVE  /\ frames'[k].obj = CallObj(k)' /\ frames'[k].msg = CallMsg(k)'
           /\ FrameWalks(frames[k], k < Calls)'
  <1>1. n \in Nat \ {0} /\ Calls = n + Len(ret) /\ Len(ret) \in Nat
    <2>1. Len(<< >>) = 0
      OBVIOUS
    <2>2. PICK t : t = frames[n]
      OBVIOUS
    <2>3. n \in Nat \ {0} /\ Calls = n + Len(ret) /\ (ret # << >> => Len(ret) = 1)
      BY <2>2, TopFacts
    <2>4. QED
      BY <2>1, <2>3
  <1>2. k \in 1..n /\ k < Calls /\ k < Calls'
    BY <1>1
  <1>3. frames'[k].obj = CallObj(k)' /\ frames'[k].msg = CallMsg(k)'
    BY <1>1, <1>2, CallsBelow DEF WalkInv
  <1>4. PICK a : a = frames[k]
    OBVIOUS
  <1>5. FrameWalks(a, TRUE)
    BY <1>2, <1>4 DEF WalkInv
  <1>6. FrameWalks(a, TRUE)'
    BY <1>5 DEF FrameWalks
  <1>7. FrameWalks(frames[k], k < Calls)'
    BY <1>2, <1>4, <1>6 DEF FrameWalks
  <1>8. QED
    BY <1>3, <1>7

\* WalkInv is kept when the innermost call changes, when one is made, and when
\* one returns.
LEMMA WalkSet ==
    ASSUME WalkInv, frames # << >>, NEW n, n = Len(frames), NEW t, t = frames[n],
           NEW fr \in FrameType, SetTop(fr), fr.obj = t.obj, fr.msg = t.msg,
           dict' = dict, pass' = pass, ret' = << >>, IsSeq(mem'), FrameWalks(fr, FALSE)
    PROVE  WalkInv'
  <1>1. frames \in Seq(FrameType)
    BY DEF WalkInv
  <1>2. /\ n \in Nat \ {0}
        /\ frames' \in Seq(FrameType) /\ Len(frames') = n
        /\ \A k \in 1..(n - 1) : frames'[k] = frames[k]
        /\ frames'[n] = fr
    <2> HIDE DEF FrameType
    <2>1. QED
      BY <1>1, FramesSet
  <1>3. Calls' = n
    BY <1>2 DEF Calls
  <1>4. FrameWalks(fr, FALSE)'
    BY DEF FrameWalks
  <1>5. CallObj(n)' = CallObj(n) /\ CallMsg(n)' = CallMsg(n)
    <2>1. n \in Nat /\ n \in 1..n
      BY <1>2
    <2>2. QED
      BY <1>2, <2>1, CallsBelow
  <1>6. ASSUME NEW k \in 1..n
        PROVE  /\ frames'[k].obj = CallObj(k)' /\ frames'[k].msg = CallMsg(k)'
               /\ FrameWalks(frames[k], k < Calls)'
    <2>1. CASE k = n
      <3>1. ~(k < Calls')
        BY <1>2, <1>3, <2>1
      <3>2. FrameWalks(frames[k], k < Calls)'
        <4>1. frames'[k] = fr
          BY <1>2, <2>1
        <4>2. QED
          BY <1>4, <3>1, <4>1 DEF FrameWalks
      <3>3. t.obj = CallObj(n) /\ t.msg = CallMsg(n)
        BY TopFacts
      <3>4. QED
        BY <1>2, <1>5, <2>1, <3>2, <3>3
    <2>2. CASE k # n
      <3>1. k \in 1..(n - 1) /\ Calls' \in Nat /\ Calls' >= n
        BY <1>2, <1>3, <2>2
      <3>2. QED
        BY <1>2, <3>1, WalkBelow
    <2>3. QED
      BY <2>1, <2>2
  <1>7. Calls' >= 1 /\ dict' \in Object /\ pass' \in {0, 1}
    BY <1>2, <1>3 DEF WalkInv
  <1>8. QED
    BY <1>2, <1>6, <1>7 DEF WalkInv

LEMMA WalkPush ==
    ASSUME WalkInv, frames # << >>, NEW n, n = Len(frames), NEW t, t = frames[n],
           NEW fr \in FrameType, NEW new \in FrameType,
           frames' = Append([frames EXCEPT ![Len(frames)] = fr], new),
           fr.obj = t.obj, fr.msg = t.msg, new.obj = ItemOf(fr), new.msg = SubMsg[FieldOf(fr)],
           dict' = dict, pass' = pass, ret = << >>, ret' = << >>, mem' = mem,
           FrameWalks(fr, TRUE), FrameWalks(new, FALSE)
    PROVE  WalkInv'
  <1>1. frames \in Seq(FrameType)
    BY DEF WalkInv
  <1> HIDE DEF FrameType
  <1>2. /\ n \in Nat \ {0}
        /\ frames' \in Seq(FrameType) /\ Len(frames') = n + 1
        /\ \A k \in 1..(n - 1) : frames'[k] = frames[k]
        /\ frames'[n] = fr /\ frames'[n + 1] = new
    <2>1. QED
      BY <1>1, FramesPush
  <1>3. Calls' = n + 1
    BY <1>2 DEF Calls
  <1>4. FrameWalks(fr, TRUE)' /\ FrameWalks(new, FALSE)'
    BY DEF FrameWalks
  <1>5. CallObj(n)' = CallObj(n) /\ CallMsg(n)' = CallMsg(n)
    <2>1. n \in Nat /\ n \in 1..n
      BY <1>2
    <2>2. QED
      BY <1>2, <2>1, CallsBelow
  <1>6. ASSUME NEW k \in 1..(n + 1)
        PROVE  /\ frames'[k].obj = CallObj(k)' /\ frames'[k].msg = CallMsg(k)'
               /\ FrameWalks(frames[k], k < Calls)'
    <2>1. CASE k = n
      <3>1. k < Calls'
        BY <1>2, <1>3, <2>1
      <3>2. FrameWalks(frames[k], k < Calls)'
        <4>1. frames'[k] = fr
          BY <1>2, <2>1
        <4>2. QED
          BY <1>4, <3>1, <4>1 DEF FrameWalks
      <3>3. t.obj = CallObj(n) /\ t.msg = CallMsg(n)
        BY TopFacts
      <3>4. QED
        BY <1>2, <1>5, <2>1, <3>2, <3>3
    <2>2. CASE k = n + 1
      <3>1. ~(k < Calls') /\ k - 1 = n /\ k # 1
        BY <1>2, <1>3, <2>2
      <3>2. FrameWalks(frames[k], k < Calls)'
        <4>1. frames'[k] = new
          BY Zenon, <1>2, <2>2
        <4>2. QED
          BY Zenon, <1>4, <3>1, <4>1 DEF FrameWalks
      <3>3. CallObj(k)' = ItemOf(fr) /\ CallMsg(k)' = SubMsg[FieldOf(fr)]
        <4>1. frames'[k - 1] = fr
          BY <1>2, <3>1
        <4>2. QED
          BY Zenon, <3>1, <4>1 DEF CallObj, CallMsg, ItemOf, ValuesOf, FieldOf
      <3>4. QED
        BY <1>2, <2>2, <3>2, <3>3
    <2>3. CASE k # n /\ k # n + 1
      <3>1. k \in 1..(n - 1) /\ Calls' \in Nat /\ Calls' >= n
        BY <1>2, <1>3, <2>3
      <3>2. QED
        BY <1>2, <3>1, WalkBelow
    <2>4. QED
      BY <2>1, <2>2, <2>3
  <1>7. Calls' >= 1 /\ dict' \in Object /\ pass' \in {0, 1} /\ IsSeq(mem')
    BY <1>2, <1>3 DEF WalkInv
  <1>8. QED
    BY <1>2, <1>6, <1>7 DEF WalkInv

LEMMA WalkPop ==
    ASSUME WalkInv, frames # << >>, NEW r \in Nat \cup {SizeMax}, ReturnWith(r),
           dict' = dict, pass' = pass, mem' = mem
    PROVE  WalkInv'
  <1>0. PICK n : n = Len(frames)
    OBVIOUS
  <1>1. frames \in Seq(FrameType)
    BY DEF WalkInv
  <1>2. /\ n \in Nat \ {0}
        /\ frames' \in Seq(FrameType) /\ Len(frames') = n - 1
        /\ \A k \in 1..(n - 1) : frames'[k] = frames[k]
        /\ ret' = << r >> /\ Len(ret') = 1 /\ ret'[1] = r
    <2> HIDE DEF FrameType
    <2>1. QED
      BY <1>0, <1>1, FramesPop
  <1>3. Calls' = n
    BY <1>2 DEF Calls
  <1>4. ASSUME NEW k \in 1..(n - 1)
        PROVE  /\ frames'[k].obj = CallObj(k)' /\ frames'[k].msg = CallMsg(k)'
               /\ FrameWalks(frames[k], k < Calls)'
    <2>1. Calls' \in Nat /\ Calls' >= n
      BY <1>2, <1>3
    <2>2. QED
      BY <1>0, <1>2, <2>1, WalkBelow
  <1>5. Calls' >= 1 /\ dict' \in Object /\ pass' \in {0, 1} /\ IsSeq(mem')
    BY <1>2, <1>3 DEF WalkInv
  <1>6. QED
    BY <1>2, <1>4, <1>5 DEF WalkInv

\* A pass begins.
LEMMA WalkStart ==
    ASSUME NEW d \in Object, dict' = d, NEW buf \in Nat \cup {NULL},
           IF pass' = 0 THEN buf = NULL ELSE buf \in Nat,
           pass' \in {0, 1}, frames' = << Frame(d, RootMsg, buf) >>, ret' = << >>, IsSeq(mem')
    PROVE  WalkInv'
  <1>1. PICK fr : fr = Frame(d, RootMsg, buf)
    OBVIOUS
  <1>2. RootMsg \in Msg
    BY FieldAssumption DEF FieldAssumption
  <1>3. fr \in FrameType /\ fr.obj = d /\ fr.msg = RootMsg /\ fr.i = 1 /\ fr.j = 0 /\ fr.buf = buf
    BY <1>1, <1>2 DEF Frame, FrameType
  <1>4. /\ frames' \in Seq(FrameType) /\ Len(frames') = 1 /\ frames'[1] = fr
    <2> HIDE DEF FrameType
    <2>1. QED
      BY <1>1, <1>3
  <1>5. Calls' = 1
    BY <1>4 DEF Calls
  <1>6. Len(FieldOrder[RootMsg]) \in Nat
    BY <1>2, OrderFacts
  <1>7. FrameWalks(fr, FALSE)'
    BY <1>3, <1>6 DEF FrameWalks
  <1>8. ASSUME NEW k \in 1..1
        PROVE  /\ frames'[k].obj = CallObj(k)' /\ frames'[k].msg = CallMsg(k)'
               /\ FrameWalks(frames[k], k < Calls)'
    <2>1. k = 1 /\ ~(k < Calls')
      BY <1>5
    <2>2. FrameWalks(frames[k], k < Calls)'
      BY <1>4, <1>7, <2>1 DEF FrameWalks
    <2>3. CallObj(k)' = dict' /\ CallMsg(k)' = RootMsg
      BY <2>1 DEF CallObj, CallMsg
    <2>4. QED
      BY <1>3, <1>4, <2>1, <2>2, <2>3
  <1>9. QED
    BY <1>4, <1>5, <1>8 DEF WalkInv

LEMMA WalkAddValue ==
    ASSUME WalkInv, AtValue, packed \in BOOLEAN, NEW n, NEW data,
           AddedLen(Field_, n, packed) \in Nat, AddValue(n, data),
           dict' = dict, pass' = pass, ret' = << >>
    PROVE  WalkInv'
  <1>1. PICK z, t, f : z = Len(frames) /\ t = frames[z] /\ f = FieldOf(t)
    OBVIOUS
  <1>2. /\ frames # << >> /\ f = Field_
        /\ t \in FrameType /\ FrameWalks(t, ret # << >>)
        /\ Len(ValuesOf(t)) \in Nat /\ t.j \in 1..Len(ValuesOf(t))
    BY <1>1, ValueOfFacts
  <1>3. PICK len \in Nat : len = AddedLen(f, n, packed)
    BY <1>2
  <1>4. Store(f, n, data, t.valuebuf, packed)
    BY <1>1, <1>3, AddStep
  <1>5. PICK fr \in FrameType : SetTop(fr) /\ Added(fr, t, len)
    BY <1>1, <1>3, AddStep
  <1>6. IsSeq(mem')
    BY <1>4, StoreFacts DEF WalkInv
  <1>7. /\ t.valuebuf = NULL => fr.valuebuf = NULL
        /\ t.valuebuf \in Nat => fr.valuebuf \in Nat
    <2>1. PICK b \in Nat \cup {NULL} : b = t.valuebuf
      BY <1>2 DEF FrameType
    <2>2. fr.valuebuf = Plus(b, len)
      BY <1>5, <2>1 DEF Added
    <2>3. QED
      BY <2>1, <2>2, PlusFacts
  <1>8. FrameWalks(fr, FALSE)
    <2>1. FieldOf(fr) = FieldOf(t) /\ ValuesOf(fr) = ValuesOf(t)
      BY <1>5 DEF Added, FieldOf, ValuesOf
    <2>2. fr.j <= Len(ValuesOf(fr)) + 1
      BY <1>2, <1>5, <2>1 DEF Added
    <2>3. QED
      BY <1>2, <1>5, <1>7, <2>1, <2>2 DEF FrameWalks, Added
  <1>9. fr.obj = t.obj /\ fr.msg = t.msg
    BY <1>5 DEF Added
  <1>10. QED
    BY <1>1, <1>2, <1>5, <1>6, <1>8, <1>9, WalkSet

\* Behind the last value of a field.
LEMMA EndFieldFacts ==
    ASSUME WalkInv, EndField, NEW z, z = Len(frames), NEW t, t = frames[z], NEW f, f = FieldOf(t)
    PROVE  /\ frames # << >> /\ ret = << >>
           /\ t \in FrameType /\ FrameWalks(t, FALSE) /\ t.obj \in Object /\ t.msg \in Msg
           /\ t.i \in 1..Len(FieldOrder[t.msg]) /\ Len(FieldOrder[t.msg]) \in Nat
           /\ f \in Field /\ f \in FieldsOf[t.msg] /\ f \in DOMAIN t.obj.of
           /\ ValuesOf(t) = t.obj.of[f] /\ Len(ValuesOf(t)) \in Nat /\ t.j = Len(ValuesOf(t)) + 1
           /\ EndLen(t, f) \in Nat
  <1>1. /\ frames # << >> /\ t = Top /\ ValuesOf(t) = Values
        /\ t.j > 0 /\ t.j > Len(ValuesOf(t))
    BY Zenon DEF EndField, Top, Field_, Values, FieldOf, ValuesOf
  <1>2. t \in FrameType /\ FrameWalks(t, ret # << >>)
    BY <1>1, TopFacts
  <1>3. /\ t.i <= Len(FieldOrder[t.msg]) /\ f \in DOMAIN t.obj.of
        /\ t.j \in Nat /\ t.fieldlen \in Nat /\ t.j <= Len(ValuesOf(t)) + 1
    <2>1. t.j \in Nat /\ t.fieldlen \in Nat
      BY <1>2, FrameInts
    <2>2. QED
      BY <1>1, <1>2, <2>1 DEF FrameWalks
  <1>4. /\ t.obj \in Object /\ t.msg \in Msg /\ t.i \in 1..Len(FieldOrder[t.msg])
        /\ f \in Field /\ f \in FieldsOf[t.msg]
        /\ ValuesOf(t) = t.obj.of[f] /\ Len(ValuesOf(t)) \in Nat
    BY <1>2, <1>3, FieldFacts
  <1>5. ret = << >> /\ FrameWalks(t, FALSE)
    BY <1>1, <1>2, <1>3, <1>4 DEF FrameWalks
  <1>6. EndLen(t, f) \in Nat
    <2>1. PICK l \in Nat : l = t.fieldlen
      BY <1>3
    <2>2. AddedLen(f, l, FALSE) \in Nat
      BY <1>4, AddedFacts
    <2>3. QED
      BY <2>1, <2>2 DEF EndLen
  <1>7. Len(FieldOrder[t.msg]) \in Nat /\ t.j = Len(ValuesOf(t)) + 1
    <2>1. Len(FieldOrder[t.msg]) \in Nat
      BY <1>4, OrderFacts
    <2>2. PICK l \in Nat : l = Len(ValuesOf(t))
      BY <1>4
    <2>3. t.j = l + 1
      BY <1>1, <1>3, <2>2
    <2>4. QED
      BY <2>1, <2>2, <2>3
  <1>8. QED
    BY <1>1, <1>2, <1>3, <1>4, <1>5, <1>6, <1>7

LEMMA WalkEndField ==
    ASSUME WalkInv, EndField
    PROVE  WalkInv'
  <1>1. PICK z, t, f : z = Len(frames) /\ t = frames[z] /\ f = FieldOf(t)
    OBVIOUS
  <1>2. /\ frames # << >> /\ ret = << >> /\ t \in FrameType /\ FrameWalks(t, FALSE)
        /\ t.i \in 1..Len(FieldOrder[t.msg]) /\ Len(FieldOrder[t.msg]) \in Nat
    BY <1>1, EndFieldFacts
  <1>3. PICK len \in Nat : len = EndLen(t, f)
    BY <1>1, EndFieldFacts
  <1>4. PICK fr \in FrameType : SetTop(fr) /\ FieldEnded(fr, t, len)
    BY <1>1, <1>3, EndStep
  <1>5. IsSeq(mem')
    <2>1. Store(f, t.fieldlen, t.fieldbuf, t.buf, FALSE) \/ mem' = mem
      BY <1>1, <1>3, EndStep
    <2>2. IsSeq(mem)
      BY DEF WalkInv
    <2>3. QED
      BY <2>1, <2>2, StoreFacts
  <1>6. /\ t.buf = NULL => fr.buf = NULL
        /\ t.buf \in Nat => fr.buf \in Nat
    <2>1. PICK b \in Nat \cup {NULL} : b = t.buf
      BY <1>2 DEF FrameType
    <2>2. fr.buf = Plus(b, len)
      BY <1>4, <2>1 DEF FieldEnded
    <2>3. QED
      BY <2>1, <2>2, PlusFacts
  <1>7. FrameWalks(fr, FALSE)
    <2>1. fr.i <= Len(FieldOrder[fr.msg]) + 1
      BY <1>2, <1>4 DEF FieldEnded
    <2>2. QED
      BY <1>2, <1>4, <1>6, <2>1 DEF FrameWalks, FieldEnded
  <1>8. fr.obj = t.obj /\ fr.msg = t.msg
    BY <1>4 DEF FieldEnded
  <1>9. dict' = dict /\ pass' = pass /\ ret' = << >>
    BY <1>2 DEF EndField
  <1>10. QED
    BY <1>1, <1>2, <1>4, <1>5, <1>7, <1>8, <1>9, WalkSet

LEMMA WalkBetween ==
    ASSUME WalkInv, AbsentField \/ StartField, status' = "encoding"
    PROVE  WalkInv'
  <1>1. PICK z, t : z = Len(frames) /\ t = frames[z]
    OBVIOUS
  <1>2. HasField
    BY DEF AbsentField, StartField
  <1>3. Between /\ Top.obj.kind = "dict" /\ Top.i <= Len(FieldOrder[Top.msg])
    BY <1>2 DEF HasField
  <1>4. /\ frames # << >> /\ t = Top /\ t.j = 0 /\ ret = << >>
        /\ t \in FrameType /\ FrameWalks(t, FALSE) /\ FieldOf(t) = Field_
        /\ t.msg \in Msg /\ t.i \in Nat \ {0} /\ Len(FieldOrder[t.msg]) \in Nat
    BY <1>1, <1>3, BetweenFacts
  <1>5. dict' = dict /\ pass' = pass /\ ret' = << >> /\ IsSeq(mem')
    BY <1>4 DEF AbsentField, StartField, WalkInv
  <1>6. CASE AbsentField
    <2>1. PICK fr \in FrameType : SetTop(fr) /\ Skipped(fr, t)
      BY <1>1, <1>6, SkipStep
    <2>2. FrameWalks(fr, FALSE)
      BY <1>3, <1>4, <2>1 DEF FrameWalks, Skipped
    <2>3. fr.obj = t.obj /\ fr.msg = t.msg
      BY <2>1 DEF Skipped
    <2>4. QED
      BY <1>1, <1>4, <1>5, <2>1, <2>2, <2>3, WalkSet
  <1>7. CASE StartField
    <2>0. PICK f : f = FieldOf(t)
      OBVIOUS
    <2>1. PICK room \in Nat : room = IF Packed[f] THEN MSG_RESERVE_BYTES ELSE 0
      BY DEF MSG_RESERVE_BYTES
    <2>2. f \in DOMAIN t.obj.of
      BY <1>1, <1>7, <2>0, <2>1, StartStep
    <2>3. PICK fr \in FrameType : SetTop(fr) /\ Started(fr, t, room)
      BY <1>1, <1>7, <2>0, <2>1, StartStep
    <2>4. /\ t.buf = NULL => fr.fieldbuf = NULL /\ fr.valuebuf = NULL
          /\ t.buf \in Nat => fr.fieldbuf \in Nat /\ fr.valuebuf \in Nat
      <3>1. PICK b \in Nat \cup {NULL} : b = t.buf
        BY <1>4 DEF FrameType
      <3>2. fr.fieldbuf = Plus(b, room) /\ fr.valuebuf = Plus(b, room)
        BY <2>3, <3>1 DEF Started
      <3>3. QED
        BY <3>1, <3>2, PlusFacts
    <2>5. FieldOf(fr) = FieldOf(t) /\ ValuesOf(fr) = ValuesOf(t) /\ Len(ValuesOf(t)) \in Nat
      <3>1. Len(ValuesOf(t)) \in Nat
        BY <1>3, <1>4, <2>0, <2>1, <2>2, FieldFacts
      <3>2. QED
        BY <2>3, <3>1 DEF FieldOf, ValuesOf, Started
    <2>6. FrameWalks(fr, FALSE)
      BY <1>3, <1>4, <2>0, <2>1, <2>2, <2>3, <2>4, <2>5 DEF FrameWalks, Started
    <2>7. fr.obj = t.obj /\ fr.msg = t.msg
      BY <2>3 DEF Started
    <2>8. QED
      BY <1>1, <1>4, <1>5, <2>3, <2>6, <2>7, WalkSet
  <1>8. QED
    BY <1>6, <1>7

\* A nested message is encoded by a call of its own.
LEMMA WalkStartNested ==
    ASSUME WalkInv, StartNested
    PROVE  WalkInv'
  <1>1. PICK z, t, f : z = Len(frames) /\ t = frames[z] /\ f = FieldOf(t)
    OBVIOUS
  <1>2. AtValue /\ ret = << >>
    BY DEF StartNested
  <1>3. /\ frames # << >> /\ t = Top /\ f = Field_ /\ ValuesOf(t) = Values
        /\ t \in FrameType /\ FrameWalks(t, FALSE)
        /\ f \in Field /\ Len(ValuesOf(t)) \in Nat /\ t.j \in 1..Len(ValuesOf(t))
        /\ ItemOf(t) \in Object /\ ItemOf(t) = Values[Top.j]
    <2>1. FrameWalks(t, ret # << >>)
      BY <1>1, <1>2, ValueOfFacts
    <2>2. FrameWalks(t, FALSE)
      BY <2>1 DEF FrameWalks
    <2>3. QED
      BY <1>1, <1>2, <2>2, ValueOfFacts
  <1>4. Typ[f] = "message" /\ SubMsg[f] \in Msg /\ Len(FieldOrder[SubMsg[f]]) \in Nat
    <2>1. Typ[f] = "message"
      BY <1>3 DEF StartNested
    <2>2. QED
      BY <1>3, <2>1, SubMsgFacts, OrderFacts
  <1> HIDE DEF FrameType
  <1>5. PICK fr \in FrameType, new \in FrameType :
           /\ frames' = Append([frames EXCEPT ![Len(frames)] = fr], new)
           /\ Waiting(fr, t) /\ new = Frame(ItemOf(t), SubMsg[f], Plus(t.valuebuf, MSG_RESERVE_BYTES))
    BY Zenon, <1>1, NestStep
  <1>6. FieldOf(fr) = f /\ ValuesOf(fr) = ValuesOf(t) /\ ItemOf(fr) = ItemOf(t)
    BY Zenon, <1>1, <1>5 DEF FieldOf, ValuesOf, ItemOf, Waiting
  <1>7. /\ new.obj = ItemOf(fr) /\ new.msg = SubMsg[FieldOf(fr)] /\ new.i = 1 /\ new.j = 0
        /\ new.buf = Plus(t.valuebuf, MSG_RESERVE_BYTES)
    BY <1>5, <1>6 DEF Frame
  <1>8. /\ t.valuebuf = NULL => new.buf = NULL
        /\ t.valuebuf \in Nat => new.buf \in Nat
    <2>1. PICK b \in Nat \cup {NULL} : b = t.valuebuf
      BY <1>3 DEF FrameType
    <2>2. PICK r \in Nat : r = MSG_RESERVE_BYTES
      BY DEF MSG_RESERVE_BYTES
    <2>3. QED
      BY <1>7, <2>1, <2>2, PlusFacts
  <1>9. FrameWalks(fr, TRUE)
    BY <1>1, <1>3, <1>4, <1>5, <1>6 DEF FrameWalks, Waiting
  <1>10. FrameWalks(new, FALSE)
    <2>1. IF pass = 0 THEN t.valuebuf = NULL ELSE t.valuebuf \in Nat
      BY <1>3 DEF FrameWalks
    <2>2. IF pass = 0 THEN new.buf = NULL ELSE new.buf \in Nat
      BY <1>8, <2>1
    <2>3. new.i <= Len(FieldOrder[new.msg]) + 1
      BY <1>4, <1>6, <1>7
    <2>4. QED
      BY <1>7, <2>2, <2>3 DEF FrameWalks
  <1>11. dict' = dict /\ pass' = pass /\ ret' = << >> /\ mem' = mem
    BY <1>2 DEF StartNested
  <1>12. fr.obj = t.obj /\ fr.msg = t.msg
    BY <1>5 DEF Waiting
  <1>13. QED
    BY <1>1, <1>2, <1>3, <1>5, <1>7, <1>9, <1>10, <1>11, <1>12, WalkPush

\* Every step keeps WalkInv.
LEMMA WalkNext ==
    ASSUME WalkInv, packed \in BOOLEAN, EncoderStep, status' = "encoding"
    PROVE  WalkInv'
  <1>1. CASE NotADict
    <2>1. frames # << >> /\ ReturnWith(SizeMax) /\ dict' = dict /\ pass' = pass /\ mem' = mem
      BY <1>1 DEF NotADict, Between
    <2>2. QED
      BY <2>1, WalkPop
  <1>2. CASE AbsentField \/ StartField
    BY <1>2, WalkBetween
  <1>3. CASE StartNested
    BY <1>3, WalkStartNested
  <1>4. CASE EndNested
    <2>1. /\ AtValue /\ Typ[Field_] = "message" /\ ret # << >>
          /\ AddValue(ret[1], Plus(Top.valuebuf, MSG_RESERVE_BYTES))
          /\ ret' = << >> /\ dict' = dict /\ pass' = pass
      BY <1>4 DEF EndNested
    <2>2. Field_ \in Field
      <3>1. PICK z, t, f : z = Len(frames) /\ t = frames[z] /\ f = FieldOf(t)
        OBVIOUS
      <3>2. QED
        BY <2>1, <3>1, ValueOfFacts
    <2>3. ret[1] \in Nat \cup {SizeMax}
      BY <2>1 DEF WalkInv
    <2>4. AddedLen(Field_, ret[1], packed) \in Nat
      BY <2>1, <2>2, <2>3, AddedFacts, AddedErrorFacts
    <2>5. QED
      BY <2>1, <2>4, WalkAddValue
  <1>5. CASE Scalar
    <2>1. AtValue /\ Typ[Field_] # "message" /\ dict' = dict /\ pass' = pass
      BY <1>5 DEF Scalar
    <2>2. PICK z, t, f : z = Len(frames) /\ t = frames[z] /\ f = FieldOf(t)
      OBVIOUS
    <2>3. /\ f = Field_ /\ f \in Field /\ ItemOf(t) \in Object /\ ItemOf(t) = Values[Top.j]
          /\ frames # << >> /\ FrameWalks(t, ret # << >>)
      BY <2>1, <2>2, ValueOfFacts
    <2>4. ret = << >>
      BY <2>1, <2>2, <2>3 DEF FrameWalks
    <2>5. CASE Values[Top.j].kind # "number"
      <3>1. ReturnWith(SizeMax) /\ mem' = mem
        BY <1>5, <2>5 DEF Scalar
      <3>2. QED
        BY <2>1, <2>3, <3>1, WalkPop
    <2>6. CASE Values[Top.j].kind = "number"
      <3>1. AddValue(Values[Top.j].n, NULL) /\ ret' = << >>
        BY <1>5, <2>4, <2>6 DEF Scalar
      <3>2. PICK n \in Nat : n = Values[Top.j].n
        BY <2>3, ObjectAssumption DEF ObjectAssumption
      <3>3. AddedLen(Field_, n, packed) \in Nat
        BY <2>3, AddedFacts
      <3>4. QED
        BY <2>1, <3>1, <3>2, <3>3, WalkAddValue
    <2>7. QED
      BY <2>5, <2>6
  <1>6. CASE EndField
    BY <1>6, WalkEndField
  <1>7. CASE EndMessage
    <2>1. Between /\ ReturnWith(EncodedLen(Top)) /\ dict' = dict /\ pass' = pass /\ mem' = mem
      BY <1>7 DEF EndMessage
    <2>2. PICK z, t : z = Len(frames) /\ t = frames[z]
      OBVIOUS
    <2>3. frames # << >> /\ t = Top /\ t \in FrameType
      BY <2>1, <2>2, BetweenFacts
    <2>4. EncodedLen(Top) \in Nat
      BY <2>3 DEF EncodedLen, FrameType
    <2>5. QED
      BY <2>1, <2>3, <2>4, WalkPop
  <1>8. CASE EndPass0
    <2>1. /\ ret[1] # SizeMax /\ pass' = 1 /\ mem' = [k \in 1..ret[1] |-> Junk] /\ frames = << >>
          /\ frames' = << Frame(dict, RootMsg, 0) >> /\ ret' = << >> /\ dict' = dict
      BY <1>8 DEF EndPass0
    <2>2. ret[1] \in Nat
      <3>1. Len(frames) = 0 /\ Calls >= 1
        BY <2>1 DEF WalkInv
      <3>2. ret # << >>
        BY <3>1 DEF Calls
      <3>3. QED
        BY <2>1, <3>2 DEF WalkInv
    <2>3. IsSeq(mem')
      <3>1. PICK n, m : n \in Nat /\ n = ret[1] /\ m = mem'
        BY <2>2
      <3>2. DOMAIN m = 1..n /\ m = [k \in 1..n |-> m[k]]
        BY <2>1, <3>1
      <3>3. QED
        BY <3>1, <3>2, FunIsSeq
    <2>4. dict \in Object /\ 0 \in Nat \cup {NULL} /\ pass' \in {0, 1} /\ pass' # 0
      BY <2>1 DEF WalkInv
    <2>5. QED
      BY <2>1, <2>3, <2>4, WalkStart
  <1>9. CASE EndPass1
    BY <1>9 DEF EndPass1
  <1>10. QED
    BY <1>1, <1>2, <1>3, <1>4, <1>5, <1>6, <1>7, <1>8, <1>9 DEF EncoderStep

-----------------------------------------------------------------------------
(* Room. *)

\* What the fields of a record up to one need, and what it needs itself.
LEMMA FieldsRoomAt ==
    ASSUME NEW o \in Object, NEW m \in Msg, NEW i \in 1..Len(FieldOrder[m])
    PROVE  /\ FieldsRoom(Room, o, m)[i - 1] \in Nat
           /\ FieldRoom(Room, o, FieldOrder[m][i]) \in Nat
           /\ FieldsRoom(Room, o, m)[i] =
                 FieldsRoom(Room, o, m)[i - 1] + FieldRoom(Room, o, FieldOrder[m][i])
           /\ FieldsRoom(Room, o, m)[i] <= Room[o][m]
  <1>1. PICK n, s : n = Len(FieldOrder[m]) /\ s = FieldsRoom(Room, o, m)
    OBVIOUS
  <1>2. n \in Nat /\ \A k \in 1..n : FieldOrder[m][k] \in Field
    BY <1>1, OrderFacts
  <1>3. /\ s \in [0..n -> Nat]
        /\ \A k \in 1..n : s[k] = s[k - 1] + FieldRoom(Room, o, FieldOrder[m][k])
    BY <1>1, RoomDef, FieldsRoomFacts
  <1>4. \A k \in 1..n : FieldRoom(Room, o, FieldOrder[m][k]) \in Nat
    BY <1>2, RoomDef, FieldRoomType
  <1>5. \A k \in 1..n : s[k - 1] <= s[k]
    <2> SUFFICES ASSUME NEW k \in 1..n PROVE s[k - 1] <= s[k]
      OBVIOUS
    <2>1. PICK a : a = FieldRoom(Room, o, FieldOrder[m][k])
      OBVIOUS
    <2>2. a \in Nat /\ s[k] = s[k - 1] + a
      BY <1>3, <1>4, <2>1
    <2>3. k - 1 \in 0..n
      BY <1>2
    <2>4. s[k - 1] \in Nat
      BY <1>3, <2>3
    <2>5. QED
      BY <2>2, <2>4
  <1>6. i \in 0..n /\ n \in 0..n /\ i <= n /\ i - 1 \in 0..n
    BY <1>1, <1>2
  <1>7. s[i] <= s[n]
    BY <1>2, <1>3, <1>5, <1>6, Grows
  <1>8. Room[o][m] = s[n]
    BY <1>1, RoomDef
  <1>9. s[i - 1] \in Nat
    BY <1>3, <1>6
  <1>10. QED
    BY <1>1, <1>3, <1>4, <1>7, <1>8, <1>9

LEMMA ItemsRoomAt ==
    ASSUME NEW o \in Object, NEW f \in Field, f \in DOMAIN o.of, NEW j \in 1..Len(o.of[f])
    PROVE  /\ ItemsRoom(Room, o, f)[j - 1] \in Nat
           /\ ItemRoom(Room, f, o.of[f][j]) \in Nat
           /\ ItemsRoom(Room, o, f)[j] =
                 ItemsRoom(Room, o, f)[j - 1] + ItemRoom(Room, f, o.of[f][j])
           /\ ItemsRoom(Room, o, f)[j] <= ItemsRoom(Room, o, f)[Len(o.of[f])]
  <1>1. PICK n, s : n = Len(o.of[f]) /\ s = ItemsRoom(Room, o, f)
    OBVIOUS
  <1>2. n \in Nat /\ \A k \in 1..n : o.of[f][k] \in Object
    BY <1>1, ObjectFacts
  <1>3. /\ s \in [0..n -> Nat]
        /\ \A k \in 1..n : s[k] = s[k - 1] + ItemRoom(Room, f, o.of[f][k])
    BY <1>1, RoomDef, ItemsRoomFacts
  <1>4. \A k \in 1..n : ItemRoom(Room, f, o.of[f][k]) \in Nat
    BY <1>2, RoomDef, ItemRoomType
  <1>5. \A k \in 1..n : s[k - 1] <= s[k]
    <2> SUFFICES ASSUME NEW k \in 1..n PROVE s[k - 1] <= s[k]
      OBVIOUS
    <2>1. PICK a : a = ItemRoom(Room, f, o.of[f][k])
      OBVIOUS
    <2>2. a \in Nat /\ s[k] = s[k - 1] + a
      BY <1>3, <1>4, <2>1
    <2>3. k - 1 \in 0..n
      BY <1>2
    <2>4. s[k - 1] \in Nat
      BY <1>3, <2>3
    <2>5. QED
      BY <2>2, <2>4
  <1>6. j \in 0..n /\ n \in 0..n /\ j <= n /\ j - 1 \in 0..n
    BY <1>1, <1>2
  <1>7. s[j] <= s[n]
    BY <1>2, <1>3, <1>5, <1>6, Grows
  <1>8. s[j - 1] \in Nat
    BY <1>3, <1>6
  <1>9. QED
    BY <1>1, <1>3, <1>4, <1>7, <1>8

\* The room of all the values of the field a call is at.
AllItems(t) == ItemsRoom(Room, t.obj, FieldOf(t))[Len(ValuesOf(t))]

\* The room of a field that the dict has.
LEMMA RoomAtField ==
    ASSUME NEW t \in FrameType, t.i <= Len(FieldOrder[t.msg]), NEW f, f = FieldOf(t),
           f \in DOMAIN t.obj.of
    PROVE  /\ FieldsLeft(t) \in Nat /\ AllItems(t) \in Nat /\ Room[t.obj][t.msg] \in Nat
           /\ AddedLen(f, AllItems(t), FALSE) \in Nat
           /\ Packed[f] => AllItems(t) <= AddedLen(f, AllItems(t), FALSE)
           /\ FieldsRoom(Room, t.obj, t.msg)[t.i] =
                 FieldsLeft(t) + (IF Packed[f] THEN 10 + AddedLen(f, AllItems(t), FALSE)
                                               ELSE AllItems(t))
           /\ FieldsRoom(Room, t.obj, t.msg)[t.i] <= Room[t.obj][t.msg]
  <1>1. /\ t.obj \in Object /\ t.msg \in Msg /\ t.i \in 1..Len(FieldOrder[t.msg])
        /\ f \in Field /\ ValuesOf(t) = t.obj.of[f] /\ Len(ValuesOf(t)) \in Nat
    BY FieldFacts
  <1>2. PICK n : n = Len(ValuesOf(t))
    OBVIOUS
  <1>3. PICK all : all = ItemsRoom(Room, t.obj, f)[n]
    OBVIOUS
  <1>4. AllItems(t) = all
    BY <1>2, <1>3, Zenon DEF AllItems
  <1>5. all \in Nat
    <2>1. n = Len(t.obj.of[f]) /\ n \in 0..n
      BY <1>1, <1>2
    <2>2. ItemsRoom(Room, t.obj, f) \in [0..n -> Nat]
      BY <1>1, <2>1, RoomDef, ItemsRoomFacts
    <2>3. ItemsRoom(Room, t.obj, f)[n] \in Nat
      BY <2>1, <2>2
    <2>4. QED
      BY <1>3, <2>3, Zenon
  <1>6. PICK a : a = AddedLen(f, all, FALSE)
    OBVIOUS
  <1>7. a \in Nat
    BY <1>1, <1>5, <1>6, AddedFacts
  <1>8. Packed[f] => all <= a
    <2>1. Packed[f] => Boxed(f)
      BY DEF Boxed
    <2>2. f \in Field /\ all \in Nat /\ all <= all
      BY <1>1, <1>5
    <2>3. Boxed(f) => all <= AddedLen(f, all, FALSE)
      BY <2>2, BoxedGrows
    <2>4. QED
      BY <1>6, <2>1, <2>3
  <1>9. FieldRoom(Room, t.obj, f) = IF Packed[f] THEN 10 + a ELSE all
    <2>1. all = ItemsRoom(Room, t.obj, f)[Len(t.obj.of[f])]
      BY <1>1, <1>2, <1>3, Zenon
    <2>2. FieldRoom(Room, t.obj, f) = IF Packed[f] THEN MSG_RESERVE_BYTES + a ELSE all
      BY <1>6, <2>1, Zenon DEF FieldRoom
    <2>3. QED
      BY <2>2 DEF MSG_RESERVE_BYTES
  <1>10. PICK l, r, w : /\ l = FieldsRoom(Room, t.obj, t.msg)[t.i - 1]
                        /\ r = FieldsRoom(Room, t.obj, t.msg)[t.i]
                        /\ w = Room[t.obj][t.msg]
    OBVIOUS
  <1>11. l \in Nat /\ r = l + FieldRoom(Room, t.obj, f) /\ r <= w
    BY <1>1, <1>10, FieldsRoomAt DEF FieldOf
  <1>12. w \in Nat
    BY <1>1, <1>10, RoomDef
  <1>13. FieldsLeft(t) = l
    BY <1>10, Zenon DEF FieldsLeft
  <1>14. QED
    BY <1>4, <1>5, <1>6, <1>7, <1>8, <1>9, <1>10, <1>11, <1>12, <1>13

\* The room of one value of it.
LEMMA RoomAtItem ==
    ASSUME NEW t \in FrameType, t.i <= Len(FieldOrder[t.msg]), NEW f, f = FieldOf(t),
           f \in DOMAIN t.obj.of, t.j \in 1..Len(ValuesOf(t))
    PROVE  /\ ItemsLeft(t) \in Nat /\ ItemRoom(Room, f, ItemOf(t)) \in Nat
           /\ ItemsRoom(Room, t.obj, f)[t.j] = ItemsLeft(t) + ItemRoom(Room, f, ItemOf(t))
           /\ ItemsRoom(Room, t.obj, f)[t.j] <= AllItems(t)
  <1>1. /\ t.obj \in Object /\ f \in Field /\ ValuesOf(t) = t.obj.of[f]
    BY FieldFacts
  <1>2. ItemOf(t) = t.obj.of[f][t.j] /\ t.j \in 1..Len(t.obj.of[f])
    BY <1>1 DEF ItemOf
  <1>3. ItemsLeft(t) = ItemsRoom(Room, t.obj, f)[t.j - 1]
    BY Zenon DEF ItemsLeft
  <1>4. AllItems(t) = ItemsRoom(Room, t.obj, f)[Len(t.obj.of[f])]
    BY <1>1, Zenon DEF AllItems
  <1>5. QED
    BY <1>1, <1>2, <1>3, <1>4, ItemsRoomAt

-----------------------------------------------------------------------------
(* SizeInv is inductive: pass 1 needs no more room than pass 0 has found.  *)

\* What SizeInv says of one call.
FrameSized(fr, start, waits) ==
    /\ WellTyped[fr.obj][fr.msg]
    /\ IF pass = 0 THEN FrameCounts(fr, waits) ELSE FrameFits(fr, start)

\* SizeInv is kept for the calls that wait.
LEMMA SizeBelow ==
    ASSUME WalkInv, SizeInv, frames # << >>, NEW n, n = Len(frames),
           \A k \in 1..(n - 1) : frames'[k] = frames[k], dict' = dict, pass' = pass,
           Len(mem') = Len(mem), Calls' \in Nat, Calls' >= n, NEW k \in 1..(n - 1)
    PROVE  FrameSized(frames[k], CallStart(k), k < Calls)'
  <1>1. n \in Nat \ {0} /\ Calls = n + Len(ret) /\ Len(ret) \in Nat
    <2>1. Len(<< >>) = 0
      OBVIOUS
    <2>2. PICK t : t = frames[n]
      OBVIOUS
    <2>3. n \in Nat \ {0} /\ Calls = n + Len(ret) /\ (ret # << >> => Len(ret) = 1)
      BY <2>2, TopFacts
    <2>4. QED
      BY <2>1, <2>3
  <1>2. k \in 1..n /\ k < Calls /\ k < Calls'
    BY <1>1
  <1>3. PICK a, s : a = frames[k] /\ s = CallStart(k)
    OBVIOUS
  <1>4. CallStart(k)' = s /\ frames'[k] = a
    BY <1>1, <1>2, <1>3, CallsBelow
  <1>5. FrameSized(a, s, TRUE)
    BY <1>2, <1>3 DEF SizeInv, FrameSized, FrameCounts
  <1>6. FrameSized(a, s, TRUE)'
    BY <1>5 DEF FrameSized, FrameCounts, FrameFits
  <1>7. QED
    BY <1>2, <1>4, <1>6 DEF FrameSized, FrameCounts

\* SizeInv is kept when the innermost call changes.
LEMMA SizeSet ==
    ASSUME WalkInv, SizeInv, frames # << >>, NEW n, n = Len(frames), NEW t, t = frames[n],
           NEW fr \in FrameType, SetTop(fr), fr.obj = t.obj, fr.msg = t.msg,
           dict' = dict, pass' = pass, ret' = << >>, raised' = FALSE, Len(mem') = Len(mem),
           packed' <=> fr.j > 0 /\ Packed[FieldOf(fr)],
           pass = 0 => FrameCounts(fr, FALSE),
           pass = 1 => FrameFits(fr, CallStart(n)) /\ t.buf <= fr.buf
    PROVE  SizeInv'
  <1>1. frames \in Seq(FrameType) /\ pass \in {0, 1}
    BY DEF WalkInv
  <1>2. /\ n \in Nat \ {0}
        /\ frames' \in Seq(FrameType) /\ Len(frames') = n /\ frames' # << >>
        /\ \A k \in 1..(n - 1) : frames'[k] = frames[k]
        /\ frames'[n] = fr
    <2> HIDE DEF FrameType
    <2>1. QED
      BY <1>1, FramesSet
  <1>3. Calls' = n
    BY <1>2 DEF Calls
  <1>4. n \in Nat /\ n \in 1..n
    BY <1>2
  <1>5. PICK s : s = CallStart(n)
    OBVIOUS
  <1>6. CallStart(n)' = s
    BY <1>2, <1>4, <1>5, CallsBelow
  <1>7. FrameSized(fr, s, FALSE)'
    <2>1. WellTyped[fr.obj][fr.msg]
      BY <1>4 DEF SizeInv
    <2>2. FrameSized(fr, s, FALSE)
      BY <1>1, <1>5, <2>1 DEF FrameSized
    <2>3. QED
      BY <2>2 DEF FrameSized, FrameCounts, FrameFits
  <1>8. ASSUME NEW k \in 1..n PROVE FrameSized(frames[k], CallStart(k), k < Calls)'
    <2>1. CASE k = n
      <3>1. ~(k < Calls')
        BY <1>2, <1>3, <2>1
      <3>2. QED
        BY <1>2, <1>6, <1>7, <2>1, <3>1 DEF FrameSized, FrameCounts
    <2>2. CASE k # n
      <3>1. k \in 1..(n - 1) /\ Calls' \in Nat /\ Calls' >= n
        BY <1>2, <1>3, <2>2
      <3>2. QED
        BY <1>2, <3>1, SizeBelow
    <2>3. QED
      BY <2>1, <2>2
  <1>9. pass = 1 => Nested'
    <2> SUFFICES ASSUME pass = 1, NEW j \in 1..n, NEW k \in 1..n, j < k
                 PROVE  frames'[j].valuebuf + MSG_RESERVE_BYTES <= frames'[k].buf
      BY <1>2 DEF Nested
    <2>1. frames[j].valuebuf + MSG_RESERVE_BYTES <= frames[k].buf
      BY DEF SizeInv, Nested
    <2>2. j \in 1..(n - 1) /\ frames'[j] = frames[j]
      BY <1>2
    <2>3. frames[j] \in FrameType /\ frames[k] \in FrameType
      <3> HIDE DEF FrameType
      <3>1. QED
        BY <1>1
    <2>4. CASE k = n
      <3>1. PICK a, b, c : a = frames[j].valuebuf /\ b = t.buf /\ c = fr.buf
        OBVIOUS
      <3>2. a \in Int /\ b \in Int /\ c \in Int
        BY <2>3, <2>4, <3>1, FrameInts
      <3>3. a + 10 <= b /\ b <= c
        BY <2>1, <2>4, <3>1 DEF MSG_RESERVE_BYTES
      <3>4. a + 10 <= c
        BY <3>2, <3>3
      <3>5. QED
        BY <1>2, <2>2, <2>4, <3>1, <3>4 DEF MSG_RESERVE_BYTES
    <2>5. CASE k # n
      <3>1. k \in 1..(n - 1)
        BY <1>2, <2>5
      <3>2. QED
        BY <1>2, <2>1, <2>2, <3>1
    <2>6. QED
      BY <2>4, <2>5
  <1>10. PackedInRun'
    BY <1>2 DEF PackedInRun
  <1>11. pass' = 1 => Len(mem') = Room[dict'][RootMsg] /\ Nested'
    BY <1>9 DEF SizeInv
  <1>12. QED
    BY <1>2, <1>8, <1>10, <1>11 DEF SizeInv, FrameSized

\* SizeInv is kept when a call is made.
LEMMA SizePush ==
    ASSUME WalkInv, SizeInv, frames # << >>, NEW n, n = Len(frames), NEW t, t = frames[n],
           NEW fr \in FrameType, NEW new \in FrameType,
           frames' = Append([frames EXCEPT ![Len(frames)] = fr], new),
           fr.obj = t.obj, fr.msg = t.msg, fr.buf = t.buf, new.j = 0,
           dict' = dict, pass' = pass, ret' = << >>, raised' = FALSE, mem' = mem,
           packed' = FALSE, WellTyped[new.obj][new.msg],
           pass = 0 => FrameCounts(fr, TRUE) /\ FrameCounts(new, FALSE),
           pass = 1 => /\ FrameFits(fr, CallStart(n))
                       /\ FrameFits(new, fr.valuebuf + MSG_RESERVE_BYTES)
                       /\ fr.buf <= fr.valuebuf /\ fr.valuebuf + MSG_RESERVE_BYTES <= new.buf
    PROVE  SizeInv'
  <1>1. frames \in Seq(FrameType) /\ pass \in {0, 1}
    BY DEF WalkInv
  <1>2. /\ n \in Nat \ {0}
        /\ frames' \in Seq(FrameType) /\ Len(frames') = n + 1 /\ frames' # << >>
        /\ \A k \in 1..(n - 1) : frames'[k] = frames[k]
        /\ frames'[n] = fr /\ frames'[n + 1] = new
    <2> HIDE DEF FrameType
    <2>1. QED
      BY <1>1, FramesPush
  <1>3. Calls' = n + 1
    BY <1>2 DEF Calls
  <1>4. n \in Nat /\ n \in 1..n
    BY <1>2
  <1>5. PICK s, u : s = CallStart(n) /\ u = fr.valuebuf + MSG_RESERVE_BYTES
    OBVIOUS
  <1>6. CallStart(n)' = s /\ CallStart(n + 1)' = u
    <2>1. CallStart(n)' = s
      BY <1>2, <1>4, <1>5, CallsBelow
    <2>2. n + 1 # 1 /\ n + 1 - 1 = n
      BY <1>2
    <2>3. CallStart(n + 1)' = frames'[n + 1 - 1].valuebuf + MSG_RESERVE_BYTES
      BY <2>2 DEF CallStart
    <2>4. QED
      BY <1>2, <1>5, <2>1, <2>2, <2>3
  <1>7. FrameSized(fr, s, TRUE)' /\ FrameSized(new, u, FALSE)'
    <2>1. WellTyped[fr.obj][fr.msg]
      BY <1>4 DEF SizeInv
    <2>2. FrameSized(fr, s, TRUE) /\ FrameSized(new, u, FALSE)
      BY <1>1, <1>5, <2>1 DEF FrameSized
    <2>3. QED
      BY <2>2 DEF FrameSized, FrameCounts, FrameFits
  <1>8. ASSUME NEW k \in 1..(n + 1) PROVE FrameSized(frames[k], CallStart(k), k < Calls)'
    <2>1. CASE k = n
      <3>1. k < Calls'
        BY <1>2, <1>3, <2>1
      <3>2. QED
        BY <1>2, <1>6, <1>7, <2>1, <3>1 DEF FrameSized, FrameCounts
    <2>2. CASE k = n + 1
      <3>1. ~(k < Calls')
        BY <1>2, <1>3, <2>2
      <3>2. QED
        BY <1>2, <1>6, <1>7, <2>2, <3>1 DEF FrameSized, FrameCounts
    <2>3. CASE k # n /\ k # n + 1
      <3>1. k \in 1..(n - 1) /\ Calls' \in Nat /\ Calls' >= n
        BY <1>2, <1>3, <2>3
      <3>2. QED
        BY <1>2, <3>1, SizeBelow
    <2>4. QED
      BY <2>1, <2>2, <2>3
  <1>9. pass = 1 => Nested'
    <2> SUFFICES ASSUME pass = 1, NEW j \in 1..(n + 1), NEW k \in 1..(n + 1), j < k
                 PROVE  frames'[j].valuebuf + MSG_RESERVE_BYTES <= frames'[k].buf
      BY <1>2 DEF Nested
    <2>0. \A a, b \in 1..n : a < b => frames[a].valuebuf + MSG_RESERVE_BYTES <= frames[b].buf
      BY DEF SizeInv, Nested
    <2>1. CASE k # n + 1
      <3>1. j \in 1..(n - 1) /\ k \in 1..n /\ (k = n \/ k \in 1..(n - 1))
        BY <1>2, <2>1
      <3>2. frames'[j] = frames[j] /\ frames'[k].buf = frames[k].buf
        BY <1>2, <3>1
      <3>3. j \in 1..n
        BY <3>1
      <3>4. QED
        BY <2>0, <3>1, <3>2, <3>3
    <2>2. CASE k = n + 1 /\ j = n
      BY <1>2, <2>2
    <2>3. CASE k = n + 1 /\ j # n
      <3>1. j \in 1..(n - 1) /\ j \in 1..n /\ j < n
        BY <1>2, <2>3
      <3>2. frames[j].valuebuf + MSG_RESERVE_BYTES <= fr.buf
        BY <1>4, <2>0, <3>1
      <3>3. frames[j] \in FrameType
        <4> HIDE DEF FrameType
        <4>1. QED
          BY <1>1, <3>1
      <3>4. PICK a, b, c, d : /\ a = frames[j].valuebuf /\ b = fr.buf /\ c = fr.valuebuf /\ d = new.buf
        OBVIOUS
      <3>5. a \in Int /\ b \in Int /\ c \in Int /\ d \in Int
        BY <3>3, <3>4, FrameInts
      <3>6. a + 10 <= b /\ b <= c /\ c + 10 <= d
        BY <3>2, <3>4 DEF MSG_RESERVE_BYTES
      <3>7. a + 10 <= d
        BY <3>5, <3>6
      <3>8. QED
        BY <1>2, <2>3, <3>1, <3>4, <3>7 DEF MSG_RESERVE_BYTES
    <2>4. QED
      BY <2>1, <2>2, <2>3
  <1>10. PackedInRun'
    BY <1>2 DEF PackedInRun
  <1>11. pass' = 1 => Len(mem') = Room[dict'][RootMsg] /\ Nested'
    BY <1>9 DEF SizeInv
  <1>12. QED
    BY <1>2, <1>8, <1>10, <1>11 DEF SizeInv, FrameSized

\* SizeInv is kept when a call returns.
LEMMA SizePop ==
    ASSUME WalkInv, SizeInv, frames # << >>, NEW n, n = Len(frames), NEW t, t = frames[n],
           t.j = 0, NEW r \in Nat, ReturnWith(r),
           dict' = dict, pass' = pass, raised' = FALSE, mem' = mem, packed' = packed,
           IF pass = 0 THEN r = Room[t.obj][t.msg] ELSE r <= Room[t.obj][t.msg]
    PROVE  SizeInv'
  <1>1. frames \in Seq(FrameType) /\ pass \in {0, 1}
    BY DEF WalkInv
  <1>2. /\ n \in Nat \ {0}
        /\ frames' \in Seq(FrameType) /\ Len(frames') = n - 1
        /\ n = 1 => frames' = << >>
        /\ \A k \in 1..(n - 1) : frames'[k] = frames[k]
        /\ ret' = << r >> /\ Len(ret') = 1 /\ ret'[1] = r
    <2> HIDE DEF FrameType
    <2>1. QED
      BY <1>1, FramesPop
  <1>3. Calls' = n
    BY <1>2 DEF Calls
  <1>4. n \in Nat /\ n \in 1..n
    BY <1>2
  <1>5. ASSUME NEW k \in 1..(n - 1) PROVE FrameSized(frames[k], CallStart(k), k < Calls)'
    <2>1. Calls' \in Nat /\ Calls' >= n
      BY <1>2, <1>3
    <2>2. QED
      BY <1>2, <2>1, SizeBelow
  <1>6. pass = 1 => Nested'
    <2> SUFFICES ASSUME pass = 1, NEW j \in 1..(n - 1), NEW k \in 1..(n - 1), j < k
                 PROVE  frames'[j].valuebuf + MSG_RESERVE_BYTES <= frames'[k].buf
      BY <1>2 DEF Nested
    <2>1. j \in 1..n /\ k \in 1..n
      BY <1>2
    <2>2. frames[j].valuebuf + MSG_RESERVE_BYTES <= frames[k].buf
      BY <2>1 DEF SizeInv, Nested
    <2>3. QED
      BY <1>2, <2>2
  <1>7. ~packed
    BY DEF SizeInv, PackedInRun
  <1>8. PackedInRun'
    <2> SUFFICES ASSUME frames' # << >>
                 PROVE  ~(frames'[Len(frames')].j > 0 /\ Packed[FieldOf(frames'[Len(frames')])])
      BY <1>7 DEF PackedInRun
    <2>1. PICK a : a = frames[n - 1]
      OBVIOUS
    <2>2. n - 1 \in 1..(n - 1) /\ n - 1 \in 1..n
      BY <1>2
    <2>3. frames'[Len(frames')] = a
      BY <1>2, <2>1, <2>2
    <2>4. a \in FrameType
      <3> HIDE DEF FrameType
      <3>1. QED
        BY <1>1, <2>1, <2>2
    <2>5. n - 1 < Calls
      <3>1. Calls = n + Len(ret) /\ (ret # << >> => Len(ret) = 1) /\ Len(<< >>) = 0
        BY TopFacts
      <3>2. QED
        BY <1>2, <3>1
    <2>6. FrameWalks(a, TRUE)
      BY <2>1, <2>2, <2>5 DEF WalkInv, FrameWalks
    <2>7. Typ[FieldOf(a)] = "message" /\ a.i <= Len(FieldOrder[a.msg])
      BY <2>6 DEF FrameWalks
    <2>8. PICK f : f = FieldOf(a)
      OBVIOUS
    <2>9. f \in Field
      BY <2>4, <2>7, <2>8, FieldFacts
    <2>10. ~Packed[f]
      BY <2>7, <2>8, <2>9, SubMsgFacts
    <2>11. QED
      BY <2>3, <2>8, <2>10
  <1>9. CallObj(n)' = t.obj /\ CallMsg(n)' = t.msg
    <2>1. CallObj(n)' = CallObj(n) /\ CallMsg(n)' = CallMsg(n)
      BY <1>2, <1>4, CallsBelow
    <2>2. QED
      BY <2>1, TopFacts
  <1>10. LET room == Room[CallObj(Calls)'][CallMsg(Calls)']
         IN  ret'[1] \in Nat /\ IF pass' = 0 THEN ret'[1] = room ELSE ret'[1] <= room
    BY <1>2, <1>3, <1>9
  <1>11. pass' = 1 => Len(mem') = Room[dict'][RootMsg] /\ Nested'
    BY <1>6 DEF SizeInv
  <1>12. QED
    BY <1>2, <1>3, <1>5, <1>8, <1>10, <1>11 DEF SizeInv, FrameSized

\* SizeInv holds at the start of a pass.
LEMMA SizeStart ==
    ASSUME NEW d \in Object, dict' = d, WellTyped[d][RootMsg], NEW buf \in Nat \cup {NULL},
           \/ pass' = 0
           \/ pass' = 1 /\ buf = 0 /\ Len(mem') = Room[d][RootMsg] /\ Room[d][RootMsg] \in Nat,
           frames' = << Frame(d, RootMsg, buf) >>, ret' = << >>, raised' = FALSE, packed' = FALSE
    PROVE  SizeInv'
  <1>1. PICK fr : fr = Frame(d, RootMsg, buf)
    OBVIOUS
  <1>2. frames' = << fr >> /\ Len(frames') = 1 /\ frames' # << >> /\ frames'[1] = fr
    BY <1>1
  <1>3. fr.obj = d /\ fr.msg = RootMsg /\ fr.i = 1 /\ fr.j = 0 /\ fr.len = 0 /\ fr.extralen = 0 /\ fr.buf = buf
    BY <1>1 DEF Frame
  <1>4. FieldsLeft(fr) = 0
    <2>1. RootMsg \in Msg
      BY FieldAssumption DEF FieldAssumption
    <2>2. FieldsRoom(Room, d, RootMsg)[0] = 0
      BY <2>1, RoomDef, FieldsRoomFacts
    <2>3. QED
      BY <1>3, <2>2 DEF FieldsLeft
  <1>5. CallStart(1)' = 0
    BY DEF CallStart
  <1>6. Calls' = 1
    BY <1>2 DEF Calls
  <1>7. pass' = 0 => FrameCounts(fr, FALSE)'
    <2>1. FrameCounts(fr, FALSE)
      BY <1>3, <1>4 DEF FrameCounts
    <2>2. QED
      BY <2>1 DEF FrameCounts
  <1>8. pass' = 1 => FrameFits(fr, 0)'
    <2> SUFFICES ASSUME pass' = 1 PROVE FrameFits(fr, 0)'
      OBVIOUS
    <2>1. fr.buf = 0 + fr.len /\ fr.len <= FieldsLeft(fr) /\ 0 \in Nat
      BY <1>3, <1>4
    <2>2. PICK r \in Nat : r = Room[d][RootMsg]
      OBVIOUS
    <2>3. 0 + Room[fr.obj][fr.msg] <= Len(mem')
      BY <1>3, <2>2
    <2>4. QED
      BY <1>3, <2>1, <2>3 DEF FrameFits
  <1>9. PackedInRun'
    BY <1>2, <1>3 DEF PackedInRun
  <1>10. Nested'
    BY <1>2 DEF Nested
  <1>11. ASSUME NEW k \in 1..Len(frames')
         PROVE  FrameSized(frames[k], CallStart(k), k < Calls)'
    <2>1. k = 1
      BY <1>2
    <2>2. ~(k < Calls')
      BY <1>6, <2>1
    <2>3. QED
      BY <1>2, <1>3, <1>5, <1>7, <1>8, <2>1, <2>2 DEF FrameSized, FrameCounts
  <1>12. QED
    BY <1>9, <1>10, <1>11 DEF SizeInv, FrameSized

LEMMA TopSized ==
    ASSUME WalkInv, SizeInv, frames # << >>, NEW n, n = Len(frames), NEW t, t = frames[n]
    PROVE  /\ pass \in {0, 1} /\ raised = FALSE
           /\ WellTyped[t.obj][t.msg]
           /\ packed <=> t.j > 0 /\ Packed[FieldOf(t)]
           /\ pass = 0 => FrameCounts(t, ret # << >>)
           /\ pass = 1 => FrameFits(t, CallStart(n))
  <1>1. /\ n \in Nat \ {0} /\ Calls = n + Len(ret)
        /\ (ret # << >> => Len(ret) = 1)
    BY TopFacts
  <1>2. n \in 1..Len(frames) /\ (n < Calls <=> ret # << >>)
    <2>1. ret = << >> => Len(ret) = 0
      OBVIOUS
    <2>2. QED
      BY <1>1, <2>1
  <1>3. FrameSized(t, CallStart(n), n < Calls)
    BY <1>2 DEF SizeInv, FrameSized
  <1>4. pass = 0 => FrameCounts(t, ret # << >>)
    <2>1. CASE ret = << >>
      BY <1>2, <1>3, <2>1 DEF FrameSized, FrameCounts
    <2>2. CASE ret # << >>
      BY <1>2, <1>3, <2>2 DEF FrameSized, FrameCounts
    <2>3. QED
      BY <2>1, <2>2
  <1>5. pass \in {0, 1}
    BY DEF WalkInv
  <1>6. QED
    BY <1>3, <1>4, <1>5 DEF FrameSized, SizeInv, PackedInRun

LEMMA SizeAbsentField ==
    ASSUME WalkInv, SizeInv, AbsentField
    PROVE  SizeInv'
  <1>1. PICK z, t : z = Len(frames) /\ t = frames[z]
    OBVIOUS
  <1>2. /\ Between /\ Top.obj.kind = "dict" /\ Top.i <= Len(FieldOrder[Top.msg])
        /\ Field_ \notin DOMAIN Top.obj.of
    BY DEF AbsentField, HasField
  <1>3. /\ frames # << >> /\ t = Top /\ t.j = 0 /\ ret = << >>
        /\ t \in FrameType /\ FieldOf(t) = Field_
        /\ t.obj \in Object /\ t.msg \in Msg /\ t.i \in Nat \ {0} /\ Len(FieldOrder[t.msg]) \in Nat
    BY <1>1, <1>2, BetweenFacts
  <1>4. PICK fr \in FrameType : SetTop(fr) /\ Skipped(fr, t)
    BY <1>1, SkipStep
  <1>5. /\ pass \in {0, 1} /\ raised = FALSE
        /\ WellTyped[t.obj][t.msg]
        /\ packed <=> t.j > 0 /\ Packed[FieldOf(t)]
        /\ pass = 0 => FrameCounts(t, ret # << >>)
        /\ pass = 1 => FrameFits(t, CallStart(z))
    BY <1>1, <1>3, TopSized
  <1>6. /\ fr.obj = t.obj /\ fr.msg = t.msg /\ fr.i = t.i + 1 /\ fr.j = 0
        /\ fr.buf = t.buf /\ fr.len = t.len /\ fr.extralen = t.extralen
    BY <1>4 DEF Skipped
  <1>7. FieldsLeft(fr) = FieldsLeft(t)
    <2>1. t.i \in 1..Len(FieldOrder[t.msg])
      BY <1>2, <1>3
    <2>2. FieldRoom(Room, t.obj, FieldOrder[t.msg][t.i]) = 0
      BY <1>2, <1>3 DEF FieldRoom, FieldOf
    <2>3. PICK a \in Nat : a = FieldsRoom(Room, t.obj, t.msg)[t.i - 1]
      BY <1>3, <2>1, FieldsRoomAt
    <2>4. FieldsRoom(Room, t.obj, t.msg)[t.i] = a
      BY <1>3, <2>1, <2>2, <2>3, FieldsRoomAt
    <2>5. fr.i - 1 = t.i
      BY <1>3, <1>6
    <2>6. QED
      BY <1>6, <2>3, <2>4, <2>5 DEF FieldsLeft
  <1>8. pass = 0 => FrameCounts(fr, FALSE)
    BY <1>3, <1>5, <1>6, <1>7 DEF FrameCounts
  <1>9. pass = 1 => FrameFits(fr, CallStart(z)) /\ t.buf <= fr.buf
    <2> SUFFICES ASSUME pass = 1 PROVE FrameFits(fr, CallStart(z)) /\ t.buf <= fr.buf
      OBVIOUS
    <2>1. t.buf \in Int
      BY <1>3, FrameInts
    <2>2. QED
      BY <1>3, <1>5, <1>6, <1>7, <2>1 DEF FrameFits
  <1>10. /\ dict' = dict /\ pass' = pass /\ ret' = << >> /\ raised' = FALSE
         /\ Len(mem') = Len(mem)
    BY <1>3, <1>5 DEF AbsentField
  <1>11. packed' <=> fr.j > 0 /\ Packed[FieldOf(fr)]
    <2>1. ~packed /\ packed' = packed
      BY <1>3, <1>5 DEF AbsentField
    <2>2. ~(fr.j > 0)
      BY <1>6
    <2>3. QED
      BY <2>1, <2>2
  <1>12. QED
    BY <1>1, <1>3, <1>4, <1>6, <1>8, <1>9, <1>10, <1>11, SizeSet

LEMMA SizeStartField ==
    ASSUME WalkInv, SizeInv, packed \in BOOLEAN, status = "encoding", StartField
    PROVE  SizeInv' /\ status' = "encoding"
  <1>1. PICK z, t, f : z = Len(frames) /\ t = frames[z] /\ f = FieldOf(t)
    OBVIOUS
  <1>2. /\ Between /\ Top.obj.kind = "dict" /\ Top.i <= Len(FieldOrder[Top.msg])
    BY DEF StartField, HasField
  <1>3. /\ frames # << >> /\ t = Top /\ t.j = 0 /\ ret = << >>
        /\ t \in FrameType /\ FieldOf(t) = Field_
        /\ t.obj \in Object /\ t.msg \in Msg /\ t.i \in Nat \ {0} /\ Len(FieldOrder[t.msg]) \in Nat
    BY <1>1, <1>2, BetweenFacts
  <1>4. /\ pass \in {0, 1} /\ raised = FALSE
        /\ WellTyped[t.obj][t.msg]
        /\ packed <=> t.j > 0 /\ Packed[FieldOf(t)]
        /\ pass = 0 => FrameCounts(t, ret # << >>)
        /\ pass = 1 => FrameFits(t, CallStart(z))
    BY <1>1, <1>3, TopSized
  <1>5. packed = FALSE
    BY <1>3, <1>4
  <1>6. status' = "encoding"
    BY <1>4, <1>5 DEF StartField
  <1>7. PICK room \in Nat : room = IF Packed[f] THEN MSG_RESERVE_BYTES ELSE 0
    BY DEF MSG_RESERVE_BYTES
  <1>8. f \in DOMAIN t.obj.of /\ packed' = (packed \/ Packed[f])
    BY <1>1, <1>6, StartStep
  <1>9. PICK fr \in FrameType : SetTop(fr) /\ Started(fr, t, room)
    BY <1>1, <1>6, <1>7, StartStep
  <1>10. /\ fr.obj = t.obj /\ fr.msg = t.msg /\ fr.i = t.i /\ fr.j = 1
         /\ fr.buf = t.buf /\ fr.len = t.len /\ fr.extralen = t.extralen + room
         /\ fr.fieldbuf = Plus(t.buf, room) /\ fr.fieldlen = 0 /\ fr.valuebuf = Plus(t.buf, room)
    BY <1>9 DEF Started
  <1>11. f \in Field /\ FieldOf(fr) = f
    BY <1>1, <1>2, <1>3, <1>10, FieldFacts DEF FieldOf
  <1>12. FieldsLeft(fr) = FieldsLeft(t) /\ ItemsLeft(fr) = 0
    <2>1. ItemsRoom(Room, t.obj, f)[0] = 0
      BY <1>3, <1>8, <1>11, RoomDef, ItemsRoomFacts
    <2>2. QED
      BY <1>10, <1>11, <2>1 DEF FieldsLeft, ItemsLeft
  <1>13. pass = 0 => FrameCounts(fr, FALSE)
    <2> SUFFICES ASSUME pass = 0 PROVE FrameCounts(fr, FALSE)
      OBVIOUS
    <2>1. PICK l \in Nat, e \in Nat : l = t.len /\ e = t.extralen
      BY <1>3, FrameInts
    <2>2. l + e = FieldsLeft(t)
      BY <1>3, <1>4, <1>5, <2>1 DEF FrameCounts
    <2>3. fr.len + fr.extralen = FieldsLeft(fr) + room
      BY <1>10, <1>12, <2>1, <2>2
    <2>4. QED
      BY <1>7, <1>10, <1>11, <1>12, <2>1, <2>2, <2>3 DEF FrameCounts
  <1>14. pass = 1 => FrameFits(fr, CallStart(z)) /\ t.buf <= fr.buf
    <2> SUFFICES ASSUME pass = 1 PROVE FrameFits(fr, CallStart(z)) /\ t.buf <= fr.buf
      OBVIOUS
    <2>1. PICK s \in Nat, l \in Nat : s = CallStart(z) /\ l = t.len
      BY <1>3, <1>4, <1>5, FrameInts DEF FrameFits
    <2>2. /\ s + Room[fr.obj][fr.msg] <= Len(mem) /\ t.buf = s + l /\ l <= FieldsLeft(fr)
      BY <1>4, <1>5, <1>10, <1>12, <2>1 DEF FrameFits
    <2>3. fr.fieldbuf = t.buf + room /\ fr.valuebuf = fr.fieldbuf + 0 /\ t.buf <= t.buf
      <3>1. PICK b \in Nat : b = t.buf
        BY <2>1, <2>2
      <3>2. Plus(b, room) = b + room
        BY PlusFacts
      <3>3. QED
        BY <1>10, <3>1, <3>2
    <2>4. QED
      BY <1>7, <1>10, <1>11, <1>12, <2>1, <2>2, <2>3 DEF FrameFits
  <1>15. /\ dict' = dict /\ pass' = pass /\ ret' = << >> /\ raised' = FALSE
         /\ Len(mem') = Len(mem)
    BY <1>3, <1>4, <1>5 DEF StartField
  <1>16. packed' <=> fr.j > 0 /\ Packed[FieldOf(fr)]
    <2>1. packed' <=> Packed[f]
      BY <1>5, <1>8
    <2>2. fr.j > 0
      BY <1>10
    <2>3. QED
      BY <1>11, <2>1, <2>2
  <1>17. QED
    BY <1>1, <1>3, <1>6, <1>9, <1>10, <1>13, <1>14, <1>15, <1>16, SizeSet

\* A value takes the room pass 0 has counted for it: all of it in pass 0, no
\* more in pass 1.
LEMMA SizeAddValue ==
    ASSUME WalkInv, SizeInv, packed \in BOOLEAN, status = "encoding", AtValue,
           NEW n \in Nat, NEW data, AddValue(n, data),
           NEW z, z = Len(frames), NEW t, t = frames[z], NEW f, f = FieldOf(t),
           NEW len \in Nat, len = AddedLen(f, n, packed),
           NEW room \in Nat, room = ItemRoom(Room, f, ItemOf(t)),
           NEW free \in {0, 10}, free = 0 <=> ret = << >>,
           ret # << >> => ~Packed[f],
           pass = 0 => room = len + free, pass = 1 => len <= room,
           dict' = dict, pass' = pass, ret' = << >>, raised' = raised, packed' = packed
    PROVE  SizeInv' /\ status' = "encoding"
  <1>1. /\ frames # << >> /\ t = Top /\ f = Field_ /\ ValuesOf(t) = Values
        /\ t \in FrameType /\ FrameWalks(t, ret # << >>)
        /\ t.obj \in Object /\ t.msg \in Msg /\ t.i \in 1..Len(FieldOrder[t.msg])
        /\ f \in Field /\ f \in FieldsOf[t.msg] /\ f \in DOMAIN t.obj.of
        /\ ValuesOf(t) = t.obj.of[f] /\ Len(ValuesOf(t)) \in Nat
        /\ t.j \in 1..Len(ValuesOf(t))
        /\ ItemOf(t) \in Object /\ ItemOf(t) = Values[Top.j]
    BY ValueOfFacts
  <1>2. /\ pass \in {0, 1} /\ raised = FALSE
        /\ WellTyped[t.obj][t.msg]
        /\ packed <=> t.j > 0 /\ Packed[FieldOf(t)]
        /\ pass = 0 => FrameCounts(t, ret # << >>)
        /\ pass = 1 => FrameFits(t, CallStart(z))
    BY <1>1, TopSized
  <1>3. Store(f, n, data, t.valuebuf, packed)
    BY <1>1, AddStep
  <1>4. PICK fr \in FrameType : SetTop(fr) /\ Added(fr, t, len)
    BY <1>1, AddStep
  <1>5. /\ fr.obj = t.obj /\ fr.msg = t.msg /\ fr.i = t.i /\ fr.j = t.j + 1
        /\ fr.buf = t.buf /\ fr.len = t.len /\ fr.extralen = t.extralen
        /\ fr.fieldbuf = t.fieldbuf /\ fr.fieldlen = t.fieldlen + len
        /\ fr.valuebuf = Plus(t.valuebuf, len)
    BY <1>4 DEF Added
  <1>6. FieldOf(fr) = f /\ FieldsLeft(fr) = FieldsLeft(t) /\ fr.j > 0 /\ t.j > 0 /\ t.j \in Nat
    BY <1>1, <1>5 DEF FieldOf, FieldsLeft
  <1>7. t.i <= Len(FieldOrder[t.msg])
    BY <1>1, OrderFacts
  <1>8. PICK fl \in Nat, il \in Nat, all \in Nat, size \in Nat :
           fl = FieldsLeft(t) /\ il = ItemsLeft(t) /\ all = AllItems(t) /\ size = Room[t.obj][t.msg]
    BY <1>1, <1>7, RoomAtField, RoomAtItem
  <1>9. ItemsLeft(fr) = il + room /\ il + room <= all
    <2>1. ItemsRoom(Room, t.obj, f)[t.j] = il + room /\ ItemsRoom(Room, t.obj, f)[t.j] <= all
      BY <1>1, <1>7, <1>8, RoomAtItem
    <2>2. fr.j - 1 = t.j
      BY <1>5, <1>6
    <2>3. QED
      BY <1>5, <1>6, <2>1, <2>2 DEF ItemsLeft
  <1>10. PICK key \in {0, 10} : key = IF Packed[f] THEN 10 ELSE 0
    OBVIOUS
  <1>11. fl + key + all <= size
    <2>1. PICK a \in Nat : a = AddedLen(f, AllItems(t), FALSE)
      BY <1>1, <1>7, RoomAtField
    <2>2. Packed[f] => all <= a
      BY <1>1, <1>7, <1>8, <2>1, RoomAtField
    <2>3. fl + (IF Packed[f] THEN 10 + a ELSE all) <= size
      BY <1>1, <1>7, <1>8, <2>1, RoomAtField
    <2>4. CASE Packed[f]
      BY <1>10, <2>2, <2>3, <2>4
    <2>5. CASE ~Packed[f]
      BY <1>10, <2>3, <2>5
    <2>6. QED
      BY <2>4, <2>5
  <1>12. PICK l \in Nat, e \in Nat, vl \in Nat : l = t.len /\ e = t.extralen /\ vl = t.fieldlen
    BY <1>1, FrameInts
  <1>13. pass = 0 => FrameCounts(fr, FALSE) /\ mem' = mem /\ status' = status
    <2> SUFFICES ASSUME pass = 0 PROVE FrameCounts(fr, FALSE) /\ mem' = mem /\ status' = status
      OBVIOUS
    <2>1. t.valuebuf = NULL
      BY <1>1, <1>6 DEF FrameWalks
    <2>2. mem' = mem /\ status' = status
      BY <1>3, <2>1 DEF Store
    <2>3. CASE Packed[f]
      <3>1. ret = << >> /\ room = len
        BY <2>3
      <3>2. l + e = fl + 10 /\ vl = il
        BY <1>2, <1>6, <1>8, <1>12, <2>3 DEF FrameCounts, MSG_RESERVE_BYTES
      <3>3. fr.len + fr.extralen = FieldsLeft(fr) + MSG_RESERVE_BYTES /\ fr.fieldlen = ItemsLeft(fr)
        BY <1>5, <1>6, <1>8, <1>9, <1>12, <3>1, <3>2 DEF MSG_RESERVE_BYTES
      <3>4. QED
        BY <1>6, <2>2, <2>3, <3>3 DEF FrameCounts
    <2>4. CASE ~Packed[f]
      <3>1. l + e + vl = fl + il + free
        BY <1>2, <1>6, <1>8, <1>12, <2>4 DEF FrameCounts, MSG_RESERVE_BYTES
      <3>2. fr.len + fr.extralen + fr.fieldlen = FieldsLeft(fr) + ItemsLeft(fr) + 0
        <4>1. l + e + (vl + len) = fl + (il + room)
          <5>1. PICK a \in Nat, r \in Nat : a = len /\ r = room
            OBVIOUS
          <5>2. r = a + free
            BY <5>1
          <5>3. l + e + (vl + a) = fl + (il + r)
            BY <3>1, <5>2
          <5>4. QED
            BY <5>1, <5>3
        <4>2. /\ fr.len = l /\ fr.extralen = e /\ fr.fieldlen = vl + len
              /\ FieldsLeft(fr) = fl /\ ItemsLeft(fr) = il + room
          BY <1>5, <1>6, <1>8, <1>9, <1>12
        <4>3. QED
          BY <4>1, <4>2
      <3>3. QED
        BY <1>6, <2>2, <2>4, <3>2 DEF FrameCounts
    <2>5. QED
      BY <2>3, <2>4
  <1>14. pass = 1 => FrameFits(fr, CallStart(z)) /\ t.buf <= fr.buf /\ Len(mem') = Len(mem)
                     /\ status' = status
    <2> SUFFICES ASSUME pass = 1
                 PROVE  FrameFits(fr, CallStart(z)) /\ t.buf <= fr.buf /\ Len(mem') = Len(mem)
                        /\ status' = status
      OBVIOUS
    <2>1. PICK s \in Nat, c \in Nat : s = CallStart(z) /\ c = Len(mem)
      <3>1. Len(mem) \in Nat
        BY SeqFacts DEF WalkInv
      <3>2. QED
        BY <1>2, <3>1 DEF FrameFits
    <2>2. /\ s + size <= c /\ t.buf = s + l /\ l <= fl
          /\ t.fieldbuf = t.buf + key /\ t.valuebuf = t.fieldbuf + vl /\ vl <= il
      BY <1>2, <1>6, <1>8, <1>10, <1>12, <2>1 DEF FrameFits, MSG_RESERVE_BYTES
    <2>3. PICK v \in Nat : v = t.valuebuf
      BY <2>2
    <2>4. v + len <= c
      BY <1>9, <1>11, <2>2, <2>3
    <2>5. Plus(v, len) = v + len
      BY PlusFacts
    <2>6. v # NULL /\ n # SizeMax
      BY DEF NULL, SizeMax
    <2>7. status' = status
      BY <1>3, <2>1, <2>3, <2>4, <2>6 DEF Store
    <2>8. Len(mem') = Len(mem)
      BY <1>3, StoreFacts DEF WalkInv
    <2>9. fr.len <= FieldsLeft(fr) /\ fr.fieldlen <= ItemsLeft(fr) /\ t.buf <= fr.buf
      <3>1. fr.len = l /\ FieldsLeft(fr) = fl /\ fr.fieldlen = vl + len /\ ItemsLeft(fr) = il + room
        BY <1>5, <1>6, <1>8, <1>9, <1>12
      <3>2. l <= fl /\ vl + len <= il + room
        BY <2>2
      <3>3. fr.buf = t.buf /\ t.buf <= t.buf
        BY <1>5, <2>1, <2>2
      <3>4. QED
        BY <3>1, <3>2, <3>3
    <2>10. fr.valuebuf = fr.fieldbuf + fr.fieldlen
      <3>1. PICK b \in Nat : b = t.fieldbuf
        BY <2>1, <2>2
      <3>2. v + len = b + (vl + len)
        <4>1. v = b + vl
          BY <2>2, <2>3, <3>1
        <4>2. PICK a \in Nat : a = len
          OBVIOUS
        <4>3. v + a = b + (vl + a)
          BY <4>1
        <4>4. QED
          BY <4>2, <4>3
      <3>3. fr.valuebuf = v + len /\ fr.fieldbuf = b /\ fr.fieldlen = vl + len
        BY <1>5, <1>12, <2>3, <2>5, <3>1
      <3>4. QED
        BY <3>2, <3>3
    <2>11. fr.fieldbuf = fr.buf + (IF Packed[f] THEN MSG_RESERVE_BYTES ELSE 0)
      BY <1>5, <1>10, <2>2 DEF MSG_RESERVE_BYTES
    <2>12. s + Room[fr.obj][fr.msg] <= Len(mem) /\ fr.buf = s + fr.len
      BY <1>5, <1>8, <1>12, <2>1, <2>2
    <2>13. FrameFits(fr, s)
      BY <1>6, <2>9, <2>10, <2>11, <2>12 DEF FrameFits
    <2>14. QED
      BY <2>1, <2>7, <2>8, <2>9, <2>13
  <1>15. status' = "encoding" /\ Len(mem') = Len(mem)
    BY <1>2, <1>13, <1>14
  <1>16. packed' <=> fr.j > 0 /\ Packed[FieldOf(fr)]
    BY <1>2, <1>6
  <1>17. raised' = FALSE
    BY <1>2
  <1>18. QED
    BY <1>1, <1>4, <1>5, <1>13, <1>14, <1>15, <1>16, <1>17, SizeSet

LEMMA ItemIsTyped ==
    ASSUME WalkInv, SizeInv, AtValue, NEW z, z = Len(frames), NEW t, t = frames[z],
           NEW f, f = FieldOf(t)
    PROVE  ItemTyped(WellTyped, f, ItemOf(t))
  <1>1. /\ frames # << >> /\ t.obj \in Object /\ t.msg \in Msg
        /\ f \in Field /\ f \in FieldsOf[t.msg] /\ f \in DOMAIN t.obj.of
        /\ ValuesOf(t) = t.obj.of[f] /\ t.j \in 1..Len(ValuesOf(t))
    BY ValueOfFacts
  <1>2. WellTyped[t.obj][t.msg]
    BY <1>1, TopSized
  <1>3. PICK o, j : o = t.obj /\ j = t.j
    OBVIOUS
  <1>4. ItemTyped(WellTyped, f, o.of[f][j])
    BY <1>1, <1>2, <1>3, TypedDef
  <1>5. QED
    BY <1>1, <1>3, <1>4 DEF ItemOf

LEMMA SizeScalar ==
    ASSUME WalkInv, SizeInv, packed \in BOOLEAN, status = "encoding", Scalar
    PROVE  SizeInv' /\ status' = "encoding"
  <1>1. PICK z, t, f : z = Len(frames) /\ t = frames[z] /\ f = FieldOf(t)
    OBVIOUS
  <1>2. AtValue /\ Typ[Field_] # "message"
    BY DEF Scalar
  <1>3. /\ frames # << >> /\ t = Top /\ f = Field_ /\ f \in Field
        /\ FrameWalks(t, ret # << >>) /\ t.j \in 1..Len(ValuesOf(t)) /\ Len(ValuesOf(t)) \in Nat
        /\ ItemOf(t) \in Object /\ ItemOf(t) = Values[Top.j]
    BY <1>1, <1>2, ValueOfFacts
  <1>4. PICK x \in Object : x = ItemOf(t)
    BY <1>3
  <1>5. x.kind = "number"
    BY <1>1, <1>2, <1>3, <1>4, ItemIsTyped DEF ItemTyped
  <1>6. PICK n \in Nat : n = x.n
    BY ObjectAssumption DEF ObjectAssumption
  <1>7. AddValue(n, NULL) /\ UNCHANGED <<ret, raised, dict, pass, packed, string>>
    BY <1>3, <1>4, <1>5, <1>6 DEF Scalar
  <1>8. ret = << >>
    BY <1>1, <1>2, <1>3 DEF FrameWalks
  <1>9. packed <=> Packed[f]
    <2>1. packed <=> t.j > 0 /\ Packed[FieldOf(t)]
      BY <1>1, <1>3, TopSized
    <2>2. t.j > 0
      BY <1>3
    <2>3. QED
      BY <1>1, <2>1, <2>2
  <1>10. packed = Packed[f]
    <2>1. Packed[f] \in BOOLEAN
      BY <1>3, SubMsgFacts
    <2>2. QED
      BY <1>9, <2>1
  <1>11. PICK len \in Nat : len = AddedLen(f, n, packed)
    BY <1>3, AddedFacts
  <1>12. len = ItemRoom(Room, f, ItemOf(t))
    BY <1>2, <1>3, <1>4, <1>6, <1>10, <1>11, Zenon DEF ItemRoom
  <1>13. PICK free \in {0, 10} : free = 0
    OBVIOUS
  <1>14. /\ free = 0 <=> ret = << >>
         /\ ret # << >> => ~Packed[f]
         /\ pass = 0 => len = len + free
         /\ pass = 1 => len <= len
    BY <1>8, <1>13
  <1>15. dict' = dict /\ pass' = pass /\ ret' = << >> /\ raised' = raised /\ packed' = packed
    BY <1>7, <1>8
  <1>16. QED
    BY <1>1, <1>2, <1>7, <1>11, <1>12, <1>14, <1>15, SizeAddValue

LEMMA SizeEndNested ==
    ASSUME WalkInv, SizeInv, packed \in BOOLEAN, status = "encoding", EndNested
    PROVE  SizeInv' /\ status' = "encoding"
  <1>1. PICK z, t, f : z = Len(frames) /\ t = frames[z] /\ f = FieldOf(t)
    OBVIOUS
  <1>2. AtValue /\ Typ[Field_] = "message" /\ ret # << >>
    BY DEF EndNested
  <1>3. /\ frames # << >> /\ t = Top /\ f = Field_ /\ f \in Field
        /\ t.j \in 1..Len(ValuesOf(t)) /\ Len(ValuesOf(t)) \in Nat
        /\ ItemOf(t) \in Object
    BY <1>1, <1>2, ValueOfFacts
  <1>4. PICK x \in Object, m \in Msg : x = ItemOf(t) /\ m = SubMsg[f]
    BY <1>2, <1>3, SubMsgFacts
  <1>5. PICK room \in Nat : room = Room[x][m]
    BY RoomDef
  <1>6. ret[1] \in Nat /\ IF pass = 0 THEN ret[1] = room ELSE ret[1] <= room
    <2>1. Calls = z + 1 /\ z \in Nat \ {0}
      BY <1>1, <1>2, <1>3, TopFacts
    <2>2. CallObj(Calls) = x /\ CallMsg(Calls) = m
      BY <1>1, <1>4, <2>1 DEF CallObj, CallMsg
    <2>3. QED
      BY <1>2, <1>5, <2>2 DEF SizeInv
  <1>7. PICK n \in Nat : n = ret[1]
    BY <1>6
  <1>8. Boxed(f) /\ ~Packed[f]
    BY <1>2, <1>3, SubMsgFacts DEF Boxed
  <1>9. packed = FALSE
    <2>1. packed <=> t.j > 0 /\ Packed[FieldOf(t)]
      BY <1>1, <1>3, TopSized
    <2>2. QED
      BY <1>1, <1>8, <2>1
  <1>10. PICK len \in Nat, most \in Nat :
            len = AddedLen(f, n, FALSE) /\ most = AddedLen(f, room, FALSE)
    BY <1>3, AddedFacts
  <1>11. PICK all \in Nat : all = 10 + most
    OBVIOUS
  <1>12. all = ItemRoom(Room, f, ItemOf(t))
    BY <1>2, <1>3, <1>4, <1>5, <1>10, <1>11 DEF ItemRoom, MSG_RESERVE_BYTES
  <1>13. /\ pass = 0 => len = most
         /\ pass = 1 => len <= most
    <2>1. ASSUME pass = 0 PROVE len = most
      <3>1. n = room
        BY <1>6, <1>7, <2>1
      <3>2. QED
        BY <1>10, <3>1
    <2>2. ASSUME pass = 1 PROVE len <= most
      <3>1. n <= room
        BY <1>6, <1>7, <2>2
      <3>2. PICK a, b : a = AddedLen(f, n, FALSE) /\ b = AddedLen(f, room, FALSE)
        OBVIOUS
      <3>3. a <= b
        BY <1>3, <1>8, <3>1, <3>2, BoxedGrows
      <3>4. len = a /\ most = b
        BY <1>10, <3>2
      <3>5. QED
        BY <3>3, <3>4
    <2>3. QED
      BY <2>1, <2>2
  <1>14. PICK free \in {0, 10} : free = 10
    OBVIOUS
  <1>15. /\ free = 0 <=> ret = << >>
         /\ ret # << >> => ~Packed[f]
         /\ pass = 0 => all = len + free
         /\ pass = 1 => len <= all
    <2>1. pass = 0 => all = len + free
      BY <1>11, <1>13, <1>14
    <2>2. pass = 1 => len <= all
      BY <1>11, <1>13
    <2>3. QED
      BY <1>2, <1>8, <1>14, <2>1, <2>2
  <1>16. PICK data : data = Plus(Top.valuebuf, MSG_RESERVE_BYTES)
    OBVIOUS
  <1>17. /\ AddValue(n, data)
         /\ dict' = dict /\ pass' = pass /\ ret' = << >> /\ raised' = raised /\ packed' = packed
    BY <1>7, <1>16 DEF EndNested
  <1>18. len = AddedLen(f, n, packed)
    BY <1>9, <1>10
  <1>19. QED
    BY <1>1, <1>2, <1>12, <1>15, <1>17, <1>18, SizeAddValue

\* What a nested message is written to is behind the room left free for its key
\* and length, and inside the buffer.
LEMMA SizeStartNested ==
    ASSUME WalkInv, SizeInv, status = "encoding", StartNested
    PROVE  SizeInv' /\ status' = "encoding"
  <1>1. PICK z, t, f : z = Len(frames) /\ t = frames[z] /\ f = FieldOf(t)
    OBVIOUS
  <1>2. AtValue /\ Typ[Field_] = "message" /\ ret = << >>
    BY DEF StartNested
  <1>3. /\ frames # << >> /\ f = Field_
        /\ t \in FrameType /\ FrameWalks(t, ret # << >>)
        /\ t.obj \in Object /\ t.msg \in Msg /\ t.i \in 1..Len(FieldOrder[t.msg])
        /\ f \in Field /\ f \in DOMAIN t.obj.of /\ Len(ValuesOf(t)) \in Nat
        /\ t.j \in 1..Len(ValuesOf(t)) /\ ItemOf(t) \in Object
    BY <1>1, <1>2, ValueOfFacts
  <1>4. /\ pass \in {0, 1} /\ raised = FALSE
        /\ WellTyped[t.obj][t.msg]
        /\ packed <=> t.j > 0 /\ Packed[FieldOf(t)]
        /\ pass = 0 => FrameCounts(t, ret # << >>)
        /\ pass = 1 => FrameFits(t, CallStart(z))
    BY <1>1, <1>3, TopSized
  <1>5. PICK x, m, p :
        /\ x \in Object /\ m \in Msg
        /\ x = ItemOf(t) /\ m = SubMsg[f] /\ p = Plus(t.valuebuf, MSG_RESERVE_BYTES)
    BY <1>2, <1>3, SubMsgFacts
  <1>6. PICK fr \in FrameType, new \in FrameType :
           /\ frames' = Append([frames EXCEPT ![Len(frames)] = fr], new)
           /\ Waiting(fr, t) /\ new = Frame(x, m, p)
    BY <1>1, <1>5, NestStep
  <1>7. /\ fr.obj = t.obj /\ fr.msg = t.msg /\ fr.i = t.i /\ fr.j = t.j
        /\ fr.buf = t.buf /\ fr.len = t.len /\ fr.extralen = t.extralen + 10
        /\ fr.fieldbuf = t.fieldbuf /\ fr.fieldlen = t.fieldlen /\ fr.valuebuf = t.valuebuf
    BY <1>6 DEF Waiting, MSG_RESERVE_BYTES
  <1>8. /\ new.obj = x /\ new.msg = m /\ new.i = 1 /\ new.j = 0 /\ new.len = 0 /\ new.extralen = 0
        /\ new.buf = p
    BY <1>6 DEF Frame
  <1>9. ~Packed[f] /\ Boxed(f) /\ t.j > 0
    BY <1>2, <1>3, SubMsgFacts DEF Boxed
  <1>10. WellTyped[new.obj][new.msg]
    BY <1>1, <1>2, <1>3, <1>5, <1>8, ItemIsTyped DEF ItemTyped
  <1>11. FieldsLeft(new) = 0
    <2>1. FieldsRoom(Room, x, m)[0] = 0
      BY <1>5, RoomDef, FieldsRoomFacts
    <2>2. QED
      BY <1>8, <2>1 DEF FieldsLeft
  <1>12. FieldOf(fr) = f /\ FieldsLeft(fr) = FieldsLeft(t) /\ ItemsLeft(fr) = ItemsLeft(t)
    BY <1>1, <1>7 DEF FieldOf, FieldsLeft, ItemsLeft
  <1>13. t.i <= Len(FieldOrder[t.msg])
    BY <1>3, OrderFacts
  <1>14. PICK fl \in Nat, il \in Nat, all \in Nat, size \in Nat :
            fl = FieldsLeft(t) /\ il = ItemsLeft(t) /\ all = AllItems(t) /\ size = Room[t.obj][t.msg]
    BY <1>1, <1>3, <1>13, RoomAtField, RoomAtItem
  <1>15. PICK room \in Nat : room = Room[x][m]
    BY <1>5, RoomDef
  <1>16. PICK l \in Nat, e \in Nat, vl \in Nat : l = t.len /\ e = t.extralen /\ vl = t.fieldlen
    BY <1>3, FrameInts
  <1>17. pass = 0 => FrameCounts(fr, TRUE) /\ FrameCounts(new, FALSE)
    <2> SUFFICES ASSUME pass = 0 PROVE FrameCounts(fr, TRUE) /\ FrameCounts(new, FALSE)
      OBVIOUS
    <2>1. l + e + vl = fl + il
      BY <1>1, <1>2, <1>4, <1>9, <1>14, <1>16 DEF FrameCounts
    <2>2. fr.len + fr.extralen + fr.fieldlen = FieldsLeft(fr) + ItemsLeft(fr) + 10
      BY <1>7, <1>12, <1>14, <1>16, <2>1
    <2>3. FrameCounts(fr, TRUE)
      BY <1>7, <1>9, <1>12, <2>2 DEF FrameCounts, MSG_RESERVE_BYTES
    <2>4. FrameCounts(new, FALSE)
      BY <1>8, <1>11 DEF FrameCounts
    <2>5. QED
      BY <2>3, <2>4
  <1>18. pass = 1 => /\ FrameFits(fr, CallStart(z))
                     /\ FrameFits(new, fr.valuebuf + MSG_RESERVE_BYTES)
                     /\ fr.buf <= fr.valuebuf /\ fr.valuebuf + MSG_RESERVE_BYTES <= new.buf
    <2> SUFFICES ASSUME pass = 1
                 PROVE  /\ FrameFits(fr, CallStart(z))
                        /\ FrameFits(new, fr.valuebuf + MSG_RESERVE_BYTES)
                        /\ fr.buf <= fr.valuebuf /\ fr.valuebuf + MSG_RESERVE_BYTES <= new.buf
      OBVIOUS
    <2>1. PICK s \in Nat, c \in Nat : s = CallStart(z) /\ c = Len(mem)
      <3>1. Len(mem) \in Nat
        BY SeqFacts DEF WalkInv
      <3>2. QED
        BY <1>4, <3>1 DEF FrameFits
    <2>2. /\ s + size <= c /\ t.buf = s + l /\ l <= fl
          /\ t.fieldbuf = t.buf + 0 /\ t.valuebuf = t.fieldbuf + vl /\ vl <= il
      BY <1>1, <1>4, <1>9, <1>14, <1>16, <2>1 DEF FrameFits
    <2>3. PICK v \in Nat, b \in Nat : v = t.valuebuf /\ b = t.buf
      BY <2>2
    <2>4. b = s + l /\ v = s + l + vl
      BY <2>2, <2>3
    <2>5. FrameFits(fr, CallStart(z))
      BY <1>1, <1>4, <1>7, <1>12 DEF FrameFits
    <2>6. p = v + 10
      BY <1>5, <2>3, PlusFacts DEF MSG_RESERVE_BYTES
    <2>7. il + (10 + room) <= all
      <3>1. PICK item \in Nat : item = ItemRoom(Room, f, ItemOf(t))
        BY <1>1, <1>3, <1>13, RoomAtItem
      <3>2. il + item <= all
        <4>1. PICK y : y = ItemsRoom(Room, t.obj, f)[t.j]
          OBVIOUS
        <4>2. y = ItemsLeft(t) + ItemRoom(Room, f, ItemOf(t)) /\ y <= AllItems(t)
          BY <1>1, <1>3, <1>13, <4>1, RoomAtItem
        <4>3. QED
          BY <1>14, <3>1, <4>2
      <3>3. PICK a \in Nat : a = AddedLen(f, room, FALSE)
        BY <1>3, AddedFacts
      <3>4. room <= a
        <4>1. room <= room
          OBVIOUS
        <4>2. QED
          BY <1>3, <1>9, <3>3, <4>1, BoxedGrows
      <3>5. item = 10 + a
        BY <1>2, <1>3, <1>5, <1>15, <3>1, <3>3 DEF ItemRoom, MSG_RESERVE_BYTES
      <3>6. QED
        BY <3>2, <3>4, <3>5
    <2>8. fl + all <= size
      <3>1. fl + all = FieldsRoom(Room, t.obj, t.msg)[t.i]
        BY <1>1, <1>3, <1>9, <1>13, <1>14, RoomAtField
      <3>2. FieldsRoom(Room, t.obj, t.msg)[t.i] <= size
        BY <1>1, <1>3, <1>13, <1>14, RoomAtField
      <3>3. QED
        BY <3>1, <3>2
    <2>9. v + 10 + room <= c
      BY <2>2, <2>4, <2>7, <2>8
    <2>10. FrameFits(new, v + 10)
      <3>1. v + 10 \in Nat /\ new.buf = v + 10 + new.len /\ new.len <= FieldsLeft(new)
        BY <1>8, <1>11, <2>6
      <3>2. v + 10 + Room[new.obj][new.msg] <= Len(mem)
        BY <1>8, <1>15, <2>1, <2>9
      <3>3. QED
        BY <1>8, <3>1, <3>2 DEF FrameFits
    <2>11. fr.valuebuf + MSG_RESERVE_BYTES = v + 10 /\ new.buf = v + 10 /\ fr.buf = b
      BY <1>7, <1>8, <2>3, <2>6 DEF MSG_RESERVE_BYTES
    <2>12. fr.buf <= fr.valuebuf /\ v + 10 <= v + 10
      BY <1>7, <2>3, <2>4
    <2>13. QED
      BY <2>5, <2>10, <2>11, <2>12
  <1>19. /\ dict' = dict /\ pass' = pass /\ ret' = << >> /\ raised' = FALSE /\ mem' = mem
         /\ status' = "encoding"
    BY <1>2, <1>4 DEF StartNested
  <1>20. packed' = FALSE
    BY <1>1, <1>4, <1>9 DEF StartNested
  <1>21. SizeInv'
    <2>1. fr.obj = t.obj /\ fr.msg = t.msg /\ fr.buf = t.buf /\ new.j = 0 /\ frames # << >>
      BY <1>3, <1>7, <1>8
    <2>2. frames' = Append([frames EXCEPT ![Len(frames)] = fr], new)
      BY <1>6
    <2>3. QED
      BY <1>1, <1>10, <1>17, <1>18, <1>19, <1>20, <2>1, <2>2, SizePush
  <1>22. QED
    BY <1>19, <1>21

\* A packed run, moved down behind its key and length, ends before the room it
\* was written in does.
LEMMA SizeEndField ==
    ASSUME WalkInv, SizeInv, packed \in BOOLEAN, status = "encoding", EndField
    PROVE  SizeInv' /\ status' = "encoding"
  <1>1. PICK z, t, f : z = Len(frames) /\ t = frames[z] /\ f = FieldOf(t)
    OBVIOUS
  <1>2. /\ frames # << >> /\ ret = << >>
        /\ t \in FrameType /\ FrameWalks(t, FALSE) /\ t.obj \in Object /\ t.msg \in Msg
        /\ t.i \in 1..Len(FieldOrder[t.msg]) /\ Len(FieldOrder[t.msg]) \in Nat
        /\ f \in Field /\ f \in FieldsOf[t.msg] /\ f \in DOMAIN t.obj.of
        /\ ValuesOf(t) = t.obj.of[f] /\ Len(ValuesOf(t)) \in Nat /\ t.j = Len(ValuesOf(t)) + 1
        /\ EndLen(t, f) \in Nat
    BY <1>1, EndFieldFacts
  <1>3. /\ pass \in {0, 1} /\ raised = FALSE
        /\ WellTyped[t.obj][t.msg]
        /\ packed <=> t.j > 0 /\ Packed[FieldOf(t)]
        /\ pass = 0 => FrameCounts(t, ret # << >>)
        /\ pass = 1 => FrameFits(t, CallStart(z))
    BY <1>1, <1>2, TopSized
  <1>4. PICK len \in Nat : len = EndLen(t, f)
    BY <1>2
  <1>5. IF Packed[f] THEN Store(f, t.fieldlen, t.fieldbuf, t.buf, FALSE) /\ packed' = FALSE
                     ELSE UNCHANGED <<mem, status, packed>>
    BY <1>1, <1>4, EndStep
  <1>6. PICK fr \in FrameType : SetTop(fr) /\ FieldEnded(fr, t, len)
    BY <1>1, <1>4, EndStep
  <1>7. /\ fr.obj = t.obj /\ fr.msg = t.msg /\ fr.i = t.i + 1 /\ fr.j = 0
        /\ fr.buf = Plus(t.buf, len) /\ fr.len = t.len + len /\ fr.extralen = t.extralen
    BY <1>6 DEF FieldEnded
  <1>8. t.i <= Len(FieldOrder[t.msg]) /\ t.j > 0
    BY <1>2
  <1>9. PICK fl \in Nat, all \in Nat, size \in Nat, box \in Nat :
           fl = FieldsLeft(t) /\ all = AllItems(t) /\ size = Room[t.obj][t.msg]
           /\ box = AddedLen(f, AllItems(t), FALSE)
    BY <1>1, <1>2, <1>8, RoomAtField
  <1>10. ItemsLeft(t) = all
    <2>1. PICK n \in Nat : n = Len(ValuesOf(t))
      BY <1>2
    <2>2. t.j - 1 = n
      BY <1>2, <2>1
    <2>3. QED
      BY <1>1, <1>9, <2>1, <2>2 DEF ItemsLeft, AllItems
  <1>11. PICK more \in Nat : more = IF Packed[f] THEN 10 + box ELSE all
    OBVIOUS
  <1>12. FieldsLeft(fr) = fl + more /\ fl + more <= size
    <2>1. PICK y : y = FieldsRoom(Room, t.obj, t.msg)[t.i]
      OBVIOUS
    <2>2. /\ y = FieldsLeft(t) + (IF Packed[f] THEN 10 + AddedLen(f, AllItems(t), FALSE)
                                               ELSE AllItems(t))
          /\ y <= Room[t.obj][t.msg]
      BY <1>1, <1>2, <1>8, <2>1, RoomAtField
    <2>3. y = fl + more /\ y <= size
      BY <1>9, <1>11, <2>2
    <2>4. fr.i - 1 = t.i
      BY <1>2, <1>7
    <2>5. QED
      BY <1>7, <2>1, <2>3, <2>4 DEF FieldsLeft
  <1>13. PICK l \in Nat, e \in Nat, vl \in Nat : l = t.len /\ e = t.extralen /\ vl = t.fieldlen
    BY <1>2, FrameInts
  <1>14. ~Packed[f] => len = vl
    BY <1>4, <1>13 DEF EndLen
  <1>15. Packed[f] => len = AddedLen(f, vl, FALSE)
    BY <1>4, <1>13 DEF EndLen
  <1>16. pass = 0 => FrameCounts(fr, FALSE) /\ mem' = mem /\ status' = status
    <2> SUFFICES ASSUME pass = 0 PROVE FrameCounts(fr, FALSE) /\ mem' = mem /\ status' = status
      OBVIOUS
    <2>1. t.buf = NULL
      BY <1>2 DEF FrameWalks
    <2>2. mem' = mem /\ status' = status
      BY <1>5, <2>1 DEF Store
    <2>3. l + len + e = fl + more
      <3>1. CASE Packed[f]
        <4>1. l + e = fl + 10 /\ vl = all
          BY <1>1, <1>3, <1>8, <1>9, <1>10, <1>13, <3>1 DEF FrameCounts, MSG_RESERVE_BYTES
        <4>2. len = box
          BY <1>9, <1>15, <3>1, <4>1
        <4>3. QED
          BY <1>11, <3>1, <4>1, <4>2
      <3>2. CASE ~Packed[f]
        <4>1. l + e + vl = fl + all
          BY <1>1, <1>2, <1>3, <1>8, <1>9, <1>10, <1>13, <3>2 DEF FrameCounts
        <4>2. QED
          BY <1>11, <1>14, <3>2, <4>1
      <3>3. QED
        BY <3>1, <3>2
    <2>4. fr.len + fr.extralen = FieldsLeft(fr)
      BY <1>7, <1>12, <1>13, <2>3
    <2>5. QED
      BY <1>7, <2>2, <2>4 DEF FrameCounts
  <1>17. pass = 1 => FrameFits(fr, CallStart(z)) /\ t.buf <= fr.buf /\ Len(mem') = Len(mem)
                     /\ status' = status
    <2> SUFFICES ASSUME pass = 1
                 PROVE  FrameFits(fr, CallStart(z)) /\ t.buf <= fr.buf /\ Len(mem') = Len(mem)
                        /\ status' = status
      OBVIOUS
    <2>1. PICK s \in Nat, c \in Nat : s = CallStart(z) /\ c = Len(mem)
      <3>1. Len(mem) \in Nat
        BY SeqFacts DEF WalkInv
      <3>2. QED
        BY <1>3, <3>1 DEF FrameFits
    <2>2. /\ s + size <= c /\ t.buf = s + l /\ l <= fl /\ vl <= all
      BY <1>3, <1>8, <1>9, <1>10, <1>13, <2>1 DEF FrameFits
    <2>3. PICK b \in Nat : b = t.buf
      BY <2>2
    <2>4. len <= more
      <3>1. CASE Packed[f]
        <4>1. Boxed(f)
          BY <3>1 DEF Boxed
        <4>2. PICK x, y : x = AddedLen(f, vl, FALSE) /\ y = AddedLen(f, all, FALSE)
          OBVIOUS
        <4>3. x <= y
          BY <1>2, <2>2, <4>1, <4>2, BoxedGrows
        <4>4. len = x /\ box = y
          BY <1>9, <1>15, <3>1, <4>2
        <4>5. QED
          BY <1>11, <3>1, <4>3, <4>4
      <3>2. CASE ~Packed[f]
        BY <1>11, <1>14, <2>2, <3>2
      <3>3. QED
        BY <3>1, <3>2
    <2>5. b + len <= c /\ l + len <= fl + more
      BY <1>12, <2>2, <2>3, <2>4
    <2>6. Plus(b, len) = b + len
      BY PlusFacts
    <2>7. status' = status /\ Len(mem') = Len(mem)
      <3>1. CASE Packed[f]
        <4>1. Store(f, vl, t.fieldbuf, b, FALSE)
          BY <1>5, <1>13, <2>3, <3>1
        <4>2. b # NULL /\ vl # SizeMax
          BY DEF NULL, SizeMax
        <4>3. b + AddedLen(f, vl, FALSE) <= Len(mem)
          BY <1>15, <2>1, <2>5, <3>1
        <4>4. status' = status
          BY <4>1, <4>2, <4>3 DEF Store
        <4>5. Len(mem') = Len(mem)
          BY <4>1, StoreFacts DEF WalkInv
        <4>6. QED
          BY <4>4, <4>5
      <3>2. CASE ~Packed[f]
        BY <1>5, <3>2
      <3>3. QED
        BY <3>1, <3>2
    <2>8. fr.buf = s + fr.len /\ t.buf <= fr.buf
      <3>1. b + len = s + (l + len) /\ b <= b + len
        BY <2>2, <2>3
      <3>2. fr.buf = b + len /\ fr.len = l + len
        BY <1>7, <1>13, <2>3, <2>6
      <3>3. QED
        BY <2>3, <3>1, <3>2
    <2>9. fr.len <= FieldsLeft(fr)
      BY <1>7, <1>12, <1>13, <2>5
    <2>10. s + Room[fr.obj][fr.msg] <= Len(mem)
      BY <1>7, <1>9, <2>1, <2>2
    <2>11. QED
      BY <1>7, <2>1, <2>7, <2>8, <2>9, <2>10 DEF FrameFits
  <1>18. status' = "encoding" /\ Len(mem') = Len(mem)
    BY <1>3, <1>16, <1>17
  <1>19. packed' = FALSE
    <2>1. CASE Packed[f]
      BY <1>5, <2>1
    <2>2. CASE ~Packed[f]
      BY <1>1, <1>3, <1>5, <2>2
    <2>3. QED
      BY <2>1, <2>2
  <1>20. packed' <=> fr.j > 0 /\ Packed[FieldOf(fr)]
    BY <1>7, <1>19
  <1>21. dict' = dict /\ pass' = pass /\ ret' = << >> /\ raised' = FALSE
    BY <1>2, <1>3 DEF EndField
  <1>22. SizeInv'
    BY <1>1, <1>2, <1>6, <1>7, <1>16, <1>17, <1>18, <1>20, <1>21, SizeSet
  <1>23. QED
    BY <1>18, <1>22

LEMMA SizeEndMessage ==
    ASSUME WalkInv, SizeInv, EndMessage
    PROVE  SizeInv'
  <1>1. PICK z, t : z = Len(frames) /\ t = frames[z]
    OBVIOUS
  <1>2. Between /\ Top.i > Len(FieldOrder[Top.msg])
    BY DEF EndMessage
  <1>3. /\ frames # << >> /\ t = Top /\ t.j = 0 /\ ret = << >>
        /\ t \in FrameType /\ FrameWalks(t, FALSE)
        /\ t.obj \in Object /\ t.msg \in Msg /\ t.i \in Nat \ {0} /\ Len(FieldOrder[t.msg]) \in Nat
    BY <1>1, <1>2, BetweenFacts
  <1>4. /\ pass \in {0, 1} /\ raised = FALSE
        /\ WellTyped[t.obj][t.msg]
        /\ packed <=> t.j > 0 /\ Packed[FieldOf(t)]
        /\ pass = 0 => FrameCounts(t, ret # << >>)
        /\ pass = 1 => FrameFits(t, CallStart(z))
    BY <1>1, <1>3, TopSized
  <1>5. FieldsLeft(t) = Room[t.obj][t.msg]
    <2>1. PICK n \in Nat : n = Len(FieldOrder[t.msg])
      BY <1>3
    <2>2. t.i - 1 = n
      BY <1>2, <1>3, <2>1 DEF FrameWalks
    <2>3. QED
      BY <1>3, <2>1, <2>2, RoomDef DEF FieldsLeft
  <1>6. PICK l \in Nat, e \in Nat : l = t.len /\ e = t.extralen
    BY <1>3, FrameInts
  <1>7. PICK r \in Nat : r = EncodedLen(t)
    BY <1>6 DEF EncodedLen
  <1>8. IF pass = 0 THEN r = Room[t.obj][t.msg] ELSE r <= Room[t.obj][t.msg]
    <2>1. CASE pass = 0
      <3>1. t.buf = NULL /\ l + e = FieldsLeft(t)
        BY <1>3, <1>4, <1>6, <2>1 DEF FrameWalks, FrameCounts
      <3>2. QED
        BY <1>5, <1>6, <1>7, <2>1, <3>1 DEF EncodedLen
    <2>2. CASE pass # 0
      <3>1. t.buf # NULL /\ l <= FieldsLeft(t)
        BY <1>3, <1>4, <1>6, <2>2 DEF FrameWalks, FrameFits, NULL
      <3>2. QED
        BY <1>5, <1>6, <1>7, <2>2, <3>1 DEF EncodedLen
    <2>3. QED
      BY <2>1, <2>2
  <1>9. /\ ReturnWith(r) /\ dict' = dict /\ pass' = pass /\ raised' = FALSE /\ mem' = mem
        /\ packed' = packed
    BY <1>3, <1>4, <1>7 DEF EndMessage
  <1>10. QED
    BY <1>1, <1>3, <1>8, <1>9, SizePop

LEMMA LastReturn ==
    ASSUME WalkInv, frames = << >>
    PROVE  /\ Calls = 1 /\ ret # << >> /\ ret[1] \in Nat \cup {SizeMax}
           /\ CallObj(Calls) = dict /\ CallMsg(Calls) = RootMsg
  <1>1. Len(<< >>) = 0
    OBVIOUS
  <1>2. ret # << >>
    BY <1>1 DEF WalkInv, Calls
  <1>3. ret = << ret[1] >> /\ ret[1] \in Nat \cup {SizeMax}
    BY <1>2 DEF WalkInv
  <1>4. Calls = 1
    BY <1>1, <1>3 DEF Calls
  <1>5. QED
    BY <1>2, <1>3, <1>4 DEF CallObj, CallMsg

\* The buffer of pass 1 has the size pass 0 returned.
LEMMA SizeEndPass0 ==
    ASSUME WalkInv, WellTyped[dict][RootMsg], SizeInv, EndPass0, status' = "encoding"
    PROVE  SizeInv'
  <1>1. frames = << >> /\ pass = 0
    BY DEF EndPass0
  <1>2. PICK d \in Object, m \in Msg : d = dict /\ m = RootMsg
    BY FieldAssumption DEF WalkInv, FieldAssumption
  <1>3. PICK room \in Nat : room = Room[d][m]
    BY RoomDef
  <1>4. ret[1] = room
    BY <1>1, <1>2, <1>3, LastReturn DEF SizeInv
  <1>5. raised = FALSE
    BY DEF SizeInv
  <1>6. pass' = 1 /\ raised' = FALSE /\ packed' = FALSE
        /\ frames' = << Frame(dict, RootMsg, 0) >> /\ ret' = << >> /\ dict' = dict
    BY <1>5 DEF EndPass0
  <1>7. mem' = [k \in 1..room |-> Junk]
    BY <1>4, <1>6 DEF EndPass0
  <1>8. Len(mem') = room
    BY <1>7, FunIsSeq
  <1>9. 0 \in Nat \cup {NULL} /\ Room[d][RootMsg] \in Nat /\ Len(mem') = Room[d][RootMsg]
    BY <1>2, <1>3, <1>8
  <1>10. dict' = d /\ WellTyped[d][RootMsg] /\ frames' = << Frame(d, RootMsg, 0) >>
    BY <1>2, <1>6
  <1>11. QED
    BY <1>6, <1>9, <1>10, SizeStart

\* Every step keeps SizeInv, and none overflows the buffer.
LEMMA SizeNext ==
    ASSUME WalkInv, packed \in BOOLEAN, WellTyped[dict][RootMsg], SizeInv,
           status = "encoding", string = << >>, EncoderStep
    PROVE  SizeSuffices' /\ (status' = "encoding" => SizeInv')
  <1>1. ASSUME SizeInv' /\ status' = "encoding"
        PROVE  SizeSuffices' /\ (status' = "encoding" => SizeInv')
    BY <1>1 DEF SizeSuffices
  <1>2. CASE NotADict
    <2>1. PICK z, t : z = Len(frames) /\ t = frames[z]
      OBVIOUS
    <2>2. Between /\ Top.obj.kind # "dict"
      BY <1>2 DEF NotADict
    <2>3. frames # << >> /\ t = Top /\ t.obj \in Object /\ t.msg \in Msg
      BY <2>1, <2>2, BetweenFacts
    <2>4. WellTyped[t.obj][t.msg]
      BY <2>1, <2>3, TopSized
    <2>5. t.obj.kind = "dict"
      BY <2>3, <2>4, TypedDef
    <2>6. QED
      BY <2>2, <2>3, <2>5
  <1>3. CASE AbsentField
    <2>1. status' = "encoding"
      BY <1>3 DEF AbsentField
    <2>2. QED
      BY <1>1, <1>3, <2>1, SizeAbsentField
  <1>4. CASE StartField
    BY <1>1, <1>4, SizeStartField
  <1>5. CASE StartNested
    BY <1>1, <1>5, SizeStartNested
  <1>6. CASE EndNested
    BY <1>1, <1>6, SizeEndNested
  <1>7. CASE Scalar
    BY <1>1, <1>7, SizeScalar
  <1>8. CASE EndField
    BY <1>1, <1>8, SizeEndField
  <1>9. CASE EndMessage
    <2>1. status' = "encoding"
      BY <1>9 DEF EndMessage
    <2>2. QED
      BY <1>1, <1>9, <2>1, SizeEndMessage
  <1>10. CASE EndPass0
    <2>1. CASE status' = "encoding"
      BY <1>1, <1>10, <2>1, SizeEndPass0
    <2>2. CASE status' # "encoding"
      <3>1. status' = "encoded" /\ raised' = TRUE
        BY <1>10, <2>2 DEF EndPass0
      <3>2. QED
        BY <2>2, <3>1 DEF SizeSuffices
    <2>3. QED
      BY <2>1, <2>2
  <1>11. CASE EndPass1
    <2>1. status' = "encoded" /\ string' = << SubSeq(mem, 1, ret[1]) >>
      BY <1>11 DEF EndPass1
    <2>2. QED
      BY <2>1 DEF SizeSuffices
  <1>12. QED
    BY <1>2, <1>3, <1>4, <1>5, <1>6, <1>7, <1>8, <1>9, <1>10, <1>11 DEF EncoderStep

\* The room the values of a field and those before it take is not more than the record's.
LEMMA FieldInRoom ==
    ASSUME NEW t \in FrameType, t.i <= Len(FieldOrder[t.msg]), NEW f, f = FieldOf(t),
           f \in DOMAIN t.obj.of, NEW key \in Nat, key = IF Packed[f] THEN 10 ELSE 0
    PROVE  FieldsLeft(t) + key + AllItems(t) <= Room[t.obj][t.msg]
  <1>1. PICK fl \in Nat, all \in Nat, size \in Nat, a \in Nat :
           /\ fl = FieldsLeft(t) /\ all = AllItems(t) /\ size = Room[t.obj][t.msg]
           /\ a = AddedLen(f, AllItems(t), FALSE)
    BY RoomAtField
  <1>2. Packed[f] => all <= a
    BY <1>1, RoomAtField
  <1>3. fl + (IF Packed[f] THEN 10 + a ELSE all) <= size
    BY <1>1, RoomAtField
  <1>4. fl + key + all <= size
    <2>1. PICK c \in Nat : c = key
      OBVIOUS
    <2>2. CASE Packed[f]
      <3>1. c = 10
        BY <2>1, <2>2
      <3>2. fl + c + all <= size
        BY <1>2, <1>3, <2>2, <3>1
      <3>3. QED
        BY <2>1, <3>2
    <2>3. CASE ~Packed[f]
      <3>1. c = 0
        BY <2>1, <2>3
      <3>2. fl + c + all <= size
        BY <1>3, <2>3, <3>1
      <3>3. QED
        BY <2>1, <3>2
    <2>4. QED
      BY <2>2, <2>3
  <1>5. QED
    BY <1>1, <1>4

LEMMA FieldsLeftFacts ==
    ASSUME NEW t \in FrameType, t.i <= Len(FieldOrder[t.msg]) + 1
    PROVE  FieldsLeft(t) \in Nat /\ Room[t.obj][t.msg] \in Nat /\ FieldsLeft(t) <= Room[t.obj][t.msg]
  <1>1. PICK o \in Object, m \in Msg, i \in Nat \ {0} : o = t.obj /\ m = t.msg /\ i = t.i
    BY DEF FrameType
  <1>2. PICK n \in Nat : n = Len(FieldOrder[m])
    BY OrderFacts
  <1>3. PICK size \in Nat : size = Room[o][m]
    BY RoomDef
  <1>4. CASE i \in 1..n
    <2>1. PICK a \in Nat, b \in Nat : a = FieldsRoom(Room, o, m)[i - 1] /\ b = FieldRoom(Room, o, FieldOrder[m][i])
      BY <1>2, <1>4, FieldsRoomAt
    <2>2. a + b <= size
      BY <1>2, <1>3, <1>4, <2>1, FieldsRoomAt
    <2>3. a <= size
      BY <2>2
    <2>4. QED
      BY <1>1, <1>3, <2>1, <2>3 DEF FieldsLeft
  <1>5. CASE i \notin 1..n
    <2>1. i - 1 = n
      BY <1>1, <1>2, <1>5
    <2>2. FieldsLeft(t) = size
      BY <1>1, <1>2, <1>3, <2>1, RoomDef DEF FieldsLeft
    <2>3. QED
      BY <1>1, <1>3, <2>2
  <1>6. QED
    BY <1>4, <1>5

LEMMA ItemsLeftFacts ==
    ASSUME NEW t \in FrameType, t.i <= Len(FieldOrder[t.msg]), NEW f, f = FieldOf(t),
           f \in DOMAIN t.obj.of, t.j > 0, t.j <= Len(ValuesOf(t)) + 1
    PROVE  ItemsLeft(t) \in Nat /\ ItemsLeft(t) <= AllItems(t)
  <1>1. PICK j \in Nat : j = t.j
    BY FrameInts
  <1>2. PICK n \in Nat : n = Len(ValuesOf(t))
    BY FieldFacts
  <1>3. PICK all \in Nat : all = AllItems(t)
    BY RoomAtField
  <1>4. CASE j \in 1..n
    <2>1. t.j \in 1..Len(ValuesOf(t))
      BY <1>1, <1>2, <1>4
    <2>2. PICK a \in Nat, b \in Nat : a = ItemsLeft(t) /\ b = ItemRoom(Room, f, ItemOf(t))
      BY <2>1, RoomAtItem
    <2>3. PICK c : c = ItemsRoom(Room, t.obj, f)[t.j]
      OBVIOUS
    <2>4. c = ItemsLeft(t) + ItemRoom(Room, f, ItemOf(t)) /\ c <= AllItems(t)
      BY <2>1, <2>3, RoomAtItem
    <2>5. a <= all
      BY <1>3, <2>2, <2>4
    <2>6. QED
      BY <1>3, <2>2, <2>5
  <1>5. CASE j \notin 1..n
    <2>1. j - 1 = n
      BY <1>1, <1>2, <1>5
    <2>2. ItemsLeft(t) = all
      BY <1>1, <1>2, <1>3, <2>1 DEF ItemsLeft, AllItems
    <2>3. QED
      BY <1>3, <2>2
  <1>6. QED
    BY <1>4, <1>5

\* Every pointer into the buffer is inside, for a record of the right types.
PointersInside ==
    \A k \in 1..Len(frames) :
       LET fr == frames[k]
           ps == {fr.buf} \cup IF fr.j > 0 THEN {fr.fieldbuf, fr.valuebuf} ELSE {}
       IN  ps \subseteq IF pass = 0 THEN {NULL} ELSE 0..Len(mem)

\* This is the part of the type invariant that is about pointers.
LEMMA PointersFacts ==
    ASSUME WalkInv, SizeInv
    PROVE  PointersInside
  <1> SUFFICES ASSUME NEW k \in 1..Len(frames), NEW fr, fr = frames[k]
               PROVE  {fr.buf} \cup (IF fr.j > 0 THEN {fr.fieldbuf, fr.valuebuf} ELSE {})
                         \subseteq IF pass = 0 THEN {NULL} ELSE 0..Len(mem)
    BY DEF PointersInside
  <1>1. fr \in FrameType
    <2>1. frames \in Seq(FrameType)
      BY DEF WalkInv
    <2> HIDE DEF FrameType
    <2>2. QED
      BY <2>1
  <1>2. FrameWalks(fr, k < Calls)
    BY DEF WalkInv
  <1>3. CASE pass = 0
    BY <1>2, <1>3 DEF FrameWalks
  <1>4. CASE pass # 0
    <2>1. FrameFits(fr, CallStart(k))
      BY <1>4 DEF SizeInv
    <2>2. PICK s \in Nat, c \in Nat : s = CallStart(k) /\ c = Len(mem)
      <3>1. Len(mem) \in Nat
        BY SeqFacts DEF WalkInv
      <3>2. QED
        BY <2>1, <3>1 DEF FrameFits
    <2>3. PICK l \in Nat, vl \in Nat : l = fr.len /\ vl = fr.fieldlen
      BY <1>1, FrameInts
    <2>4. PICK fl \in Nat, size \in Nat : fl = FieldsLeft(fr) /\ size = Room[fr.obj][fr.msg]
      BY <1>1, <1>2, FieldsLeftFacts DEF FrameWalks
    <2>5. fl <= size
      BY <1>1, <1>2, <2>4, FieldsLeftFacts DEF FrameWalks
    <2>6. s + size <= c /\ fr.buf = s + l /\ l <= fl
      BY <2>1, <2>2, <2>3, <2>4 DEF FrameFits
    <2>7. fr.buf \in 0..c
      BY <2>5, <2>6
    <2>8. ASSUME fr.j > 0 PROVE fr.fieldbuf \in 0..c /\ fr.valuebuf \in 0..c
      <3>1. PICK f : f = FieldOf(fr)
        OBVIOUS
      <3>2. fr.i <= Len(FieldOrder[fr.msg]) /\ f \in DOMAIN fr.obj.of /\ fr.j <= Len(ValuesOf(fr)) + 1
        BY <1>2, <2>8, <3>1 DEF FrameWalks
      <3>3. PICK all \in Nat, il \in Nat : all = AllItems(fr) /\ il = ItemsLeft(fr)
        BY <1>1, <2>8, <3>1, <3>2, RoomAtField, ItemsLeftFacts
      <3>4. il <= all
        BY <1>1, <2>8, <3>1, <3>2, <3>3, ItemsLeftFacts
      <3>5. PICK key \in Nat : key = IF Packed[f] THEN 10 ELSE 0
        OBVIOUS
      <3>6. FieldsLeft(fr) + key + AllItems(fr) <= Room[fr.obj][fr.msg]
        BY <1>1, <3>1, <3>2, <3>5, FieldInRoom
      <3>7. fl + key + all <= size
        BY <2>4, <3>3, <3>6
      <3>8. fr.fieldbuf = fr.buf + key /\ fr.valuebuf = fr.fieldbuf + vl /\ vl <= il
        BY <2>1, <2>3, <2>8, <3>1, <3>3, <3>5 DEF FrameFits, MSG_RESERVE_BYTES
      <3>9. PICK b \in Nat, x \in Nat, v \in Nat : b = fr.buf /\ x = fr.fieldbuf /\ v = fr.valuebuf
        BY <2>6, <3>8
      <3>10. x \in 0..c /\ v \in 0..c
        BY <2>6, <3>4, <3>7, <3>8, <3>9
      <3>11. QED
        BY <3>9, <3>10
    <2>9. QED
      BY <1>4, <2>2, <2>7, <2>8
  <1>5. QED
    BY <1>3, <1>4

-----------------------------------------------------------------------------
(* TypesInv: what a call has left behind is of the right types.            *)

LEMMA TypesSet ==
    ASSUME WalkInv, TypesInv, frames # << >>, NEW n, n = Len(frames),
           NEW fr \in FrameType, SetTop(fr),
           dict' = dict, pass' = pass, ret' = << >>,
           pass = 0 /\ n = 1 => FrameTyped(AnyMessage, fr),
           pass = 1 => FrameTyped(WellTyped, fr)
    PROVE  TypesInv'
  <1>1. frames \in Seq(FrameType) /\ pass \in {0, 1}
    BY DEF WalkInv
  <1>2. /\ n \in Nat \ {0}
        /\ frames' \in Seq(FrameType) /\ Len(frames') = n /\ frames' # << >>
        /\ \A k \in 1..(n - 1) : frames'[k] = frames[k]
        /\ frames'[n] = fr
    <2> HIDE DEF FrameType
    <2>1. QED
      BY <1>1, FramesSet
  <1>3. CASE pass = 0
    <2>1. FrameTyped(AnyMessage, frames'[1])
      <3>1. CASE n = 1
        BY <1>2, <1>3, <3>1
      <3>2. CASE n # 1
        <4>1. frames'[1] = frames[1]
          BY <1>2, <3>2
        <4>2. QED
          BY <1>3, <4>1 DEF TypesInv
      <3>3. QED
        BY <3>1, <3>2
    <2>2. QED
      BY <1>2, <1>3, <2>1 DEF TypesInv
  <1>4. CASE pass = 1
    <2>1. ASSUME NEW k \in 1..n PROVE FrameTyped(WellTyped, frames'[k])
      <3>1. CASE k = n
        BY <1>2, <1>4, <3>1
      <3>2. CASE k # n
        <4>1. frames'[k] = frames[k]
          BY <1>2, <3>2
        <4>2. QED
          BY <1>4, <4>1 DEF TypesInv
      <3>3. QED
        BY <3>1, <3>2
    <2>2. Shallow(dict, RootMsg)
      BY <1>4 DEF TypesInv
    <2>3. QED
      BY <1>2, <1>4, <2>1, <2>2 DEF TypesInv
  <1>5. QED
    BY <1>1, <1>3, <1>4

\* TypesInv is kept when a call is made, when one returns, and at the start of
\* a pass.
LEMMA TypesPush ==
    ASSUME WalkInv, TypesInv, frames # << >>, NEW n, n = Len(frames), NEW t, t = frames[n],
           NEW fr \in FrameType, NEW new \in FrameType,
           frames' = Append([frames EXCEPT ![Len(frames)] = fr], new),
           fr.obj = t.obj, fr.msg = t.msg, fr.i = t.i, fr.j = t.j, new.i = 1, new.j = 0,
           dict' = dict, pass' = pass, ret' = << >>
    PROVE  TypesInv'
  <1>1. frames \in Seq(FrameType) /\ pass \in {0, 1}
    BY DEF WalkInv
  <1>2. /\ n \in Nat \ {0}
        /\ frames' \in Seq(FrameType) /\ Len(frames') = n + 1 /\ frames' # << >>
        /\ \A k \in 1..(n - 1) : frames'[k] = frames[k]
        /\ frames'[n] = fr /\ frames'[n + 1] = new
    <2> HIDE DEF FrameType
    <2>1. QED
      BY <1>1, FramesPush
  <1>3. \A typed : FrameTyped(typed, t) => FrameTyped(typed, fr)
    BY DEF FrameTyped, FieldOf
  <1>4. \A typed : FrameTyped(typed, new)
    BY DEF FrameTyped
  <1>5. CASE pass = 0
    <2>1. FrameTyped(AnyMessage, frames'[1])
      <3>1. FrameTyped(AnyMessage, frames[1])
        BY <1>5 DEF TypesInv
      <3>2. CASE n = 1
        BY <1>2, <1>3, <3>1, <3>2
      <3>3. CASE n # 1
        BY <1>2, <3>1, <3>3
      <3>4. QED
        BY <3>2, <3>3
    <2>2. QED
      BY <1>2, <1>5, <2>1 DEF TypesInv
  <1>6. CASE pass = 1
    <2>1. ASSUME NEW k \in 1..(n + 1) PROVE FrameTyped(WellTyped, frames'[k])
      <3>1. CASE k = n
        <4>1. FrameTyped(WellTyped, t)
          BY <1>2, <1>6 DEF TypesInv
        <4>2. QED
          BY <1>2, <1>3, <3>1, <4>1
      <3>2. CASE k = n + 1
        BY <1>2, <1>4, <3>2
      <3>3. CASE k # n /\ k # n + 1
        <4>1. k \in 1..n /\ frames'[k] = frames[k]
          BY <1>2, <3>3
        <4>2. QED
          BY <1>6, <4>1 DEF TypesInv
      <3>4. QED
        BY <3>1, <3>2, <3>3
    <2>2. Shallow(dict, RootMsg)
      BY <1>6 DEF TypesInv
    <2>3. QED
      BY <1>2, <1>6, <2>1, <2>2 DEF TypesInv
  <1>7. QED
    BY <1>1, <1>5, <1>6

LEMMA TypesPop ==
    ASSUME WalkInv, TypesInv, frames # << >>, NEW n, n = Len(frames), NEW t, t = frames[n],
           NEW r \in Nat \cup {SizeMax}, ReturnWith(r), dict' = dict, pass' = pass,
           pass = 0 /\ n = 1 => r = SizeMax \/ Shallow(dict, RootMsg),
           pass = 1 => IF r = SizeMax THEN n # 1 ELSE WellTyped[t.obj][t.msg]
    PROVE  TypesInv'
  <1>1. frames \in Seq(FrameType) /\ pass \in {0, 1}
    BY DEF WalkInv
  <1>2. /\ n \in Nat \ {0}
        /\ frames' \in Seq(FrameType) /\ Len(frames') = n - 1
        /\ n > 1 => frames' # << >>
        /\ n = 1 => frames' = << >>
        /\ \A k \in 1..(n - 1) : frames'[k] = frames[k]
        /\ ret' = << r >> /\ Len(ret') = 1 /\ ret'[1] = r
    <2> HIDE DEF FrameType
    <2>1. QED
      BY <1>1, FramesPop
  <1>3. CASE pass = 0
    <2>1. CASE n = 1
      BY <1>2, <1>3, <2>1 DEF TypesInv
    <2>2. CASE n # 1
      <3>1. frames'[1] = frames[1] /\ frames' # << >>
        BY <1>2, <2>2
      <3>2. FrameTyped(AnyMessage, frames[1])
        BY <1>3 DEF TypesInv
      <3>3. QED
        BY <1>3, <3>1, <3>2 DEF TypesInv
    <2>3. QED
      BY <2>1, <2>2
  <1>4. CASE pass = 1
    <2>1. Shallow(dict, RootMsg)
      BY <1>4 DEF TypesInv
    <2>2. ASSUME NEW k \in 1..(n - 1) PROVE FrameTyped(WellTyped, frames'[k])
      <3>1. k \in 1..n /\ frames'[k] = frames[k]
        BY <1>2
      <3>2. QED
        BY <1>4, <3>1 DEF TypesInv
    <2>3. Calls' = n
      BY <1>2 DEF Calls
    <2>4. CallObj(n)' = t.obj /\ CallMsg(n)' = t.msg
      <3>1. n \in Nat /\ n \in 1..n
        BY <1>2
      <3>2. CallObj(n) = t.obj /\ CallMsg(n) = t.msg
        BY TopFacts
      <3>3. QED
        BY <1>2, <3>1, <3>2, CallsBelow
    <2>5. IF r = SizeMax THEN frames' # << >> ELSE WellTyped[CallObj(Calls)'][CallMsg(Calls)']
      <3>1. CASE r = SizeMax
        BY <1>2, <1>4, <3>1
      <3>2. CASE r # SizeMax
        BY <1>4, <2>3, <2>4, <3>2 DEF CallObj, CallMsg
      <3>3. QED
        BY <3>1, <3>2
    <2>6. QED
      BY <1>2, <1>4, <2>1, <2>2, <2>5 DEF TypesInv
  <1>5. QED
    BY <1>1, <1>3, <1>4

LEMMA TypesStart ==
    ASSUME NEW d, dict' = d, NEW buf, pass' \in {0, 1}, pass' = 1 => Shallow(d, RootMsg),
           frames' = << Frame(d, RootMsg, buf) >>, ret' = << >>
    PROVE  TypesInv'
  <1>1. PICK fr : fr = Frame(d, RootMsg, buf)
    OBVIOUS
  <1>2. frames' = << fr >> /\ Len(frames') = 1 /\ frames' # << >> /\ frames'[1] = fr
    BY <1>1
  <1>3. fr.i = 1 /\ fr.j = 0
    BY <1>1 DEF Frame
  <1>4. \A typed : FrameTyped(typed, fr)
    BY <1>3 DEF FrameTyped
  <1>5. QED
    BY <1>2, <1>4 DEF TypesInv

\* What a step adds to what a call has left behind is of the right type.
LEMMA TypedSkip ==
    ASSUME NEW typed, NEW t, FrameTyped(typed, t), t.i \in Nat \ {0}, t.obj.kind = "dict",
           FieldOf(t) \notin DOMAIN t.obj.of, NEW fr, Skipped(fr, t)
    PROVE  FrameTyped(typed, fr)
  <1>1. PICK n \in Nat \ {0} : n = t.i
    OBVIOUS
  <1>2. fr.obj = t.obj /\ fr.msg = t.msg /\ fr.i = n + 1 /\ fr.j = 0 /\ fr.i - 1 = n
    BY <1>1 DEF Skipped
  <1>3. ASSUME NEW i \in 1..n, FieldOrder[fr.msg][i] \in DOMAIN fr.obj.of
        PROVE  ItemsTyped(typed, fr.obj, FieldOrder[fr.msg][i], Len(fr.obj.of[FieldOrder[fr.msg][i]]))
    <2>1. CASE i = n
      BY <1>1, <1>2, <1>3, <2>1 DEF FieldOf
    <2>2. CASE i # n
      <3>1. i \in 1..(t.i - 1)
        BY <1>1, <2>2
      <3>2. QED
        BY <1>2, <1>3, <3>1 DEF FrameTyped
    <2>3. QED
      BY <2>1, <2>2
  <1>4. QED
    BY <1>2, <1>3 DEF FrameTyped

LEMMA TypedStart ==
    ASSUME NEW typed, NEW t, FrameTyped(typed, t), NEW fr, NEW room, Started(fr, t, room)
    PROVE  FrameTyped(typed, fr)
  <1>1. fr.obj = t.obj /\ fr.msg = t.msg /\ fr.i = t.i /\ fr.j = 1 /\ fr.j - 1 = 0
    BY DEF Started
  <1>2. ItemsTyped(typed, fr.obj, FieldOf(fr), 0)
    BY DEF ItemsTyped
  <1>3. QED
    BY <1>1, <1>2 DEF FrameTyped

LEMMA TypedAdd ==
    ASSUME NEW typed, NEW t, FrameTyped(typed, t), t.j \in Nat \ {0},
           ItemTyped(typed, FieldOf(t), ItemOf(t)), NEW fr, NEW len, Added(fr, t, len)
    PROVE  FrameTyped(typed, fr)
  <1>1. PICK n, f, o : n \in Nat \ {0} /\ n = t.j /\ f = FieldOf(t) /\ o = t.obj
    OBVIOUS
  <1>2. fr.obj = o /\ fr.msg = t.msg /\ fr.i = t.i /\ fr.j = n + 1 /\ fr.j - 1 = n
    BY <1>1 DEF Added
  <1>3. FieldOf(fr) = f
    BY <1>1, <1>2 DEF FieldOf
  <1>4. ItemsTyped(typed, o, f, n - 1)
    BY <1>1 DEF FrameTyped
  <1>5. ItemTyped(typed, f, o.of[f][n])
    BY <1>1 DEF ItemOf, ValuesOf
  <1>6. ItemsTyped(typed, o, f, n)
    <2> SUFFICES ASSUME NEW i \in 1..n PROVE ItemTyped(typed, f, o.of[f][i])
      BY DEF ItemsTyped
    <2>1. i \in 1..(n - 1) \/ i = n
      BY <1>1
    <2>2. QED
      BY <1>4, <1>5, <2>1 DEF ItemsTyped
  <1>7. QED
    BY <1>1, <1>2, <1>3, <1>6 DEF FrameTyped

LEMMA TypedEnd ==
    ASSUME NEW typed, NEW t, FrameTyped(typed, t), t.i \in Nat \ {0}, t.obj.kind = "dict",
           t.j > 0, Len(ValuesOf(t)) \in Nat, t.j = Len(ValuesOf(t)) + 1,
           NEW fr, NEW len, FieldEnded(fr, t, len)
    PROVE  FrameTyped(typed, fr)
  <1>1. PICK n, f, o : n \in Nat \ {0} /\ n = t.i /\ f = FieldOf(t) /\ o = t.obj
    OBVIOUS
  <1>2. fr.obj = o /\ fr.msg = t.msg /\ fr.i = n + 1 /\ fr.j = 0 /\ fr.i - 1 = n
    BY <1>1 DEF FieldEnded
  <1>3. ItemsTyped(typed, o, f, Len(o.of[f]))
    <2>1. PICK l \in Nat : l = Len(ValuesOf(t))
      OBVIOUS
    <2>2. t.j - 1 = l /\ l = Len(o.of[f])
      BY <1>1, <2>1 DEF ValuesOf
    <2>3. ItemsTyped(typed, o, f, l)
      BY <1>1, <2>2 DEF FrameTyped
    <2>4. QED
      BY <2>2, <2>3
  <1>4. ASSUME NEW i \in 1..n, FieldOrder[fr.msg][i] \in DOMAIN fr.obj.of
        PROVE  ItemsTyped(typed, fr.obj, FieldOrder[fr.msg][i], Len(fr.obj.of[FieldOrder[fr.msg][i]]))
    <2>1. CASE i = n
      BY <1>1, <1>2, <1>3, <2>1 DEF FieldOf
    <2>2. CASE i # n
      <3>1. i \in 1..(t.i - 1)
        BY <1>1, <2>2
      <3>2. QED
        BY <1>1, <1>2, <1>4, <3>1 DEF FrameTyped
    <2>3. QED
      BY <2>1, <2>2
  <1>5. QED
    BY <1>1, <1>2, <1>4 DEF FrameTyped

\* At the end of a message, all its fields are of the right types.
LEMMA TypedWhole ==
    ASSUME NEW typed, NEW t, FrameTyped(typed, t), t.obj.kind = "dict", t.msg \in Msg,
           t.i = Len(FieldOrder[t.msg]) + 1
    PROVE  /\ t.obj.kind = "dict"
           /\ \A f \in FieldsOf[t.msg] \cap DOMAIN t.obj.of :
                 ItemsTyped(typed, t.obj, f, Len(t.obj.of[f]))
  <1> SUFFICES ASSUME NEW f \in FieldsOf[t.msg] \cap DOMAIN t.obj.of
               PROVE  ItemsTyped(typed, t.obj, f, Len(t.obj.of[f]))
    OBVIOUS
  <1>1. PICK n \in Nat : n = Len(FieldOrder[t.msg])
    BY OrderFacts
  <1>2. PICK i \in 1..n : f = FieldOrder[t.msg][i]
    BY <1>1, OrderFacts
  <1>3. i \in 1..(t.i - 1)
    BY <1>1
  <1>4. QED
    BY <1>2, <1>3 DEF FrameTyped

LEMMA AnyItem ==
    ASSUME NEW f \in Field, NEW x \in Object, Typ[f] = "message" \/ x.kind = "number"
    PROVE  ItemTyped(AnyMessage, f, x)
  <1>1. Typ[f] = "message" => SubMsg[f] \in Msg
    BY SubMsgFacts
  <1>2. QED
    BY <1>1 DEF ItemTyped, AnyMessage

LEMMA TypesAddValue ==
    ASSUME WalkInv, TypesInv, AtValue, NEW n, NEW data, AddValue(n, data),
           NEW z, z = Len(frames), NEW t, t = frames[z], NEW f, f = FieldOf(t),
           AddedLen(f, n, packed) \in Nat,
           Typ[f] = "message" \/ ItemOf(t).kind = "number",
           pass = 1 => ItemTyped(WellTyped, f, ItemOf(t)),
           dict' = dict, pass' = pass, ret' = << >>
    PROVE  TypesInv'
  <1>1. /\ frames # << >> /\ f \in Field /\ ItemOf(t) \in Object
        /\ t.j \in 1..Len(ValuesOf(t)) /\ Len(ValuesOf(t)) \in Nat
    BY ValueOfFacts
  <1>2. PICK len \in Nat : len = AddedLen(f, n, packed)
    OBVIOUS
  <1>3. PICK fr \in FrameType : SetTop(fr) /\ Added(fr, t, len)
    BY <1>2, AddStep
  <1>4. t.j \in Nat \ {0}
    BY <1>1
  <1>5. z \in Nat \ {0}
    BY <1>1, TopFacts
  <1>6. ASSUME pass = 0 /\ z = 1 PROVE FrameTyped(AnyMessage, fr)
    <2>1. FrameTyped(AnyMessage, t)
      BY <1>1, <1>6 DEF TypesInv
    <2>2. ItemTyped(AnyMessage, f, ItemOf(t))
      BY <1>1, AnyItem
    <2>3. QED
      BY <1>3, <1>4, <2>1, <2>2, TypedAdd
  <1>7. ASSUME pass = 1 PROVE FrameTyped(WellTyped, fr)
    <2>1. z \in 1..Len(frames)
      BY <1>5
    <2>2. FrameTyped(WellTyped, t)
      BY <1>7, <2>1 DEF TypesInv
    <2>3. QED
      BY <1>3, <1>4, <1>7, <2>2, TypedAdd
  <1>8. QED
    BY <1>1, <1>3, <1>6, <1>7, TypesSet

\* In pass 1 the outermost call does not fail.
LEMMA OutermostShallow ==
    ASSUME WalkInv, TypesInv, frames # << >>, pass = 1, NEW t, t = frames[1], Len(frames) = 1
    PROVE  Shallow(t.obj, t.msg)
  <1>1. t.obj = CallObj(1) /\ t.msg = CallMsg(1)
    BY TopFacts
  <1>2. CallObj(1) = dict /\ CallMsg(1) = RootMsg
    BY DEF CallObj, CallMsg
  <1>3. QED
    BY <1>1, <1>2 DEF TypesInv

LEMMA TypesNotADict ==
    ASSUME WalkInv, TypesInv, NotADict
    PROVE  TypesInv'
  <1>1. PICK z, t : z = Len(frames) /\ t = frames[z]
    OBVIOUS
  <1>2. Between /\ Top.obj.kind # "dict"
    BY DEF NotADict
  <1>3. frames # << >> /\ t = Top
    BY <1>1, <1>2, BetweenFacts
  <1>4. ASSUME pass = 1 PROVE z # 1
    <2> SUFFICES ASSUME z = 1 PROVE FALSE
      OBVIOUS
    <2>1. Shallow(t.obj, t.msg)
      BY <1>1, <1>3, <1>4, OutermostShallow
    <2>2. QED
      BY <1>2, <1>3, <2>1 DEF Shallow
  <1>5. PICK r \in Nat \cup {SizeMax} : r = SizeMax
    OBVIOUS
  <1>6. ReturnWith(r) /\ dict' = dict /\ pass' = pass
    BY <1>5 DEF NotADict
  <1>7. pass = 1 => IF r = SizeMax THEN z # 1 ELSE WellTyped[t.obj][t.msg]
    BY <1>4, <1>5
  <1>8. QED
    BY <1>1, <1>3, <1>5, <1>6, <1>7, TypesPop

\* A value that py_to_lwpb cannot convert ends the call.
LEMMA TypesScalar ==
    ASSUME WalkInv, TypesInv, packed \in BOOLEAN, Scalar
    PROVE  TypesInv'
  <1>1. PICK z, t, f : z = Len(frames) /\ t = frames[z] /\ f = FieldOf(t)
    OBVIOUS
  <1>2. AtValue /\ Typ[Field_] # "message"
    BY DEF Scalar
  <1>3. /\ frames # << >> /\ f = Field_ /\ FrameWalks(t, ret # << >>) /\ t.obj \in Object
        /\ f \in Field /\ f \in FieldsOf[t.msg] /\ f \in DOMAIN t.obj.of
        /\ ValuesOf(t) = t.obj.of[f] /\ Len(ValuesOf(t)) \in Nat
        /\ t.j \in 1..Len(ValuesOf(t))
        /\ ItemOf(t) \in Object /\ ItemOf(t) = Values[Top.j]
    BY <1>1, <1>2, ValueOfFacts
  <1>4. ret = << >>
    BY <1>1, <1>2, <1>3 DEF FrameWalks
  <1>5. PICK x \in Object : x = ItemOf(t)
    BY <1>3
  <1>6. CASE x.kind = "number"
    <2>1. PICK n \in Nat : n = x.n
      BY ObjectAssumption DEF ObjectAssumption
    <2>2. AddValue(n, NULL) /\ UNCHANGED <<ret, dict, pass>>
      BY <1>3, <1>5, <1>6, <2>1 DEF Scalar
    <2>3. AddedLen(f, n, packed) \in Nat
      BY <1>3, AddedFacts
    <2>4. ItemOf(t).kind = "number" /\ ItemTyped(WellTyped, f, ItemOf(t))
      BY <1>2, <1>3, <1>5, <1>6 DEF ItemTyped
    <2>5. dict' = dict /\ pass' = pass /\ ret' = << >>
      BY <1>4, <2>2
    <2>6. QED
      BY <1>1, <1>2, <2>2, <2>3, <2>4, <2>5, TypesAddValue
  <1>7. CASE x.kind # "number"
    <2>1. ASSUME pass = 1 PROVE z # 1
      <3> SUFFICES ASSUME z = 1 PROVE FALSE
        OBVIOUS
      <3>1. Shallow(t.obj, t.msg)
        BY <1>1, <1>3, <2>1, OutermostShallow
      <3>2. PICK o, j : o = t.obj /\ j = t.j
        OBVIOUS
      <3>3. ItemTyped(AnyMessage, f, o.of[f][j])
        BY <1>3, <3>1, <3>2 DEF Shallow, ItemsTyped
      <3>4. o.of[f][j] = x
        BY <1>3, <1>5, <3>2 DEF ItemOf
      <3>5. QED
        BY <1>2, <1>3, <1>7, <3>3, <3>4 DEF ItemTyped
    <2>2. PICK r \in Nat \cup {SizeMax} : r = SizeMax
      OBVIOUS
    <2>3. ReturnWith(r) /\ dict' = dict /\ pass' = pass
      BY <1>3, <1>5, <1>7, <2>2 DEF Scalar
    <2>4. pass = 1 => IF r = SizeMax THEN z # 1 ELSE WellTyped[t.obj][t.msg]
      BY <2>1, <2>2
    <2>5. QED
      BY <1>1, <1>3, <2>2, <2>3, <2>4, TypesPop
  <1>8. QED
    BY <1>6, <1>7

\* Pass 1 does not go on behind a message that was not encoded.
LEMMA TypesEndNested ==
    ASSUME WalkInv, TypesInv, packed \in BOOLEAN, status = "encoding", EndNested, status' = "encoding"
    PROVE  TypesInv'
  <1>1. PICK z, t, f : z = Len(frames) /\ t = frames[z] /\ f = FieldOf(t)
    OBVIOUS
  <1>2. AtValue /\ Typ[Field_] = "message" /\ ret # << >>
    BY DEF EndNested
  <1>3. /\ frames # << >> /\ t = Top /\ f = Field_ /\ FrameWalks(t, ret # << >>)
        /\ f \in Field /\ ItemOf(t) \in Object
        /\ Len(ValuesOf(t)) \in Nat /\ t.j \in 1..Len(ValuesOf(t))
    BY <1>1, <1>2, ValueOfFacts
  <1>4. PICK x \in Object, m \in Msg : x = ItemOf(t) /\ m = SubMsg[f]
    BY <1>2, <1>3, SubMsgFacts
  <1>5. PICK n, data :
        /\ n \in Nat \cup {SizeMax}
        /\ n = ret[1] /\ data = Plus(Top.valuebuf, MSG_RESERVE_BYTES)
    BY <1>2 DEF WalkInv
  <1>6. AddValue(n, data) /\ ret' = << >> /\ UNCHANGED <<dict, pass>>
    BY <1>5 DEF EndNested
  <1>7. AddedLen(f, n, packed) \in Nat
    <2>1. CASE n \in Nat
      BY <1>3, <2>1, AddedFacts
    <2>2. CASE n = SizeMax
      BY <1>2, <1>3, <2>2, AddedErrorFacts
    <2>3. QED
      BY <1>5, <2>1, <2>2
  <1>8. ASSUME pass = 1 PROVE ItemTyped(WellTyped, f, ItemOf(t))
    <2>1. t.valuebuf # NULL
      <3>1. t.j > 0 /\ t.valuebuf \in Nat
        BY <1>3, <1>8 DEF FrameWalks
      <3>2. QED
        BY <3>1 DEF NULL
    <2>2. n # SizeMax
      <3> SUFFICES ASSUME n = SizeMax PROVE FALSE
        OBVIOUS
      <3>1. PICK len \in Nat : len = AddedLen(f, n, packed)
        BY <1>7
      <3>2. Store(f, n, data, t.valuebuf, packed)
        BY <1>1, <1>2, <1>6, <3>1, AddStep
      <3>3. status' = "undefined"
        BY <2>1, <3>2 DEF Store
      <3>4. QED
        BY <3>3
    <2>3. Calls = z + 1 /\ z \in Nat \ {0}
      BY <1>1, <1>2, <1>3, TopFacts
    <2>4. CallObj(Calls) = x /\ CallMsg(Calls) = m
      BY <1>1, <1>4, <2>3 DEF CallObj, CallMsg
    <2>5. WellTyped[x][m]
      BY <1>2, <1>5, <1>8, <2>2, <2>4 DEF TypesInv
    <2>6. QED
      BY <1>2, <1>3, <1>4, <2>5 DEF ItemTyped
  <1>9. Typ[f] = "message" \/ ItemOf(t).kind = "number"
    BY <1>2, <1>3
  <1>10. QED
    BY <1>1, <1>2, <1>6, <1>7, <1>8, <1>9, TypesAddValue

\* What TypesInv says of the top call, of either typing.
LEMMA TopTyped ==
    ASSUME WalkInv, TypesInv, frames # << >>, NEW n, n = Len(frames), NEW t, t = frames[n]
    PROVE  /\ pass = 0 /\ n = 1 => FrameTyped(AnyMessage, t)
           /\ pass = 1 => FrameTyped(WellTyped, t)
  <1>1. n \in Nat \ {0}
    BY TopFacts
  <1>2. n \in 1..Len(frames)
    BY <1>1
  <1>3. QED
    BY <1>2 DEF TypesInv

LEMMA TypesBetween ==
    ASSUME WalkInv, TypesInv, AbsentField \/ StartField, status' = "encoding"
    PROVE  TypesInv'
  <1>1. PICK z, t : z = Len(frames) /\ t = frames[z]
    OBVIOUS
  <1>2. HasField
    BY DEF AbsentField, StartField
  <1>3. Between /\ Top.obj.kind = "dict" /\ Top.i <= Len(FieldOrder[Top.msg])
    BY <1>2 DEF HasField
  <1>4. /\ frames # << >> /\ t = Top /\ t.j = 0 /\ ret = << >>
        /\ t \in FrameType /\ FieldOf(t) = Field_ /\ t.i \in Nat \ {0}
    BY <1>1, <1>3, BetweenFacts
  <1>5. dict' = dict /\ pass' = pass /\ ret' = << >>
    BY <1>4 DEF AbsentField, StartField
  <1>6. /\ pass = 0 /\ z = 1 => FrameTyped(AnyMessage, t)
        /\ pass = 1 => FrameTyped(WellTyped, t)
    BY <1>1, <1>4, TopTyped
  <1>7. CASE AbsentField
    <2>1. PICK fr \in FrameType : SetTop(fr) /\ Skipped(fr, t)
      BY <1>1, <1>7, SkipStep
    <2>2. FieldOf(t) \notin DOMAIN t.obj.of
      BY <1>4, <1>7 DEF AbsentField
    <2>3. /\ pass = 0 /\ z = 1 => FrameTyped(AnyMessage, fr)
          /\ pass = 1 => FrameTyped(WellTyped, fr)
      BY <1>3, <1>4, <1>6, <2>1, <2>2, TypedSkip
    <2>4. QED
      BY <1>1, <1>4, <1>5, <2>1, <2>3, TypesSet
  <1>8. CASE StartField
    <2>1. PICK f : f = FieldOf(t)
      OBVIOUS
    <2>2. PICK fr \in FrameType : SetTop(fr) /\ Started(fr, t, IF Packed[f] THEN MSG_RESERVE_BYTES ELSE 0)
      BY <1>1, <1>8, <2>1, StartStep
    <2>3. /\ pass = 0 /\ z = 1 => FrameTyped(AnyMessage, fr)
          /\ pass = 1 => FrameTyped(WellTyped, fr)
      BY <1>6, <2>2, TypedStart
    <2>4. QED
      BY <1>1, <1>4, <1>5, <2>2, <2>3, TypesSet
  <1>9. QED
    BY <1>7, <1>8

LEMMA TypesStartNested ==
    ASSUME WalkInv, TypesInv, StartNested
    PROVE  TypesInv'
  <1>1. PICK z, t, f, x, m, p :
           /\ z = Len(frames) /\ t = frames[z] /\ f = FieldOf(t)
           /\ x = ItemOf(t) /\ m = SubMsg[f] /\ p = Plus(t.valuebuf, MSG_RESERVE_BYTES)
    OBVIOUS
  <1>2. AtValue /\ ret = << >> /\ frames # << >>
    BY DEF StartNested, AtValue
  <1>3. PICK fr \in FrameType, new \in FrameType :
           /\ frames' = Append([frames EXCEPT ![Len(frames)] = fr], new)
           /\ Waiting(fr, t) /\ new = Frame(x, m, p)
    BY <1>1, NestStep
  <1>4. frames' = Append([frames EXCEPT ![Len(frames)] = fr], new)
    BY <1>3
  <1>5. fr.obj = t.obj /\ fr.msg = t.msg /\ fr.i = t.i /\ fr.j = t.j /\ new.i = 1 /\ new.j = 0
    BY <1>3 DEF Waiting, Frame
  <1>6. dict' = dict /\ pass' = pass /\ ret' = << >>
    BY <1>2 DEF StartNested
  <1>7. QED
    BY <1>1, <1>2, <1>4, <1>5, <1>6, TypesPush

LEMMA TypesEndField ==
    ASSUME WalkInv, TypesInv, EndField
    PROVE  TypesInv'
  <1>1. PICK z, t, f : z = Len(frames) /\ t = frames[z] /\ f = FieldOf(t)
    OBVIOUS
  <1>2. /\ frames # << >> /\ ret = << >> /\ t \in FrameType /\ FrameWalks(t, FALSE)
        /\ Len(ValuesOf(t)) \in Nat /\ t.j = Len(ValuesOf(t)) + 1
    BY <1>1, EndFieldFacts
  <1>3. PICK len \in Nat : len = EndLen(t, f)
    BY <1>1, EndFieldFacts
  <1>4. PICK fr \in FrameType : SetTop(fr) /\ FieldEnded(fr, t, len)
    BY <1>1, <1>3, EndStep
  <1>5. t.j > 0 /\ t.obj.kind = "dict"
    <2>1. t.j > 0
      BY <1>2
    <2>2. QED
      BY <1>2, <2>1 DEF FrameWalks
  <1>6. t.i \in Nat \ {0}
    BY <1>2, FrameInts
  <1>7. /\ pass = 0 /\ z = 1 => FrameTyped(AnyMessage, t)
        /\ pass = 1 => FrameTyped(WellTyped, t)
    BY <1>1, <1>2, TopTyped
  <1>8. /\ pass = 0 /\ z = 1 => FrameTyped(AnyMessage, fr)
        /\ pass = 1 => FrameTyped(WellTyped, fr)
    BY <1>2, <1>4, <1>5, <1>6, <1>7, TypedEnd
  <1>9. dict' = dict /\ pass' = pass /\ ret' = << >>
    BY <1>2 DEF EndField
  <1>10. QED
    BY <1>1, <1>2, <1>4, <1>8, <1>9, TypesSet

LEMMA TypesEndMessage ==
    ASSUME WalkInv, TypesInv, EndMessage
    PROVE  TypesInv'
  <1>1. PICK z, t : z = Len(frames) /\ t = frames[z]
    OBVIOUS
  <1>2. Between /\ Top.i > Len(FieldOrder[Top.msg]) /\ Top.obj.kind = "dict"
    BY DEF EndMessage
  <1>3. /\ frames # << >> /\ t = Top
        /\ t \in FrameType /\ FrameWalks(t, FALSE)
        /\ t.obj \in Object /\ t.msg \in Msg /\ t.i \in Nat \ {0} /\ Len(FieldOrder[t.msg]) \in Nat
    BY <1>1, <1>2, BetweenFacts
  <1>4. t.i = Len(FieldOrder[t.msg]) + 1
    BY <1>2, <1>3 DEF FrameWalks
  <1>5. /\ pass = 0 /\ z = 1 => FrameTyped(AnyMessage, t)
        /\ pass = 1 => FrameTyped(WellTyped, t)
    BY <1>1, <1>3, TopTyped
  <1>6. pass = 0 /\ z = 1 => Shallow(dict, RootMsg)
    <2> SUFFICES ASSUME pass = 0, z = 1 PROVE Shallow(dict, RootMsg)
      OBVIOUS
    <2>1. t.obj = CallObj(z) /\ t.msg = CallMsg(z)
      BY <1>1, <1>3, TopFacts
    <2>2. t.obj = dict /\ t.msg = RootMsg
      BY <2>1 DEF CallObj, CallMsg
    <2>3. FrameTyped(AnyMessage, t)
      BY <1>5
    <2>4. Shallow(t.obj, t.msg)
      BY <1>2, <1>3, <1>4, <2>3, TypedWhole DEF Shallow
    <2>5. QED
      BY <2>2, <2>4
  <1>7. pass = 1 => WellTyped[t.obj][t.msg]
    <2> SUFFICES ASSUME pass = 1 PROVE WellTyped[t.obj][t.msg]
      OBVIOUS
    <2>1. PICK o \in Object, m \in Msg : o = t.obj /\ m = t.msg
      BY <1>3
    <2>2. FrameTyped(WellTyped, t)
      BY <1>5
    <2>3. /\ o.kind = "dict"
          /\ \A f \in FieldsOf[m] \cap DOMAIN o.of : ItemsTyped(WellTyped, o, f, Len(o.of[f]))
      BY <1>2, <1>3, <1>4, <2>1, <2>2, TypedWhole
    <2>4. QED
      BY <2>1, <2>3, TypedDef DEF ItemsTyped
  <1>8. PICK l \in Nat, e \in Nat : l = t.len /\ e = t.extralen
    BY <1>3, FrameInts
  <1>9. PICK r \in Nat : r = EncodedLen(t)
    BY <1>8 DEF EncodedLen
  <1>10. ReturnWith(r) /\ dict' = dict /\ pass' = pass
    BY <1>3, <1>9 DEF EndMessage
  <1>11. r # SizeMax
    BY DEF SizeMax
  <1>12. pass = 1 => IF r = SizeMax THEN z # 1 ELSE WellTyped[t.obj][t.msg]
    BY <1>7, <1>11
  <1>13. r \in Nat \cup {SizeMax} /\ (pass = 0 /\ z = 1 => r = SizeMax \/ Shallow(dict, RootMsg))
    BY <1>6
  <1>14. QED
    BY <1>1, <1>3, <1>10, <1>12, <1>13, TypesPop

\* Every step keeps TypesInv.
LEMMA TypesNext ==
    ASSUME WalkInv, TypesInv, packed \in BOOLEAN, status = "encoding", EncoderStep,
           status' = "encoding"
    PROVE  TypesInv'
  <1>1. CASE NotADict
    BY <1>1, TypesNotADict
  <1>2. CASE AbsentField \/ StartField
    BY <1>2, TypesBetween
  <1>3. CASE StartNested
    BY <1>3, TypesStartNested
  <1>4. CASE EndNested
    BY <1>4, TypesEndNested
  <1>5. CASE Scalar
    BY <1>5, TypesScalar
  <1>6. CASE EndField
    BY <1>6, TypesEndField
  <1>7. CASE EndMessage
    BY <1>7, TypesEndMessage
  <1>8. CASE EndPass0
    <2>1. /\ frames = << >> /\ pass = 0 /\ ret[1] # SizeMax
          /\ pass' = 1 /\ frames' = << Frame(dict, RootMsg, 0) >> /\ ret' = << >> /\ dict' = dict
      BY <1>8 DEF EndPass0
    <2>2. Shallow(dict, RootMsg)
      BY <2>1 DEF TypesInv
    <2>3. pass' \in {0, 1} /\ (pass' = 1 => Shallow(dict, RootMsg))
      BY <2>1, <2>2
    <2>4. QED
      BY <2>1, <2>3, TypesStart
  <1>9. CASE EndPass1
    BY <1>9 DEF EndPass1
  <1>10. QED
    BY <1>1, <1>2, <1>3, <1>4, <1>5, <1>6, <1>7, <1>8, <1>9 DEF EncoderStep

-----------------------------------------------------------------------------
(* BytesInv: what is in the buffer.                                        *)

LEMMA OverlayFacts ==
    ASSUME NEW m, IsSeq(m), NEW p \in Nat, NEW cells, IsSeq(cells), p + Len(cells) <= Len(m),
           NEW r, r = Overlay(m, p, cells)
    PROVE  /\ IsSeq(r) /\ Len(r) = Len(m)
           /\ \A k \in 1..p : r[k] = m[k]
           /\ \A q \in 1..Len(cells) : r[p + q] = cells[q]
           /\ \A k \in 1..Len(m) : k > p + Len(cells) => r[k] = m[k]
  <1>1. PICK a \in Nat, b \in Nat : a = Len(m) /\ b = Len(cells)
    BY SeqFacts
  <1>2. DOMAIN m = 1..a /\ DOMAIN cells = 1..b
    BY <1>1, SeqFacts
  <1>3. r = [k \in 1..a |-> IF k - p \in 1..b THEN cells[k - p] ELSE m[k]]
    BY <1>2 DEF Overlay
  <1>4. DOMAIN r = 1..a /\ r = [k \in 1..a |-> r[k]]
    BY <1>3
  <1>5. IsSeq(r) /\ Len(r) = a
    BY <1>4, FunIsSeq
  <1>6. p + b <= a
    BY <1>1
  <1>7. ASSUME NEW k \in 1..p PROVE r[k] = m[k]
    <2>1. k \in 1..a /\ k - p \notin 1..b
      BY <1>6
    <2>2. QED
      BY <1>3, <2>1
  <1>8. ASSUME NEW q \in 1..b PROVE r[p + q] = cells[q]
    <2>1. p + q \in 1..a /\ p + q - p = q
      BY <1>6
    <2>2. QED
      BY <1>3, <2>1
  <1>9. ASSUME NEW k \in 1..a, k > p + b PROVE r[k] = m[k]
    <2>1. k - p \notin 1..b
      BY <1>9
    <2>2. QED
      BY <1>3, <2>1
  <1>10. QED
    BY <1>1, <1>5, <1>7, <1>8, <1>9

\* r is m, but that it has seq behind p; what comes after seq may be anything.
Placed(m, r, p, seq) ==
    /\ \A k \in 1..p : r[k] = m[k]
    /\ Holds(r, p, seq)

\* The head of a value, then its body behind it.
LEMMA OverlayTwice ==
    ASSUME NEW m, IsSeq(m), NEW p \in Nat, NEW head, IsSeq(head), NEW body, IsSeq(body),
           NEW a \in Nat, a = Len(head), NEW b \in Nat, b = Len(body), NEW c \in Nat, c = Len(m),
           p + a + b <= c, NEW r, r = Overlay(Overlay(m, p, head), p + Len(head), body)
    PROVE  Placed(m, r, p, head \o body)
  <1>1. a = Len(head) /\ b = Len(body) /\ c = Len(m)
    OBVIOUS
  <1>2. p + a + b <= c
    OBVIOUS
  <1>3. PICK s : s = Overlay(m, p, head)
    OBVIOUS
  <1>4. /\ IsSeq(s) /\ Len(s) = c
        /\ \A k \in 1..p : s[k] = m[k]
        /\ \A q \in 1..a : s[p + q] = head[q]
    <2>1. p + Len(head) <= Len(m)
      BY <1>1, <1>2
    <2>2. QED
      BY <1>1, <1>3, <2>1, OverlayFacts
  <1>5. PICK d \in Nat : d = p + a
    OBVIOUS
  <1>6. /\ \A k \in 1..d : r[k] = s[k]
        /\ \A q \in 1..b : r[d + q] = body[q]
    <2>1. d + Len(body) <= Len(s) /\ r = Overlay(s, d, body)
      BY <1>1, <1>2, <1>3, <1>4, <1>5
    <2>2. QED
      BY <1>1, <1>4, <2>1, OverlayFacts
  <1>7. /\ Len(head \o body) = a + b
        /\ \A i \in 1..a : (head \o body)[i] = head[i]
        /\ \A i \in 1..b : (head \o body)[a + i] = body[i]
    BY <1>1, ConcatFacts
  <1>8. ASSUME NEW k \in 1..p PROVE r[k] = m[k]
    <2>1. k \in 1..d
      BY <1>5
    <2>2. QED
      BY <1>4, <1>6, <2>1
  <1>9. ASSUME NEW q \in 1..(a + b) PROVE r[p + q] = (head \o body)[q]
    <2>1. CASE q \in 1..a
      <3>1. p + q \in 1..d
        BY <1>5, <2>1
      <3>2. QED
        BY <1>4, <1>6, <1>7, <2>1, <3>1
    <2>2. CASE q \notin 1..a
      <3>1. PICK i \in 1..b : q = a + i
        <4>1. q - a \in 1..b /\ q = a + (q - a)
          BY <2>2
        <4>2. QED
          BY <4>1
      <3>2. p + q = d + i
        BY <1>5, <3>1
      <3>3. QED
        BY <1>6, <1>7, <3>1, <3>2
    <2>3. QED
      BY <2>1, <2>2
  <1>10. QED
    BY <1>7, <1>8, <1>9 DEF Placed, Holds

\* A scalar is put where it belongs.
LEMMA PutScalar ==
    ASSUME IsSeq(mem), NEW f \in Field, Typ[f] # "message", NEW n \in Nat, NEW p \in Nat, NEW data,
           NEW raw \in BOOLEAN, raw = Packed[f], p + AddedLen(f, n, raw) <= Len(mem),
           mem' = Written(f, n, data, p, raw)
    PROVE  Placed(mem, mem', p, ScalarBytes(f, n, raw))
  <1>1. PICK head, body : /\ head = Header(f, n, raw)
                          /\ body = SubSeq(ValueBytes(f, n), 1, BodyLen(f, n, raw))
    OBVIOUS
  <1>2. ~(Typ[f] = "message" \/ (Packed[f] /\ ~raw))
    OBVIOUS
  <1>3. mem' = Overlay(Overlay(mem, p, head), p + Len(head), body)
    BY <1>1, <1>2 DEF Written
  <1>4. head \in Seq(Cell) /\ Len(head) = HeaderLen(f, n, raw)
    BY <1>1, HeaderFacts
  <1>5. PICK b \in Nat : b = BodyLen(f, n, raw) /\ b \in 0..n
    BY DEF BodyLen
  <1>6. IsSeq(body) /\ Len(body) = b
    <2>1. PICK v : v = ValueBytes(f, n)
      OBVIOUS
    <2>2. v \in Seq(Cell) /\ Len(v) = n
      BY <2>1, ValueFacts
    <2>3. IsSeq(v)
      <3> HIDE DEF Cell
      <3>1. QED
        BY <2>2, SeqIsSeq
    <2>4. b \in 0..Len(v) /\ 1 \in Nat \ {0}
      BY <1>5, <2>2
    <2>5. IsSeq(SubSeq(v, 1, b)) /\ Len(SubSeq(v, 1, b)) = IF 1 <= b THEN b - 1 + 1 ELSE 0
      BY <2>3, <2>4, PartFacts
    <2>6. QED
      BY <1>1, <1>5, <2>1, <2>5
  <1>7. IsSeq(head)
    <2> HIDE DEF Cell
    <2>1. QED
      BY <1>4, SeqIsSeq
  <1>8. PICK a \in Nat, c \in Nat : a = Len(head) /\ c = Len(mem)
    BY <1>7, SeqFacts
  <1>9. p + a + b <= c
    <2>1. AddedLen(f, n, raw) = a + b
      BY <1>4, <1>5, <1>8 DEF AddedLen
    <2>2. QED
      BY <1>8, <2>1
  <1>10. Placed(mem, mem', p, head \o body)
    <2>1. PICK m, r : m = mem /\ r = mem'
      OBVIOUS
    <2>2. r = Overlay(Overlay(m, p, head), p + Len(head), body) /\ IsSeq(m) /\ c = Len(m)
      BY <1>3, <1>8, <2>1
    <2>3. Placed(m, r, p, head \o body)
      BY <1>6, <1>7, <1>8, <1>9, <2>2, OverlayTwice
    <2>4. QED
      BY <2>1, <2>3
  <1>11. ScalarBytes(f, n, raw) = head \o body
    BY <1>1 DEF ScalarBytes
  <1>12. QED
    BY <1>10, <1>11

\* The key and the length fit into the room that was left for them.
LEMMA HeadFits ==
    ASSUME NEW f \in Field, Boxed(f), NEW n \in Nat
    PROVE  HeaderLen(f, n, FALSE) \in 0..10 /\ BodyLen(f, n, FALSE) = n
  <1>1. WireTypeAs(f, FALSE) = "STRING"
    BY SubMsgFacts DEF Boxed, WireTypeAs, WireType
  <1>2. HeaderLen(f, n, FALSE) = KeyLen[f] + VarintLen[n]
    BY <1>1 DEF HeaderLen, SizeMax
  <1>3. PICK k, v, c :
        /\ k \in Nat /\ v \in Nat
        /\ k = KeyLen[f] /\ v = VarintLen[n] /\ c = Cardinality(VarintSteps)
    BY LengthAssumption, VarintFacts DEF LengthAssumption
  <1>4. c \in Nat /\ v <= 1 + c /\ k + 1 + c <= 10
    <2>1. c \in Nat
      BY <1>3, LengthAssumption, FS_CardinalityType DEF LengthAssumption
    <2>2. QED
      BY <1>3, <2>1, VarintFacts, ReserveAssumption DEF ReserveAssumption, MSG_RESERVE_BYTES
  <1>5. k + v \in 0..10
    BY <1>3, <1>4
  <1>6. HeaderLen(f, n, FALSE) = k + v
    BY <1>2, <1>3
  <1>7. BodyLen(f, n, FALSE) = n
    BY <1>1 DEF BodyLen
  <1>8. QED
    BY <1>5, <1>6, <1>7

\* A message, or a packed run, is moved down behind its key and length.
LEMMA EnclosedPlaced ==
    ASSUME IsSeq(mem), NEW f \in Field, Boxed(f), NEW bytes \in Seq(Cell),
           NEW n \in Nat, n = Len(bytes), NEW p \in Nat, NEW data \in Nat, data = p + 10,
           NEW c \in Nat, c = Len(mem), data + n <= c, Holds(mem, data, bytes),
           mem' = Written(f, n, data, p, FALSE)
    PROVE  Placed(mem, mem', p, Enclosed(f, bytes))
  <1>1. PICK head : head = Header(f, n, FALSE)
    OBVIOUS
  <1>2. head \in Seq(Cell) /\ Len(head) = HeaderLen(f, n, FALSE)
    BY <1>1, HeaderFacts
  <1>3. IsSeq(head) /\ IsSeq(bytes)
    <2> HIDE DEF Cell
    <2>1. QED
      BY <1>2, SeqIsSeq
  <1>4. PICK a \in Nat : a = Len(head)
    BY <1>3, SeqFacts
  <1>5. a <= 10 /\ BodyLen(f, n, FALSE) = n
    <2>1. PICK h : h = HeaderLen(f, n, FALSE)
      OBVIOUS
    <2>2. h \in 0..10 /\ BodyLen(f, n, FALSE) = n
      BY <2>1, HeadFits
    <2>3. a = h
      BY <1>2, <1>4, <2>1
    <2>4. a <= 10
      BY <2>2, <2>3
    <2>5. QED
      BY <2>2, <2>4, Zenon
  <1>6. PICK m : m = Overlay(mem, p, head)
    OBVIOUS
  <1>7. /\ IsSeq(m) /\ Len(m) = c
        /\ \A k \in 1..c : k > p + a => m[k] = mem[k]
    <2>1. PICK old : old = mem
      OBVIOUS
    <2>2. p + Len(head) <= Len(old) /\ IsSeq(old) /\ m = Overlay(old, p, head)
      BY <1>4, <1>5, <1>6, <2>1
    <2>3. /\ IsSeq(m) /\ Len(m) = Len(old)
          /\ \A k \in 1..Len(old) : k > p + Len(head) => m[k] = old[k]
      BY <1>3, <2>2, OverlayFacts
    <2>4. QED
      BY <1>4, <2>1, <2>3
  <1>8. PICK part : part = SubSeq(m, data + 1, data + n)
    OBVIOUS
  <1>9. part = bytes
    <2>1. data + 1 \in Nat \ {0} /\ data + n \in 0..Len(m)
      BY <1>7
    <2>2. PICK b \in Nat \ {0}, e \in Nat : b = data + 1 /\ e = data + n
      BY <2>1
    <2>3. e \in 0..Len(m) /\ part = SubSeq(m, b, e)
      BY <1>8, <2>1, <2>2
    <2>4. /\ IsSeq(part) /\ Len(part) = IF b <= e THEN e - b + 1 ELSE 0
          /\ \A i \in 1..(e - b + 1) : part[i] = m[b + i - 1]
      BY <1>7, <2>3, PartFacts
    <2>5. Len(part) = n /\ e - b + 1 = n
      BY <2>2, <2>4
    <2>6. ASSUME NEW i \in 1..n PROVE part[i] = bytes[i]
      <3>1. part[i] = m[b + i - 1]
        BY <2>4, <2>5
      <3>2. b + i - 1 = data + i /\ data + i \in 1..c /\ data + i > p + a
        BY <1>5, <2>2
      <3>3. m[data + i] = mem[data + i]
        BY <1>7, <3>2
      <3>4. mem[data + i] = bytes[i]
        BY DEF Holds
      <3>5. QED
        BY <3>1, <3>2, <3>3, <3>4
    <2>7. QED
      BY <1>3, <2>4, <2>5, <2>6, SameSeq
  <1>10. SubSeq(bytes, 1, n) = bytes
    <2>1. PICK s : s = SubSeq(bytes, 1, n)
      OBVIOUS
    <2>2. n \in 0..Len(bytes) /\ 1 \in Nat \ {0}
      OBVIOUS
    <2>3. /\ IsSeq(s) /\ Len(s) = IF 1 <= n THEN n - 1 + 1 ELSE 0
          /\ \A i \in 1..(n - 1 + 1) : s[i] = bytes[1 + i - 1]
      BY <1>3, <2>1, <2>2, PartFacts
    <2>4. Len(s) = n /\ \A i \in 1..n : s[i] = bytes[i]
      BY <2>3
    <2>5. QED
      BY <1>3, <2>1, <2>3, <2>4, SameSeq
  <1>11. mem' = Overlay(m, p + Len(head), bytes)
    <2>1. Typ[f] = "message" \/ (Packed[f] /\ ~FALSE)
      BY DEF Boxed
    <2>2. mem' = Overlay(m, p + Len(head), SubSeq(part, 1, n))
      BY <1>1, <1>5, <1>6, <1>8, <2>1 DEF Written
    <2>3. QED
      BY <1>9, <1>10, <2>2
  <1>12. Placed(mem, mem', p, head \o bytes)
    <2>1. PICK old, r : old = mem /\ r = mem'
      OBVIOUS
    <2>2. /\ r = Overlay(Overlay(old, p, head), p + Len(head), bytes)
          /\ IsSeq(old) /\ c = Len(old) /\ p + a + n <= c
      BY <1>5, <1>6, <1>11, <2>1
    <2>3. Placed(old, r, p, head \o bytes)
      BY <1>3, <1>4, <2>2, OverlayTwice
    <2>4. QED
      BY <2>1, <2>3
  <1>13. Enclosed(f, bytes) = head \o bytes
    BY <1>1 DEF Enclosed
  <1>14. QED
    BY <1>12, <1>13

\* What a call has written, field by field and value by value.
LEMMA DoneAtField ==
    ASSUME NEW t \in FrameType, t.i <= Len(FieldOrder[t.msg])
    PROVE  /\ FieldsDone(t) \in Seq(Cell)
           /\ FieldsBytes(Encoded, t.obj, t.msg)[t.i] =
                 FieldsDone(t) \o FieldBytes(Encoded, t.obj, FieldOf(t))
  <1>1. PICK o \in Object, m \in Msg, i \in Nat \ {0} : o = t.obj /\ m = t.msg /\ i = t.i
    BY DEF FrameType
  <1>2. PICK n, s : n \in Nat /\ n = Len(FieldOrder[m]) /\ s = FieldsBytes(Encoded, o, m)
    BY OrderFacts
  <1>3. i \in 1..n /\ i - 1 \in 0..n
    BY <1>1, <1>2
  <1>4. s \in [0..n -> Seq(Cell)]
    BY <1>2, EncodedDef, FieldsBytesFacts
  <1>5. s[i] = s[i - 1] \o FieldBytes(Encoded, o, FieldOrder[m][i])
    BY <1>2, <1>3, EncodedDef, FieldsBytesFacts
  <1>6. s[i - 1] \in Seq(Cell)
    <2> HIDE DEF Cell
    <2>1. QED
      BY <1>3, <1>4
  <1>7. QED
    BY <1>1, <1>2, <1>5, <1>6 DEF FieldsDone, FieldOf

LEMMA DoneAtEnd ==
    ASSUME NEW t \in FrameType, t.i = Len(FieldOrder[t.msg]) + 1
    PROVE  FieldsDone(t) = Encoded[t.obj][t.msg]
  <1>1. PICK o \in Object, m \in Msg, i \in Nat \ {0} : o = t.obj /\ m = t.msg /\ i = t.i
    BY DEF FrameType
  <1>2. PICK n \in Nat : n = Len(FieldOrder[m])
    BY OrderFacts
  <1>3. i - 1 = n
    BY <1>1, <1>2
  <1>4. Encoded[o][m] = FieldsBytes(Encoded, o, m)[n]
    BY <1>2, EncodedDef
  <1>5. QED
    BY <1>1, <1>3, <1>4 DEF FieldsDone

LEMMA FieldsDoneType ==
    ASSUME NEW t \in FrameType, t.i <= Len(FieldOrder[t.msg]) + 1
    PROVE  FieldsDone(t) \in Seq(Cell)
  <1>1. PICK o \in Object, m \in Msg, i \in Nat \ {0} : o = t.obj /\ m = t.msg /\ i = t.i
    BY DEF FrameType
  <1>2. PICK n \in Nat : n = Len(FieldOrder[m])
    BY OrderFacts
  <1>3. CASE i <= n
    BY <1>1, <1>2, <1>3, DoneAtField
  <1>4. CASE ~(i <= n)
    <2>1. t.i = Len(FieldOrder[t.msg]) + 1
      BY <1>1, <1>2, <1>4
    <2>2. FieldsDone(t) = Encoded[o][m]
      BY <1>1, <2>1, DoneAtEnd
    <2>3. QED
      BY <2>2, EncodedDef
  <1>5. QED
    BY <1>3, <1>4

LEMMA DoneAtItem ==
    ASSUME NEW t \in FrameType, t.i <= Len(FieldOrder[t.msg]), NEW f, f = FieldOf(t),
           f \in DOMAIN t.obj.of, t.j \in 1..Len(ValuesOf(t))
    PROVE  /\ ItemsDone(t) \in Seq(Cell)
           /\ ItemsBytes(Encoded, t.obj, f)[t.j] = ItemsDone(t) \o ItemBytes(Encoded, f, ItemOf(t))
  <1>1. f \in Field /\ ValuesOf(t) = t.obj.of[f] /\ Len(ValuesOf(t)) \in Nat
    BY FieldFacts
  <1>2. PICK o \in Object, j \in Nat, n \in Nat : o = t.obj /\ j = t.j /\ n = Len(o.of[f])
    <2>1. t.obj \in Object
      BY DEF FrameType
    <2>2. QED
      BY <1>1, <2>1
  <1>3. PICK s : s = ItemsBytes(Encoded, o, f)
    OBVIOUS
  <1>4. j \in 1..n /\ j - 1 \in 0..n
    BY <1>1, <1>2
  <1>5. s \in [0..n -> Seq(Cell)]
    BY <1>1, <1>2, <1>3, EncodedDef, ItemsBytesFacts
  <1>6. s[j] = s[j - 1] \o ItemBytes(Encoded, f, o.of[f][j])
    BY <1>1, <1>2, <1>3, <1>4, EncodedDef, ItemsBytesFacts
  <1>7. s[j - 1] \in Seq(Cell)
    <2> HIDE DEF Cell
    <2>1. QED
      BY <1>4, <1>5
  <1>8. QED
    BY <1>1, <1>2, <1>3, <1>6, <1>7 DEF ItemsDone, ItemOf

\* The bytes of a field, when those of all its values are there.
LEMMA DoneAtLast ==
    ASSUME NEW t \in FrameType, t.i <= Len(FieldOrder[t.msg]), NEW f, f = FieldOf(t),
           f \in DOMAIN t.obj.of, t.j = Len(ValuesOf(t)) + 1
    PROVE  /\ ItemsDone(t) \in Seq(Cell)
           /\ FieldBytes(Encoded, t.obj, f) =
                 IF Packed[f] THEN Enclosed(f, ItemsDone(t)) ELSE ItemsDone(t)
  <1>1. f \in Field /\ ValuesOf(t) = t.obj.of[f] /\ Len(ValuesOf(t)) \in Nat
    BY FieldFacts
  <1>2. PICK o \in Object, n \in Nat : o = t.obj /\ n = Len(o.of[f])
    <2>1. t.obj \in Object
      BY DEF FrameType
    <2>2. QED
      BY <1>1, <2>1
  <1>3. t.j - 1 = n
    BY <1>1, <1>2
  <1>4. PICK s : s = ItemsBytes(Encoded, o, f)
    OBVIOUS
  <1>5. ItemsDone(t) = s[n]
    BY <1>2, <1>3, <1>4 DEF ItemsDone
  <1>6. s \in [0..n -> Seq(Cell)]
    BY <1>1, <1>2, <1>4, EncodedDef, ItemsBytesFacts
  <1>7. s[n] \in Seq(Cell)
    <2> HIDE DEF Cell
    <2>1. QED
      BY <1>6
  <1>8. FieldBytes(Encoded, o, f) = IF Packed[f] THEN Enclosed(f, s[n]) ELSE s[n]
    BY <1>2, <1>4 DEF FieldBytes
  <1>9. QED
    BY <1>2, <1>5, <1>7, <1>8

LEMMA ItemsDoneType ==
    ASSUME NEW t \in FrameType, t.i <= Len(FieldOrder[t.msg]), NEW f, f = FieldOf(t),
           f \in DOMAIN t.obj.of, t.j > 0, t.j <= Len(ValuesOf(t)) + 1
    PROVE  ItemsDone(t) \in Seq(Cell)
  <1>1. PICK j \in Nat, n \in Nat : j = t.j /\ n = Len(ValuesOf(t))
    BY FieldFacts, FrameInts
  <1>2. CASE j <= n
    <2>1. t.j \in 1..Len(ValuesOf(t))
      BY <1>1, <1>2
    <2>2. QED
      BY <2>1, DoneAtItem
  <1>3. CASE ~(j <= n)
    <2>1. t.j = Len(ValuesOf(t)) + 1
      BY <1>1, <1>3
    <2>2. QED
      BY <2>1, DoneAtLast
  <1>4. QED
    BY <1>2, <1>3

\* Bytes in the part of the buffer that is kept stay there.
LEMMA HoldsKept ==
    ASSUME NEW m, NEW r, NEW p \in Nat, NEW seq, NEW l \in Nat, l = Len(seq), Holds(m, p, seq),
           NEW c \in Nat, p + l <= c, \A k \in 1..c : r[k] = m[k]
    PROVE  Holds(r, p, seq)
  <1> SUFFICES ASSUME NEW q \in 1..Len(seq) PROVE r[p + q] = seq[q]
    BY DEF Holds
  <1>1. q \in 1..l /\ p + q \in 1..c
    <2>1. q \in 1..l
      OBVIOUS
    <2>2. QED
      BY <2>1
  <1>2. m[p + q] = seq[q]
    BY DEF Holds
  <1>3. QED
    BY <1>1, <1>2

\* Bytes behind one another are there together.
LEMMA HoldsJoin ==
    ASSUME NEW m, NEW p \in Nat, NEW s, IsSeq(s), NEW t, IsSeq(t), NEW d \in Nat, d = p + Len(s),
           Holds(m, p, s), Holds(m, d, t)
    PROVE  Holds(m, p, s \o t)
  <1>1. PICK a \in Nat, b \in Nat : a = Len(s) /\ b = Len(t)
    BY SeqFacts
  <1>2. /\ Len(s \o t) = a + b
        /\ \A i \in 1..a : (s \o t)[i] = s[i]
        /\ \A i \in 1..b : (s \o t)[a + i] = t[i]
    BY <1>1, ConcatFacts
  <1>3. ASSUME NEW q \in 1..(a + b) PROVE m[p + q] = (s \o t)[q]
    <2>1. CASE q \in 1..a
      BY <1>1, <1>2, <2>1 DEF Holds
    <2>2. CASE q \notin 1..a
      <3>1. q - a \in 1..b /\ q = a + (q - a)
        BY <2>2
      <3>2. PICK i \in 1..b : q = a + i
        BY <3>1
      <3>3. p + q = d + i
        BY <1>1, <3>2
      <3>4. m[d + i] = t[i]
        BY <1>1 DEF Holds
      <3>5. QED
        BY <1>2, <3>2, <3>3, <3>4
    <2>3. QED
      BY <2>1, <2>2
  <1>4. QED
    BY <1>2, <1>3 DEF Holds

\* The bytes up to the c-th are left as they are.
KeptTo(c) == \A k \in 1..c : mem'[k] = mem[k]

\* A call that writes no further than c has what it wrote kept.
LEMMA FrameKept ==
    ASSUME NEW fr \in FrameType, NEW s, FrameFits(fr, s), FrameHolds(fr, s),
           NEW c \in Nat, KeptTo(c), fr.buf <= c, fr.j > 0 => fr.valuebuf <= c
    PROVE  FrameHolds(fr, s)'
  <1>1. PICK m, r : m = mem /\ r = mem'
    OBVIOUS
  <1>2. \A k \in 1..c : r[k] = m[k]
    BY <1>1 DEF KeptTo
  <1>3. PICK p \in Nat, l \in Nat, vl \in Nat : p = s /\ l = fr.len /\ vl = fr.fieldlen
    BY FrameInts DEF FrameFits
  <1>4. fr.buf = p + l
    BY <1>3 DEF FrameFits
  <1>5. Holds(r, p, FieldsDone(fr)) /\ l = Len(FieldsDone(fr))
    <2>1. PICK seq : seq = FieldsDone(fr)
      OBVIOUS
    <2>2. Holds(m, p, seq) /\ l = Len(seq)
      BY <1>1, <1>3, <2>1 DEF FrameHolds
    <2>3. p + l <= c
      BY <1>4
    <2>4. Holds(r, p, seq)
      BY <1>2, <2>2, <2>3, HoldsKept
    <2>5. QED
      BY <2>1, <2>2, <2>4
  <1>6. ASSUME fr.j > 0 PROVE Holds(r, fr.fieldbuf, ItemsDone(fr)) /\ vl = Len(ItemsDone(fr))
    <2>1. PICK seq : seq = ItemsDone(fr)
      OBVIOUS
    <2>2. PICK b \in Nat : b = fr.fieldbuf
      <3>1. fr.fieldbuf = fr.buf + (IF Packed[FieldOf(fr)] THEN 10 ELSE 0)
        BY <1>6 DEF FrameFits, MSG_RESERVE_BYTES
      <3>2. QED
        BY <1>4, <3>1
    <2>3. fr.valuebuf = b + vl
      BY <1>3, <1>6, <2>2 DEF FrameFits
    <2>4. b + vl <= c
      BY <1>6, <2>3
    <2>5. Holds(m, b, seq) /\ vl = Len(seq)
      BY <1>1, <1>3, <1>6, <2>1, <2>2 DEF FrameHolds
    <2>6. Holds(r, b, seq)
      BY <1>2, <2>4, <2>5, HoldsKept
    <2>7. QED
      BY <2>1, <2>2, <2>5, <2>6
  <1>7. QED
    BY <1>1, <1>3, <1>5, <1>6 DEF FrameHolds

\* A call that waits has its bytes before those of the call at the top.
LEMMA BelowKept ==
    ASSUME WalkInv, SizeInv, BytesInv, pass = 1, frames # << >>, NEW n, n = Len(frames),
           NEW t, t = frames[n], NEW c \in Nat, KeptTo(c), t.buf <= c, NEW k \in 1..(n - 1),
           NEW fr, fr = frames[k], NEW s, s = CallStart(k)
    PROVE  FrameHolds(fr, s)'
  <1>1. /\ n \in Nat \ {0} /\ t \in FrameType /\ Calls = n + Len(ret)
        /\ (ret # << >> => Len(ret) = 1)
    BY TopFacts
  <1>2. k \in 1..n /\ k < n /\ n \in 1..n /\ k < Calls
    <2>1. Len(<< >>) = 0
      OBVIOUS
    <2>2. QED
      BY <1>1, <2>1
  <1>3. fr \in FrameType
    <2>1. frames \in Seq(FrameType)
      BY DEF WalkInv
    <2> HIDE DEF FrameType
    <2>2. QED
      BY <1>2, <2>1
  <1>4. FrameWalks(fr, k < Calls)
    BY <1>2 DEF WalkInv
  <1>5. fr.j > 0
    BY <1>2, <1>4 DEF FrameWalks
  <1>6. FrameFits(fr, s)
    BY <1>2 DEF SizeInv
  <1>7. FrameHolds(fr, s)
    BY <1>2 DEF BytesInv
  <1>8. PICK a \in Int, b \in Int, v \in Int : a = t.buf /\ b = fr.buf /\ v = fr.valuebuf
    BY <1>1, <1>3, FrameInts
  <1>9. v + 10 <= a
    BY <1>2, <1>8 DEF SizeInv, Nested, MSG_RESERVE_BYTES
  <1>10. b <= v
    <2>1. PICK vl \in Nat, x \in Int : vl = fr.fieldlen /\ x = fr.fieldbuf
      BY <1>3, FrameInts
    <2>2. x = b + (IF Packed[FieldOf(fr)] THEN 10 ELSE 0) /\ v = x + vl
      BY <1>5, <1>6, <1>8, <2>1 DEF FrameFits, MSG_RESERVE_BYTES
    <2>3. QED
      BY <2>1, <2>2
  <1>11. b <= c /\ v <= c
    BY <1>8, <1>9, <1>10
  <1>12. QED
    BY <1>3, <1>6, <1>7, <1>8, <1>11, FrameKept

\* BytesInv is kept when the innermost call changes, and writes behind what it
\* has written.
LEMMA BytesSet ==
    ASSUME WalkInv, SizeInv, BytesInv, pass = 1, frames # << >>, NEW n, n = Len(frames),
           NEW t, t = frames[n], NEW fr \in FrameType, SetTop(fr),
           dict' = dict, pass' = pass, ret' = << >>, NEW c \in Nat, KeptTo(c), t.buf <= c,
           NEW s, s = CallStart(n), FrameHolds(fr, s)'
    PROVE  BytesInv'
  <1>1. frames \in Seq(FrameType)
    BY DEF WalkInv
  <1>2. /\ n \in Nat \ {0}
        /\ frames' \in Seq(FrameType) /\ Len(frames') = n /\ frames' # << >>
        /\ \A k \in 1..(n - 1) : frames'[k] = frames[k]
        /\ frames'[n] = fr
    <2> HIDE DEF FrameType
    <2>1. QED
      BY <1>1, FramesSet
  <1>3. ASSUME NEW k \in 1..n PROVE FrameHolds(frames[k], CallStart(k))'
    <2>1. n \in Nat /\ k \in 1..n
      BY <1>2
    <2>2. PICK a, b : a = frames[k] /\ b = CallStart(k)
      OBVIOUS
    <2>3. CallStart(k)' = b
      BY <1>2, <2>1, <2>2, CallsBelow
    <2>4. CASE k = n
      BY <1>2, <2>2, <2>3, <2>4
    <2>5. CASE k # n
      <3>1. k \in 1..(n - 1) /\ frames'[k] = a
        BY <1>2, <2>2, <2>5
      <3>2. FrameHolds(a, b)'
        BY <2>2, <3>1, BelowKept
      <3>3. QED
        BY <2>3, <3>1, <3>2
    <2>6. QED
      BY <2>4, <2>5
  <1>4. QED
    BY <1>2, <1>3 DEF BytesInv

\* A call that has written nothing yet.
LEMMA FreshHolds ==
    ASSUME NEW fr, fr.i = 1, fr.j = 0, fr.len = 0, fr.obj \in Object, fr.msg \in Msg, NEW s
    PROVE  FrameHolds(fr, s)
  <1>1. PICK o \in Object, m \in Msg : o = fr.obj /\ m = fr.msg
    OBVIOUS
  <1>2. FieldsBytes(Encoded, o, m)[0] = << >>
    BY EncodedDef, FieldsBytesFacts
  <1>3. FieldsDone(fr) = << >>
    BY <1>1, <1>2 DEF FieldsDone
  <1>4. Len(<< >>) = 0 /\ \A q \in 1..0 : FALSE
    OBVIOUS
  <1>5. Holds(mem, s, << >>)
    BY <1>4 DEF Holds
  <1>6. QED
    BY <1>3, <1>4, <1>5 DEF FrameHolds

\* BytesInv is kept when a call is made.
LEMMA BytesPush ==
    ASSUME WalkInv, BytesInv, pass = 1, frames # << >>, NEW n, n = Len(frames), NEW t, t = frames[n],
           NEW fr \in FrameType, NEW new \in FrameType,
           frames' = Append([frames EXCEPT ![Len(frames)] = fr], new),
           Waiting(fr, t), new.i = 1, new.j = 0, new.len = 0,
           dict' = dict, pass' = pass, ret' = << >>, mem' = mem
    PROVE  BytesInv'
  <1>1. frames \in Seq(FrameType)
    BY DEF WalkInv
  <1>2. /\ n \in Nat \ {0}
        /\ frames' \in Seq(FrameType) /\ Len(frames') = n + 1 /\ frames' # << >>
        /\ \A k \in 1..(n - 1) : frames'[k] = frames[k]
        /\ frames'[n] = fr /\ frames'[n + 1] = new
    <2> HIDE DEF FrameType
    <2>1. QED
      BY <1>1, FramesPush
  <1>3. new.obj \in Object /\ new.msg \in Msg
    BY DEF FrameType
  <1>4. \A s : FrameHolds(new, s)'
    <2>1. \A s : FrameHolds(new, s)
      BY <1>3, FreshHolds
    <2>2. QED
      BY <2>1 DEF FrameHolds
  <1>5. ASSUME NEW k \in 1..n PROVE FrameHolds(frames[k], CallStart(k))'
    <2>1. n \in Nat /\ k \in 1..n
      BY <1>2
    <2>2. PICK a, b : a = frames[k] /\ b = CallStart(k)
      OBVIOUS
    <2>3. CallStart(k)' = b
      BY <1>2, <2>1, <2>2, CallsBelow
    <2>4. FrameHolds(a, b)
      BY <2>1, <2>2 DEF BytesInv
    <2>5. CASE k = n
      <3>1. FrameHolds(fr, b)
        BY <2>2, <2>4, <2>5 DEF FrameHolds, Waiting, FieldsDone, ItemsDone, FieldOf
      <3>2. FrameHolds(fr, b)'
        BY <3>1 DEF FrameHolds
      <3>3. QED
        BY <1>2, <2>3, <2>5, <3>2
    <2>6. CASE k # n
      <3>1. frames'[k] = a
        BY <1>2, <2>2, <2>6
      <3>2. FrameHolds(a, b)'
        BY <2>4 DEF FrameHolds
      <3>3. QED
        BY <2>3, <3>1, <3>2
    <2>7. QED
      BY <2>5, <2>6
  <1>6. ASSUME NEW k \in 1..(n + 1) PROVE FrameHolds(frames[k], CallStart(k))'
    <2>1. CASE k = n + 1
      BY <1>2, <1>4, <2>1
    <2>2. CASE k # n + 1
      <3>1. k \in 1..n
        BY <1>2, <2>2
      <3>2. QED
        BY <1>5, <3>1
    <2>3. QED
      BY <2>1, <2>2
  <1>7. QED
    BY <1>2, <1>6 DEF BytesInv

\* BytesInv is kept when a call returns: it has written the whole message.
LEMMA BytesPop ==
    ASSUME WalkInv, BytesInv, pass = 1, frames # << >>, NEW n, n = Len(frames), NEW t, t = frames[n],
           t.i = Len(FieldOrder[t.msg]) + 1, NEW r \in Nat, r = t.len, ReturnWith(r),
           dict' = dict, pass' = pass, mem' = mem
    PROVE  BytesInv'
  <1>1. frames \in Seq(FrameType)
    BY DEF WalkInv
  <1>2. /\ n \in Nat \ {0}
        /\ frames' \in Seq(FrameType) /\ Len(frames') = n - 1
        /\ n > 1 => frames' # << >>
        /\ n = 1 => frames' = << >>
        /\ \A k \in 1..(n - 1) : frames'[k] = frames[k]
        /\ ret' = << r >> /\ Len(ret') = 1 /\ ret'[1] = r
    <2> HIDE DEF FrameType
    <2>1. QED
      BY <1>1, FramesPop
  <1>3. ASSUME NEW k \in 1..(n - 1) PROVE FrameHolds(frames[k], CallStart(k))'
    <2>1. n \in Nat /\ k \in 1..n
      BY <1>2
    <2>2. PICK a, b : a = frames[k] /\ b = CallStart(k)
      OBVIOUS
    <2>3. CallStart(k)' = b /\ frames'[k] = a
      BY <1>2, <2>1, <2>2, CallsBelow
    <2>4. FrameHolds(a, b)
      BY <2>1, <2>2 DEF BytesInv
    <2>5. FrameHolds(a, b)'
      BY <2>4 DEF FrameHolds
    <2>6. QED
      BY <2>3, <2>5
  <1>4. Calls' = n
    BY <1>2 DEF Calls
  <1>5. PICK o, m, s : o \in Object /\ m \in Msg /\ o = t.obj /\ m = t.msg /\ s = CallStart(n)
    <2>1. t \in FrameType
      BY TopFacts
    <2>2. QED
      BY <2>1 DEF FrameType
  <1>6. CallObj(n)' = o /\ CallMsg(n)' = m /\ CallStart(n)' = s
    <2>1. n \in Nat /\ n \in 1..n
      BY <1>2
    <2>2. CallObj(n) = o /\ CallMsg(n) = m
      BY <1>5, TopFacts
    <2>3. QED
      BY <1>2, <1>5, <2>1, <2>2, CallsBelow
  <1>7. r = Len(Encoded[o][m]) /\ Holds(mem, s, Encoded[o][m])
    <2>1. n \in 1..Len(frames) /\ t \in FrameType
      BY <1>2, TopFacts
    <2>2. FrameHolds(t, s)
      BY <1>5, <2>1 DEF BytesInv
    <2>3. FieldsDone(t) = Encoded[o][m]
      BY <1>5, <2>1, DoneAtEnd
    <2>4. QED
      BY <2>2, <2>3 DEF FrameHolds
  <1>8. LET bytes == Encoded[CallObj(Calls)'][CallMsg(Calls)']
        IN  r = Len(bytes) /\ Holds(mem', CallStart(Calls)', bytes)
    <2>1. CallObj(Calls)' = o /\ CallMsg(Calls)' = m /\ CallStart(Calls)' = s
      BY <1>4, <1>6 DEF CallObj, CallMsg, CallStart
    <2>2. QED
      BY <1>7, <2>1
  <1>9. QED
    BY <1>2, <1>3, <1>8 DEF BytesInv

\* BytesInv holds at the start of a pass.
LEMMA BytesStart ==
    ASSUME NEW d \in Object, NEW buf, frames' = << Frame(d, RootMsg, buf) >>, ret' = << >>
    PROVE  BytesInv'
  <1>1. PICK fr : fr = Frame(d, RootMsg, buf)
    OBVIOUS
  <1>2. frames' = << fr >> /\ Len(frames') = 1 /\ frames'[1] = fr
    BY <1>1
  <1>3. /\ fr.i = 1 /\ fr.j = 0 /\ fr.len = 0 /\ fr.obj = d /\ fr.msg = RootMsg
    BY <1>1 DEF Frame
  <1>4. RootMsg \in Msg
    BY FieldAssumption DEF FieldAssumption
  <1>5. \A s : FrameHolds(fr, s)'
    <2>1. PICK o \in Object, m \in Msg : o = fr.obj /\ m = fr.msg
      BY <1>3, <1>4
    <2>2. FieldsBytes(Encoded, o, m)[0] = << >>
      BY EncodedDef, FieldsBytesFacts
    <2>3. FieldsDone(fr) = << >>
      BY <1>3, <2>1, <2>2 DEF FieldsDone
    <2>4. Len(<< >>) = 0 /\ \A q \in 1..0 : FALSE
      OBVIOUS
    <2>5. \A s : Holds(mem', s, << >>)
      BY <2>4 DEF Holds
    <2>6. QED
      BY <1>3, <2>3, <2>4, <2>5 DEF FrameHolds
  <1>6. QED
    BY <1>2, <1>5 DEF BytesInv

\* The numbers of the innermost call, in pass 1.
LEMMA TopPointers ==
    ASSUME WalkInv, SizeInv, pass = 1, frames # << >>, NEW n, n = Len(frames), NEW t, t = frames[n]
    PROVE  /\ CallStart(n) \in Nat /\ Len(mem) \in Nat
           /\ t.buf \in Nat /\ t.len \in Nat /\ t.fieldlen \in Nat
           /\ t.buf = CallStart(n) + t.len
           /\ t.j > 0 => /\ t.fieldbuf \in Nat /\ t.valuebuf \in Nat
                         /\ t.buf <= t.fieldbuf /\ t.valuebuf = t.fieldbuf + t.fieldlen
  <1>1. t \in FrameType /\ FrameWalks(t, ret # << >>)
    BY TopFacts
  <1>2. FrameFits(t, CallStart(n))
    BY TopSized
  <1>3. t.len \in Nat /\ t.fieldlen \in Nat /\ t.buf \in Nat
        /\ (t.j > 0 => t.fieldbuf \in Nat /\ t.valuebuf \in Nat)
    BY <1>1, FrameInts DEF FrameWalks
  <1>4. Len(mem) \in Nat
    BY SeqFacts DEF WalkInv
  <1>5. /\ CallStart(n) \in Nat /\ t.buf = CallStart(n) + t.len
        /\ t.j > 0 => t.valuebuf = t.fieldbuf + t.fieldlen
    BY <1>2 DEF FrameFits
  <1>6. t.j > 0 => t.buf <= t.fieldbuf
    <2>1. PICK b \in Nat, key \in {0, 10} : b = t.buf /\ key = IF Packed[FieldOf(t)] THEN 10 ELSE 0
      BY <1>3
    <2>2. t.j > 0 => t.fieldbuf = b + key
      BY <1>2, <2>1 DEF FrameFits, MSG_RESERVE_BYTES
    <2>3. QED
      BY <2>1, <2>2
  <1>7. QED
    BY <1>3, <1>4, <1>5, <1>6

\* What the innermost call has written is in the buffer.
LEMMA TopHolds ==
    ASSUME WalkInv, BytesInv, pass = 1, frames # << >>, NEW n, n = Len(frames), NEW t, t = frames[n]
    PROVE  FrameHolds(t, CallStart(n))
  <1>1. n \in Nat \ {0}
    BY TopFacts
  <1>2. n \in 1..Len(frames)
    BY <1>1
  <1>3. QED
    BY <1>2 DEF BytesInv

\* A value that is put behind those of its field is part of the field.
LEMMA BytesAddValue ==
    ASSUME WalkInv, SizeInv, BytesInv, pass = 1, AtValue, NEW n, NEW data, AddValue(n, data),
           NEW z, z = Len(frames), NEW t, t = frames[z], NEW f, f = FieldOf(t),
           NEW len \in Nat, len = AddedLen(f, n, packed),
           NEW bytes \in Seq(Cell), bytes = ItemBytes(Encoded, f, ItemOf(t)), Len(bytes) = len,
           NEW p \in Nat, p = t.valuebuf, Placed(mem, mem', p, bytes),
           dict' = dict, pass' = pass, ret' = << >>
    PROVE  BytesInv'
  <1>1. /\ frames # << >> /\ f = Field_
        /\ t \in FrameType
        /\ t.obj \in Object /\ t.msg \in Msg /\ t.i \in 1..Len(FieldOrder[t.msg])
        /\ f \in Field /\ f \in DOMAIN t.obj.of
        /\ Len(ValuesOf(t)) \in Nat /\ t.j \in 1..Len(ValuesOf(t))
    BY ValueOfFacts
  <1>2. t.i <= Len(FieldOrder[t.msg]) /\ t.i <= Len(FieldOrder[t.msg]) + 1 /\ t.j > 0 /\ t.j \in Nat
    BY <1>1, OrderFacts
  <1>3. PICK fr \in FrameType : SetTop(fr) /\ Added(fr, t, len)
    BY <1>1, AddStep
  <1>4. /\ fr.obj = t.obj /\ fr.msg = t.msg /\ fr.i = t.i /\ fr.j = t.j + 1
        /\ fr.len = t.len /\ fr.fieldbuf = t.fieldbuf /\ fr.fieldlen = t.fieldlen + len
    BY <1>3 DEF Added
  <1>5. PICK fd \in Seq(Cell), id \in Seq(Cell) : fd = FieldsDone(t) /\ id = ItemsDone(t)
    BY <1>1, <1>2, FieldsDoneType, DoneAtItem
  <1>6. FieldsDone(fr) = fd
    BY <1>4, <1>5 DEF FieldsDone
  <1>7. ItemsDone(fr) = id \o bytes
    <2>1. PICK all : all = ItemsBytes(Encoded, t.obj, f)
      OBVIOUS
    <2>2. all[t.j] = ItemsDone(t) \o ItemBytes(Encoded, f, ItemOf(t))
      BY <1>1, <1>2, <2>1, DoneAtItem
    <2>3. fr.j - 1 = t.j
      BY <1>2, <1>4
    <2>4. FieldOf(fr) = f
      BY <1>4 DEF FieldOf
    <2>5. ItemsDone(fr) = all[t.j]
      BY <1>4, <2>1, <2>3, <2>4 DEF ItemsDone
    <2>6. QED
      BY <1>5, <2>2, <2>5
  <1>9. PICK s \in Nat, b \in Nat, q \in Nat, l \in Nat, vl \in Nat :
           s = CallStart(z) /\ b = t.buf /\ q = t.fieldbuf /\ l = t.len /\ vl = t.fieldlen
    BY <1>1, <1>2, TopPointers
  <1>10. b = s + l /\ b <= q /\ p = q + vl
    <2>1. /\ t.buf = CallStart(z) + t.len
          /\ t.j > 0 => /\ t.fieldbuf \in Nat /\ t.valuebuf \in Nat
                        /\ t.buf <= t.fieldbuf /\ t.valuebuf = t.fieldbuf + t.fieldlen
      BY <1>1, TopPointers
    <2>2. t.buf <= t.fieldbuf /\ t.valuebuf = t.fieldbuf + t.fieldlen
      BY <1>2, <2>1
    <2>3. QED
      BY <1>9, <2>1, <2>2, Zenon
  <1>11. FrameHolds(t, s)
    BY <1>1, <1>9, TopHolds
  <1>12. /\ l = Len(fd) /\ Holds(mem, s, fd)
         /\ vl = Len(id) /\ Holds(mem, q, id)
    BY <1>2, <1>5, <1>9, <1>11 DEF FrameHolds
  <1>13. KeptTo(p) /\ (\A k \in 1..p : mem'[k] = mem[k]) /\ Holds(mem', p, bytes)
    BY DEF Placed, KeptTo
  <1>14. PICK r : r = mem'
    OBVIOUS
  <1>15. PICK m : m = mem
    OBVIOUS
  <1>16. Holds(r, s, fd)
    <2>1. s + l <= p /\ \A k \in 1..p : r[k] = m[k]
      BY <1>10, <1>13, <1>14, <1>15
    <2>2. Holds(m, s, fd)
      BY <1>12, <1>15
    <2>3. QED
      BY <1>12, <2>1, <2>2, HoldsKept
  <1>17. Holds(r, q, id)
    <2>1. q + vl <= p /\ \A k \in 1..p : r[k] = m[k]
      BY <1>10, <1>13, <1>14, <1>15
    <2>2. Holds(m, q, id)
      BY <1>12, <1>15
    <2>3. QED
      BY <1>12, <2>1, <2>2, HoldsKept
  <1>18. Holds(r, q, id \o bytes)
    <2>1. IsSeq(id) /\ IsSeq(bytes)
      BY SeqIsSeq
    <2>2. p = q + Len(id) /\ Holds(r, p, bytes)
      BY <1>10, <1>12, <1>13, <1>14
    <2>3. QED
      BY <1>17, <2>1, <2>2, HoldsJoin
  <1>19. fr.fieldlen = Len(id \o bytes)
    <2>1. Len(id \o bytes) = Len(id) + Len(bytes)
      BY CellConcat
    <2>2. QED
      BY <1>4, <1>9, <1>12, <2>1
  <1>20. FrameHolds(fr, s)'
    <2>1. fr.len = Len(FieldsDone(fr)) /\ Holds(mem', s, FieldsDone(fr))
      BY <1>4, <1>6, <1>9, <1>12, <1>14, <1>16
    <2>2. fr.fieldlen = Len(ItemsDone(fr)) /\ Holds(mem', fr.fieldbuf, ItemsDone(fr))
      BY <1>4, <1>7, <1>9, <1>14, <1>18, <1>19
    <2>3. QED
      BY <2>1, <2>2 DEF FrameHolds
  <1>21. t.buf <= p
    <2>1. PICK a \in Nat : a = p
      OBVIOUS
    <2>2. b <= a
      BY <1>10, <2>1
    <2>3. QED
      BY <1>9, <2>1, <2>2
  <1>22. QED
    BY <1>1, <1>3, <1>9, <1>13, <1>20, <1>21, BytesSet

\* A store into the buffer that is neither an overflow nor undefined.
LEMMA StoreWrites ==
    ASSUME status' = "encoding", NEW f, NEW n \in Nat, NEW data, NEW p \in Nat, NEW raw,
           Store(f, n, data, p, raw)
    PROVE  p + AddedLen(f, n, raw) <= Len(mem) /\ mem' = Written(f, n, data, p, raw)
  <1>1. p # NULL /\ n # SizeMax
    BY DEF NULL, SizeMax
  <1>2. QED
    BY <1>1 DEF Store

\* The bytes of an enclosed value.
LEMMA EnclosedLen ==
    ASSUME NEW f \in Field, Boxed(f), NEW bytes \in Seq(Cell), NEW n \in Nat, n = Len(bytes)
    PROVE  Len(Enclosed(f, bytes)) = AddedLen(f, n, FALSE)
  <1>1. PICK raw \in BOOLEAN : raw = FALSE
    OBVIOUS
  <1>2. PICK h : h = Header(f, n, raw)
    OBVIOUS
  <1>3. PICK a \in Nat : a = HeaderLen(f, n, raw)
    <2>1. PICK y : y = HeaderLen(f, n, FALSE)
      OBVIOUS
    <2>2. y \in 0..10
      BY <2>1, HeadFits
    <2>3. y = HeaderLen(f, n, raw)
      BY <1>1, <2>1, Zenon
    <2>4. y \in Nat
      BY <2>2
    <2>5. QED
      BY <2>3, <2>4
  <1>4. h \in Seq(Cell) /\ Len(h) = a
    BY <1>2, <1>3, HeaderFacts
  <1>5. BodyLen(f, n, FALSE) = n
    BY HeadFits
  <1>6. AddedLen(f, n, FALSE) = a + n
    BY <1>1, <1>3, <1>5 DEF AddedLen
  <1>7. Enclosed(f, bytes) = h \o bytes
    BY <1>1, <1>2 DEF Enclosed
  <1>8. Len(h \o bytes) = Len(h) + Len(bytes)
    BY <1>4, CellConcat
  <1>9. QED
    BY <1>4, <1>6, <1>7, <1>8

\* A scalar is written behind the values before it.
LEMMA BytesScalar ==
    ASSUME WalkInv, SizeInv, BytesInv, packed \in BOOLEAN, pass = 1, Scalar, status' = "encoding"
    PROVE  BytesInv'
  <1>1. PICK z, t, f : z = Len(frames) /\ t = frames[z] /\ f = FieldOf(t)
    OBVIOUS
  <1>2. AtValue /\ Typ[Field_] # "message"
    BY DEF Scalar
  <1>3. /\ frames # << >> /\ t = Top /\ f = Field_ /\ f \in Field
        /\ FrameWalks(t, ret # << >>) /\ t.j \in 1..Len(ValuesOf(t)) /\ Len(ValuesOf(t)) \in Nat
        /\ ItemOf(t) \in Object /\ ItemOf(t) = Values[Top.j]
    BY <1>1, <1>2, ValueOfFacts
  <1>4. PICK x \in Object : x = ItemOf(t)
    BY <1>3
  <1>5. x.kind = "number"
    BY <1>1, <1>2, <1>3, <1>4, ItemIsTyped DEF ItemTyped
  <1>6. PICK n \in Nat : n = x.n
    BY ObjectAssumption DEF ObjectAssumption
  <1>7. AddValue(n, NULL) /\ UNCHANGED <<ret, raised, dict, pass, packed, string>>
    BY <1>3, <1>4, <1>5, <1>6 DEF Scalar
  <1>8. ret' = << >>
    BY <1>1, <1>2, <1>3, <1>7 DEF FrameWalks
  <1>9. packed <=> Packed[f]
    <2>1. packed <=> t.j > 0 /\ Packed[FieldOf(t)]
      BY <1>1, <1>3, TopSized
    <2>2. t.j > 0
      BY <1>3
    <2>3. QED
      BY <1>1, <2>1, <2>2
  <1>10. PICK raw \in BOOLEAN : raw = packed /\ raw = Packed[f]
    <2>1. Packed[f] \in BOOLEAN
      BY <1>3, SubMsgFacts
    <2>2. packed = Packed[f]
      BY <1>9, <2>1
    <2>3. QED
      BY <2>2
  <1>11. PICK len \in Nat : len = AddedLen(f, n, raw)
    BY <1>3, AddedFacts
  <1>12. PICK bytes \in Seq(Cell) : bytes = ScalarBytes(f, n, raw) /\ Len(bytes) = len
    BY <1>3, <1>11, ScalarFacts
  <1>13. bytes = ItemBytes(Encoded, f, ItemOf(t))
    BY <1>2, <1>3, <1>4, <1>6, <1>10, <1>12, Zenon DEF ItemBytes
  <1>14. len = AddedLen(f, n, packed)
    BY <1>10, <1>11
  <1>15. PICK p \in Nat : p = t.valuebuf
    <2>1. t.j > 0
      BY <1>3
    <2>2. QED
      BY <1>1, <1>3, <2>1, TopPointers
  <1>16. Store(f, n, NULL, p, raw)
    <2>1. PICK data : data = NULL
      OBVIOUS
    <2>2. AddValue(n, data)
      BY <1>7, <2>1
    <2>3. Store(f, n, data, t.valuebuf, packed)
      BY <1>1, <1>2, <1>14, <2>2, AddStep
    <2>4. QED
      BY <1>10, <1>15, <2>1, <2>3
  <1>17. p + AddedLen(f, n, raw) <= Len(mem) /\ mem' = Written(f, n, NULL, p, raw)
    BY <1>16, StoreWrites
  <1>18. Placed(mem, mem', p, ScalarBytes(f, n, raw))
    <2>1. IsSeq(mem) /\ Typ[f] # "message"
      BY <1>2, <1>3 DEF WalkInv
    <2>2. QED
      BY <1>3, <1>10, <1>17, <2>1, PutScalar
  <1>19. Placed(mem, mem', p, bytes)
    BY <1>12, <1>18
  <1>20. dict' = dict /\ pass' = pass
    BY <1>7
  <1>21. QED
    BY <1>1, <1>2, <1>7, <1>8, <1>12, <1>13, <1>14, <1>15, <1>19, <1>20, BytesAddValue

\* The room of a nested message is inside the buffer.
LEMMA NestedRoom ==
    ASSUME WalkInv, SizeInv, pass = 1, AtValue, NEW z, z = Len(frames), NEW t, t = frames[z],
           NEW f, f = FieldOf(t), Typ[f] = "message", NEW v \in Nat, v = t.valuebuf,
           NEW c \in Nat, c = Len(mem), NEW room \in Nat, room = Room[ItemOf(t)][SubMsg[f]]
    PROVE  v + 10 + room <= c
  <1>1. /\ frames # << >> /\ t \in FrameType
        /\ t.obj \in Object /\ t.msg \in Msg /\ t.i \in 1..Len(FieldOrder[t.msg])
        /\ f \in Field /\ f \in DOMAIN t.obj.of /\ Len(ValuesOf(t)) \in Nat
        /\ t.j \in 1..Len(ValuesOf(t)) /\ ItemOf(t) \in Object
    BY ValueOfFacts
  <1>2. t.i <= Len(FieldOrder[t.msg]) /\ t.j > 0
    BY <1>1, OrderFacts
  <1>3. ~Packed[f] /\ Boxed(f)
    BY <1>1, SubMsgFacts DEF Boxed
  <1>4. PICK fl \in Nat, il \in Nat, all \in Nat, size \in Nat :
           fl = FieldsLeft(t) /\ il = ItemsLeft(t) /\ all = AllItems(t) /\ size = Room[t.obj][t.msg]
    BY <1>1, <1>2, RoomAtField, RoomAtItem
  <1>5. PICK s \in Nat, l \in Nat, vl \in Nat : s = CallStart(z) /\ l = t.len /\ vl = t.fieldlen
    BY <1>1, TopPointers
  <1>6. /\ s + size <= c /\ l <= fl /\ vl <= il
        /\ t.buf = s + l /\ t.fieldbuf = t.buf + 0 /\ t.valuebuf = t.fieldbuf + vl
    <2>1. FrameFits(t, CallStart(z))
      BY <1>1, TopSized
    <2>2. QED
      BY <1>2, <1>3, <1>4, <1>5, <2>1 DEF FrameFits
  <1>7. il + (10 + room) <= all
    <2>1. PICK item \in Nat : item = ItemRoom(Room, f, ItemOf(t))
      BY <1>1, <1>2, RoomAtItem
    <2>2. il + item <= all
      <3>1. PICK y : y = ItemsRoom(Room, t.obj, f)[t.j]
        OBVIOUS
      <3>2. y = ItemsLeft(t) + ItemRoom(Room, f, ItemOf(t)) /\ y <= AllItems(t)
        BY <1>1, <1>2, <3>1, RoomAtItem
      <3>3. QED
        BY <1>4, <2>1, <3>2
    <2>3. PICK r \in Nat : r = room
      OBVIOUS
    <2>4. PICK a \in Nat : a = AddedLen(f, r, FALSE)
      BY <1>1, AddedFacts
    <2>5. r <= a
      <3>1. r <= r
        OBVIOUS
      <3>2. QED
        BY <1>1, <1>3, <2>4, <3>1, BoxedGrows
    <2>6. item = 10 + a
      BY <2>1, <2>3, <2>4 DEF ItemRoom, MSG_RESERVE_BYTES
    <2>7. QED
      BY <2>2, <2>3, <2>5, <2>6, SMTT(20)
  <1>8. fl + 0 + all <= size
    <2>1. PICK key \in Nat : key = IF Packed[f] THEN 10 ELSE 0
      OBVIOUS
    <2>2. FieldsLeft(t) + key + AllItems(t) <= Room[t.obj][t.msg]
      BY <1>1, <1>2, <2>1, FieldInRoom
    <2>3. key = 0
      BY <1>3, <2>1
    <2>4. QED
      BY <1>4, <2>2, <2>3
  <1>9. PICK r \in Nat : r = room
    OBVIOUS
  <1>10. v = s + l + vl
    BY <1>6
  <1>11. PICK w \in Nat : w = c
    OBVIOUS
  <1>12. s + size <= w /\ l <= fl /\ vl <= il /\ il + (10 + r) <= all /\ fl + all <= size
    <2>1. s + size <= w /\ l <= fl /\ vl <= il
      BY <1>6, <1>11
    <2>2. il + (10 + r) <= all
      BY <1>7, <1>9
    <2>3. fl + all <= size
      BY <1>8
    <2>4. QED
      BY <2>1, <2>2, <2>3
  <1>13. s + l + vl + 10 + r <= w
    BY <1>12
  <1>14. QED
    BY <1>9, <1>10, <1>11, <1>13

\* A nested message, written behind the free room, is moved down behind its key
\* and length: it is inside the buffer, and no byte of it is lost.
LEMMA BytesEndNested ==
    ASSUME WalkInv, SizeInv, BytesInv, packed \in BOOLEAN, pass = 1, EndNested, status' = "encoding"
    PROVE  BytesInv'
  <1>1. PICK z, t, f : z = Len(frames) /\ t = frames[z] /\ f = FieldOf(t)
    OBVIOUS
  <1>2. AtValue /\ Typ[Field_] = "message" /\ ret # << >>
    BY DEF EndNested
  <1>3. /\ frames # << >> /\ t = Top /\ f = Field_ /\ f \in Field
        /\ t.j \in 1..Len(ValuesOf(t)) /\ Len(ValuesOf(t)) \in Nat
        /\ ItemOf(t) \in Object
    BY <1>1, <1>2, ValueOfFacts
  <1>4. PICK x \in Object, m \in Msg : x = ItemOf(t) /\ m = SubMsg[f]
    BY <1>2, <1>3, SubMsgFacts
  <1>5. PICK room \in Nat : room = Room[x][m]
    BY RoomDef
  <1>6. Calls = z + 1 /\ z \in Nat \ {0}
    BY <1>1, <1>2, <1>3, TopFacts
  <1>7. CallObj(Calls) = x /\ CallMsg(Calls) = m /\ CallStart(Calls) = t.valuebuf + MSG_RESERVE_BYTES
    BY <1>1, <1>4, <1>6 DEF CallObj, CallMsg, CallStart
  <1>8. PICK n \in Nat : n = ret[1] /\ n <= room
    BY <1>2, <1>5, <1>7 DEF SizeInv
  <1>9. PICK inner \in Seq(Cell) : inner = Encoded[x][m]
    BY EncodedDef
  <1>10. n = Len(inner) /\ Holds(mem, t.valuebuf + MSG_RESERVE_BYTES, inner)
    BY <1>2, <1>7, <1>8, <1>9 DEF BytesInv
  <1>11. Boxed(f) /\ ~Packed[f]
    BY <1>2, <1>3, SubMsgFacts DEF Boxed
  <1>12. packed = FALSE
    <2>1. packed <=> t.j > 0 /\ Packed[FieldOf(t)]
      BY <1>1, <1>3, TopSized
    <2>2. QED
      BY <1>1, <1>11, <2>1
  <1>13. PICK p \in Nat, c \in Nat : p = t.valuebuf /\ c = Len(mem)
    <2>1. t.j > 0
      BY <1>3
    <2>2. QED
      BY <1>1, <1>3, <2>1, TopPointers
  <1>14. p + 10 + room <= c
    BY <1>1, <1>2, <1>3, <1>4, <1>5, <1>13, NestedRoom
  <1>15. PICK data \in Nat : data = p + 10
    OBVIOUS
  <1>16. data + n <= c
    BY <1>8, <1>14, <1>15
  <1>17. Holds(mem, data, inner)
    BY <1>10, <1>13, <1>15 DEF MSG_RESERVE_BYTES
  <1>18. PICK len \in Nat : len = AddedLen(f, n, FALSE)
    BY <1>3, AddedFacts
  <1>19. AddValue(n, data) /\ dict' = dict /\ pass' = pass /\ ret' = << >>
    <2>1. Plus(p, 10) = p + 10
      BY PlusFacts
    <2>2. Plus(Top.valuebuf, MSG_RESERVE_BYTES) = data
      BY <1>3, <1>13, <1>15, <2>1 DEF MSG_RESERVE_BYTES
    <2>3. QED
      BY <1>8, <2>2 DEF EndNested
  <1>20. len = AddedLen(f, n, packed)
    BY <1>12, <1>18
  <1>21. Store(f, n, data, p, FALSE)
    <2>1. Store(f, n, data, t.valuebuf, packed)
      BY <1>1, <1>2, <1>19, <1>20, AddStep
    <2>2. QED
      BY <1>12, <1>13, <2>1
  <1>22. mem' = Written(f, n, data, p, FALSE)
    BY <1>21, StoreWrites
  <1>23. PICK bytes : bytes = Enclosed(f, inner)
    OBVIOUS
  <1>24. Placed(mem, mem', p, bytes)
    <2>1. IsSeq(mem)
      BY DEF WalkInv
    <2>2. QED
      BY <1>3, <1>10, <1>11, <1>13, <1>15, <1>16, <1>17, <1>22, <1>23, <2>1, EnclosedPlaced
  <1>25. bytes \in Seq(Cell) /\ Len(bytes) = len
    BY <1>3, <1>10, <1>11, <1>18, <1>23, EnclosedFacts, EnclosedLen
  <1>26. bytes = ItemBytes(Encoded, f, ItemOf(t))
    BY <1>2, <1>3, <1>4, <1>9, <1>23 DEF ItemBytes
  <1>27. QED
    BY <1>1, <1>2, <1>13, <1>19, <1>20, <1>24, <1>25, <1>26, BytesAddValue

\* A nested message is written where nothing has been written before.
LEMMA BytesStartNested ==
    ASSUME WalkInv, BytesInv, pass = 1, StartNested
    PROVE  BytesInv'
  <1>1. PICK z, t, f : z = Len(frames) /\ t = frames[z] /\ f = FieldOf(t)
    OBVIOUS
  <1>2. AtValue /\ frames # << >>
    BY DEF StartNested, AtValue
  <1>3. PICK x, m, p : x = ItemOf(t) /\ m = SubMsg[f] /\ p = Plus(t.valuebuf, MSG_RESERVE_BYTES)
    OBVIOUS
  <1>4. PICK fr \in FrameType, new \in FrameType :
           /\ frames' = Append([frames EXCEPT ![Len(frames)] = fr], new)
           /\ Waiting(fr, t) /\ new = Frame(x, m, p)
    BY <1>1, <1>3, NestStep
  <1>5. new.i = 1 /\ new.j = 0 /\ new.len = 0
    BY <1>4 DEF Frame
  <1>6. dict' = dict /\ pass' = pass /\ ret' = << >> /\ mem' = mem
    BY DEF StartNested
  <1>7. QED
    BY <1>1, <1>2, <1>4, <1>5, <1>6, BytesPush

\* The bytes of a message are those of its fields.
LEMMA BytesEndMessage ==
    ASSUME WalkInv, SizeInv, BytesInv, pass = 1, EndMessage
    PROVE  BytesInv'
  <1>1. PICK z, t : z = Len(frames) /\ t = frames[z]
    OBVIOUS
  <1>2. Between /\ Top.i > Len(FieldOrder[Top.msg])
    BY DEF EndMessage
  <1>3. /\ frames # << >> /\ t = Top /\ FrameWalks(t, FALSE)
        /\ t.i \in Nat \ {0} /\ Len(FieldOrder[t.msg]) \in Nat
    BY <1>1, <1>2, BetweenFacts
  <1>4. t.i = Len(FieldOrder[t.msg]) + 1
    BY <1>2, <1>3 DEF FrameWalks
  <1>5. t.buf \in Nat /\ t.len \in Nat
    BY <1>1, <1>3, TopPointers
  <1>6. PICK r \in Nat : r = t.len
    BY <1>5
  <1>7. EncodedLen(t) = r
    BY <1>5, <1>6 DEF EncodedLen, NULL
  <1>8. ReturnWith(r) /\ dict' = dict /\ pass' = pass /\ mem' = mem
    BY <1>3, <1>7 DEF EndMessage
  <1>9. QED
    BY <1>1, <1>3, <1>4, <1>6, <1>8, BytesPop

\* FieldsDone of a call that has gone on to the next field.
LEMMA DoneNext ==
    ASSUME NEW t \in FrameType, t.i <= Len(FieldOrder[t.msg]), NEW fr, fr.obj = t.obj,
           fr.msg = t.msg, fr.i = t.i + 1
    PROVE  FieldsDone(fr) = FieldsDone(t) \o FieldBytes(Encoded, t.obj, FieldOf(t))
  <1>1. PICK all : all = FieldsBytes(Encoded, t.obj, t.msg)
    OBVIOUS
  <1>2. all[t.i] = FieldsDone(t) \o FieldBytes(Encoded, t.obj, FieldOf(t))
    BY <1>1, DoneAtField
  <1>3. fr.i - 1 = t.i
    BY FrameInts
  <1>4. FieldsDone(fr) = all[t.i]
    BY <1>1, <1>3 DEF FieldsDone
  <1>5. QED
    BY <1>2, <1>4

LEMMA BytesAbsentField ==
    ASSUME WalkInv, SizeInv, BytesInv, pass = 1, AbsentField
    PROVE  BytesInv'
  <1>1. PICK z, t : z = Len(frames) /\ t = frames[z]
    OBVIOUS
  <1>2. Between /\ HasField /\ Field_ \notin DOMAIN Top.obj.of
    BY DEF AbsentField, HasField
  <1>3. /\ frames # << >> /\ t = Top /\ t.j = 0 /\ ret = << >>
        /\ t \in FrameType /\ FrameWalks(t, FALSE) /\ FieldOf(t) = Field_
        /\ t.obj \in Object /\ t.msg \in Msg /\ t.i \in Nat \ {0} /\ Len(FieldOrder[t.msg]) \in Nat
    BY <1>1, <1>2, BetweenFacts
  <1>4. PICK fr \in FrameType : SetTop(fr) /\ Skipped(fr, t)
    BY <1>1, SkipStep
  <1>5. fr.obj = t.obj /\ fr.msg = t.msg /\ fr.i = t.i + 1 /\ fr.j = 0 /\ fr.len = t.len
    BY <1>4 DEF Skipped
  <1>6. t.i <= Len(FieldOrder[t.msg])
    BY <1>2, <1>3 DEF HasField
  <1>7. FieldsDone(fr) = FieldsDone(t)
    <2>1. PICK fd : fd = FieldsDone(t)
      OBVIOUS
    <2>2. fd \in Seq(Cell)
      BY <1>3, <1>6, <2>1, DoneAtField
    <2>3. FieldBytes(Encoded, t.obj, FieldOf(t)) = << >>
      BY <1>2, <1>3 DEF FieldBytes
    <2>4. FieldsDone(fr) = fd \o << >>
      BY <1>3, <1>5, <1>6, <2>1, <2>3, DoneNext
    <2>5. IsSeq(fd)
      BY <2>2, SeqIsSeq
    <2>6. fd \o << >> = fd
      BY <2>5, NoBytes
    <2>7. QED
      BY <2>1, <2>4, <2>6
  <1>8. PICK b \in Nat : b = t.buf
    BY <1>1, <1>3, TopPointers
  <1>9. PICK st : st = CallStart(z)
    OBVIOUS
  <1>10. FrameHolds(t, st)
    BY <1>1, <1>3, <1>9, TopHolds
  <1>11. dict' = dict /\ pass' = pass /\ ret' = << >> /\ mem' = mem
    BY <1>3 DEF AbsentField
  <1>12. FrameHolds(fr, st)
    BY <1>5, <1>7, <1>10 DEF FrameHolds
  <1>13. FrameHolds(fr, st)'
    BY <1>11, <1>12 DEF FrameHolds
  <1>14. KeptTo(b) /\ t.buf <= b
    BY <1>8, <1>11 DEF KeptTo
  <1>15. QED
    BY <1>1, <1>3, <1>4, <1>9, <1>11, <1>13, <1>14, BytesSet

LEMMA BytesStartField ==
    ASSUME WalkInv, SizeInv, BytesInv, pass = 1, StartField, status' = "encoding"
    PROVE  BytesInv'
  <1>1. PICK z, t, f : z = Len(frames) /\ t = frames[z] /\ f = FieldOf(t)
    OBVIOUS
  <1>2. Between /\ HasField
    BY DEF StartField, HasField
  <1>3. /\ frames # << >> /\ t = Top /\ t.j = 0 /\ ret = << >>
        /\ t \in FrameType /\ FieldOf(t) = Field_
        /\ t.obj \in Object /\ t.msg \in Msg /\ t.i \in Nat \ {0} /\ Len(FieldOrder[t.msg]) \in Nat
    BY <1>1, <1>2, BetweenFacts
  <1>4. t.i <= Len(FieldOrder[t.msg])
    BY <1>2, <1>3 DEF HasField
  <1>5. f \in DOMAIN t.obj.of
    BY <1>1, StartStep
  <1>6. f \in Field
    BY <1>1, <1>3, <1>4, FieldFacts
  <1>7. PICK fr \in FrameType : SetTop(fr) /\ Started(fr, t, IF Packed[f] THEN MSG_RESERVE_BYTES ELSE 0)
    BY <1>1, StartStep
  <1>8. fr.obj = t.obj /\ fr.msg = t.msg /\ fr.i = t.i /\ fr.j = 1 /\ fr.len = t.len /\ fr.fieldlen = 0
    BY <1>7 DEF Started
  <1>9. FieldsDone(fr) = FieldsDone(t)
    BY <1>8 DEF FieldsDone
  <1>10. ItemsDone(fr) = << >>
    <2>1. ItemsBytes(Encoded, t.obj, f)[0] = << >>
      <3>1. PICK o \in Object : o = t.obj /\ f \in DOMAIN o.of
        BY <1>3, <1>5
      <3>2. Encoded \in [Object -> [Msg -> Seq(Cell)]]
        BY EncodedDef
      <3>3. ItemsBytes(Encoded, o, f)[0] = << >>
        BY Zenon, <1>6, <3>1, <3>2, ItemsBytesFacts
      <3>4. QED
        BY <3>1, <3>3
    <2>2. FieldOf(fr) = f /\ fr.j - 1 = 0
      BY <1>1, <1>8 DEF FieldOf
    <2>3. QED
      BY <1>8, <2>1, <2>2 DEF ItemsDone
  <1>11. PICK b \in Nat : b = t.buf
    BY <1>1, <1>3, TopPointers
  <1>12. PICK st : st = CallStart(z)
    OBVIOUS
  <1>13. FrameHolds(t, st)
    BY <1>1, <1>3, <1>12, TopHolds
  <1>14. dict' = dict /\ pass' = pass /\ ret' = << >> /\ mem' = mem
    BY <1>3 DEF StartField
  <1>15. Len(<< >>) = 0 /\ Holds(mem, fr.fieldbuf, << >>)
    BY DEF Holds
  <1>16. FrameHolds(fr, st)
    BY <1>8, <1>9, <1>10, <1>13, <1>15 DEF FrameHolds
  <1>17. FrameHolds(fr, st)'
    BY <1>14, <1>16 DEF FrameHolds
  <1>18. KeptTo(b) /\ t.buf <= b
    BY <1>11, <1>14 DEF KeptTo
  <1>19. QED
    BY <1>1, <1>3, <1>7, <1>12, <1>14, <1>17, <1>18, BytesSet

\* The bytes of a field are those of its values, enclosed if it is packed.
LEMMA BytesEndField ==
    ASSUME WalkInv, SizeInv, BytesInv, pass = 1, EndField, status' = "encoding"
    PROVE  BytesInv'
  <1>1. PICK z, t, f : z = Len(frames) /\ t = frames[z] /\ f = FieldOf(t)
    OBVIOUS
  <1>2. /\ frames # << >> /\ ret = << >>
        /\ t \in FrameType /\ t.obj \in Object /\ t.msg \in Msg
        /\ t.i \in 1..Len(FieldOrder[t.msg]) /\ Len(FieldOrder[t.msg]) \in Nat
        /\ f \in Field /\ f \in DOMAIN t.obj.of
        /\ Len(ValuesOf(t)) \in Nat /\ t.j = Len(ValuesOf(t)) + 1
        /\ EndLen(t, f) \in Nat
    BY <1>1, EndFieldFacts
  <1>3. t.i <= Len(FieldOrder[t.msg]) /\ t.j > 0 /\ t.i <= Len(FieldOrder[t.msg]) + 1
        /\ t.j <= Len(ValuesOf(t)) + 1
    BY <1>2
  <1>4. PICK len \in Nat : len = EndLen(t, f)
    BY <1>2
  <1>5. IF Packed[f] THEN Store(f, t.fieldlen, t.fieldbuf, t.buf, FALSE) /\ packed' = FALSE
                     ELSE UNCHANGED <<mem, status, packed>>
    BY <1>1, <1>4, EndStep
  <1>6. PICK fr \in FrameType : SetTop(fr) /\ FieldEnded(fr, t, len)
    BY <1>1, <1>4, EndStep
  <1>7. /\ fr.obj = t.obj /\ fr.msg = t.msg /\ fr.i = t.i + 1 /\ fr.j = 0 /\ fr.len = t.len + len
    BY <1>6 DEF FieldEnded
  <1>8. PICK fd \in Seq(Cell), id \in Seq(Cell) : fd = FieldsDone(t) /\ id = ItemsDone(t)
    BY <1>1, <1>2, <1>3, FieldsDoneType, ItemsDoneType
  <1>9. PICK s \in Nat, c \in Nat, b \in Nat, q \in Nat, l \in Nat, vl \in Nat :
           /\ s = CallStart(z) /\ c = Len(mem) /\ b = t.buf /\ q = t.fieldbuf
           /\ l = t.len /\ vl = t.fieldlen
    BY <1>1, <1>2, <1>3, TopPointers
  <1>10. FrameHolds(t, s)
    BY <1>1, <1>2, <1>9, TopHolds
  <1>11. /\ l = Len(fd) /\ Holds(mem, s, fd)
         /\ vl = Len(id) /\ Holds(mem, q, id)
    BY <1>3, <1>8, <1>9, <1>10 DEF FrameHolds
  <1>12. FrameFits(t, s)
    BY <1>1, <1>2, <1>9, TopSized
  <1>13. b = s + l
    BY <1>9, <1>12 DEF FrameFits
  <1>14. PICK seq \in Seq(Cell) : seq = FieldBytes(Encoded, t.obj, f)
    BY <1>2, EncodedDef, FieldBytesType
  <1>15. seq = IF Packed[f] THEN Enclosed(f, id) ELSE id
    BY <1>1, <1>2, <1>3, <1>8, <1>14, DoneAtLast
  <1>16. FieldsDone(fr) = fd \o seq
    BY <1>1, <1>2, <1>3, <1>7, <1>8, <1>14, DoneNext
  <1>17. len = Len(seq) /\ Placed(mem, mem', b, seq)
    <2>1. CASE Packed[f]
      <3>1. Boxed(f)
        BY <2>1 DEF Boxed
      <3>2. len = AddedLen(f, vl, FALSE)
        BY <1>4, <1>9, <2>1 DEF EndLen
      <3>3. seq = Enclosed(f, id)
        BY <1>15, <2>1
      <3>4. Len(Enclosed(f, id)) = AddedLen(f, vl, FALSE)
        BY <1>2, <1>11, <3>1, EnclosedLen
      <3>5. q = b + 10
        BY <1>1, <1>3, <1>9, <1>12, <2>1 DEF FrameFits, MSG_RESERVE_BYTES
      <3>6. q + vl <= c
        <4>1. PICK fl \in Nat, all \in Nat, size \in Nat :
                 fl = FieldsLeft(t) /\ all = AllItems(t) /\ size = Room[t.obj][t.msg]
          BY <1>1, <1>2, <1>3, RoomAtField
        <4>2. PICK key \in Nat : key = IF Packed[f] THEN 10 ELSE 0
          OBVIOUS
        <4>3. FieldsLeft(t) + key + AllItems(t) <= Room[t.obj][t.msg]
          BY <1>1, <1>2, <1>3, <4>2, FieldInRoom
        <4>4. fl + 10 + all <= size
          BY <2>1, <4>1, <4>2, <4>3
        <4>5. PICK il \in Nat : il = ItemsLeft(t) /\ il <= all
          BY <1>1, <1>2, <1>3, <4>1, ItemsLeftFacts
        <4>6. s + size <= c /\ l <= fl /\ vl <= il
          BY <1>3, <1>9, <1>12, <4>1, <4>5 DEF FrameFits
        <4>7. QED
          BY <1>13, <3>5, <4>4, <4>5, <4>6
      <3>7. Store(f, vl, q, b, FALSE)
        BY <1>5, <1>9, <2>1
      <3>8. mem' = Written(f, vl, q, b, FALSE)
        BY <3>7, StoreWrites
      <3>9. IsSeq(mem)
        BY DEF WalkInv
      <3>10. Placed(mem, mem', b, Enclosed(f, id))
        BY <1>2, <1>9, <1>11, <3>1, <3>5, <3>6, <3>8, <3>9, EnclosedPlaced
      <3>11. QED
        BY <3>2, <3>3, <3>4, <3>10
    <2>2. CASE ~Packed[f]
      <3>1. len = vl /\ seq = id /\ mem' = mem
        BY <1>4, <1>5, <1>9, <1>15, <2>2 DEF EndLen
      <3>2. q = b
        BY <1>1, <1>3, <1>9, <1>12, <2>2 DEF FrameFits
      <3>3. QED
        BY <1>11, <3>1, <3>2 DEF Placed
    <2>3. QED
      BY <2>1, <2>2
  <1>18. KeptTo(b) /\ (\A k \in 1..b : mem'[k] = mem[k]) /\ Holds(mem', b, seq)
    BY <1>17 DEF Placed, KeptTo
  <1>19. PICK r : r = mem'
    OBVIOUS
  <1>20. PICK m : m = mem
    OBVIOUS
  <1>21. Holds(r, s, fd)
    <2>1. s + l <= b /\ \A k \in 1..b : r[k] = m[k]
      BY <1>13, <1>18, <1>19, <1>20
    <2>2. Holds(m, s, fd)
      BY <1>11, <1>20
    <2>3. QED
      BY <1>11, <2>1, <2>2, HoldsKept
  <1>22. Holds(r, s, fd \o seq)
    <2>1. IsSeq(fd) /\ IsSeq(seq)
      BY SeqIsSeq
    <2>2. b = s + Len(fd) /\ Holds(r, b, seq)
      BY <1>11, <1>13, <1>18, <1>19
    <2>3. QED
      BY <1>21, <2>1, <2>2, HoldsJoin
  <1>23. fr.len = Len(fd \o seq)
    <2>1. Len(fd \o seq) = Len(fd) + Len(seq)
      BY CellConcat
    <2>2. QED
      BY <1>7, <1>9, <1>11, <1>17, <2>1
  <1>24. FrameHolds(fr, s)'
    <2>1. fr.len = Len(FieldsDone(fr)) /\ Holds(mem', s, FieldsDone(fr))
      BY <1>16, <1>19, <1>22, <1>23
    <2>2. QED
      BY <1>7, <2>1 DEF FrameHolds
  <1>25. dict' = dict /\ pass' = pass /\ ret' = << >>
    BY <1>2 DEF EndField
  <1>26. t.buf <= b
    BY <1>9
  <1>27. QED
    BY <1>1, <1>2, <1>6, <1>9, <1>18, <1>24, <1>25, <1>26, BytesSet

\* Every step keeps BytesInv.
LEMMA BytesNext ==
    ASSUME WalkInv, packed \in BOOLEAN, WellTyped[dict][RootMsg], SizeInv, BytesInv,
           EncoderStep, status' = "encoding"
    PROVE  BytesInv'
  <1>1. CASE EndPass0
    <2>1. /\ frames' = << Frame(dict, RootMsg, 0) >> /\ ret' = << >>
      BY <1>1 DEF EndPass0
    <2>2. dict \in Object
      BY DEF WalkInv
    <2>3. PICK buf : buf = 0
      OBVIOUS
    <2>4. QED
      BY <2>1, <2>2, <2>3, BytesStart
  <1>2. CASE EndPass1
    BY <1>2 DEF EndPass1
  <1>3. CASE pass # 1 /\ ~EndPass0 /\ ~EndPass1
    <2>1. pass' = pass
      BY <1>3 DEF EncoderStep, NotADict, AbsentField, StartField, StartNested, EndNested, Scalar,
                  EndField, EndMessage
    <2>2. QED
      BY <1>3, <2>1 DEF BytesInv
  <1>4. CASE pass = 1 /\ ~EndPass0 /\ ~EndPass1
    <2>1. CASE NotADict
      <3>1. PICK z, t : z = Len(frames) /\ t = frames[z]
        OBVIOUS
      <3>2. Between /\ Top.obj.kind # "dict"
        BY <2>1 DEF NotADict
      <3>3. frames # << >> /\ t = Top /\ t.obj \in Object /\ t.msg \in Msg
        BY <3>1, <3>2, BetweenFacts
      <3>4. WellTyped[t.obj][t.msg]
        BY <3>1, <3>3, TopSized
      <3>5. t.obj.kind = "dict"
        BY <3>3, <3>4, TypedDef
      <3>6. QED
        BY <3>2, <3>3, <3>5
    <2>2. CASE AbsentField
      BY <1>4, <2>2, BytesAbsentField
    <2>3. CASE StartField
      BY <1>4, <2>3, BytesStartField
    <2>4. CASE StartNested
      BY <1>4, <2>4, BytesStartNested
    <2>5. CASE EndNested
      BY <1>4, <2>5, BytesEndNested
    <2>6. CASE Scalar
      BY <1>4, <2>6, BytesScalar
    <2>7. CASE EndField
      BY <1>4, <2>7, BytesEndField
    <2>8. CASE EndMessage
      BY <1>4, <2>8, BytesEndMessage
    <2>9. QED
      BY <1>4, <2>1, <2>2, <2>3, <2>4, <2>5, <2>6, <2>7, <2>8 DEF EncoderStep
  <1>5. QED
    BY <1>1, <1>2, <1>3, <1>4

-----------------------------------------------------------------------------
(* What encode returns.                                                    *)

\* Pass 1 of a record with a value of a wrong type does not come to its end.
LEMMA EndTyped ==
    ASSUME WalkInv, TypesInv, EndPass1
    PROVE  /\ ret[1] \in Nat /\ WellTyped[dict][RootMsg]
           /\ pass = 1 /\ frames = << >> /\ ret # << >>
  <1>1. frames = << >> /\ pass = 1
    BY DEF EndPass1
  <1>2. /\ Calls = 1 /\ ret # << >> /\ ret[1] \in Nat \cup {SizeMax}
        /\ CallObj(Calls) = dict /\ CallMsg(Calls) = RootMsg
    BY <1>1, LastReturn
  <1>3. IF ret[1] = SizeMax THEN frames # << >> ELSE WellTyped[CallObj(Calls)][CallMsg(Calls)]
    BY <1>1, <1>2 DEF TypesInv
  <1>4. QED
    BY <1>1, <1>2, <1>3

\* The string that is returned is the encoding of the record.
LEMMA EndReturns ==
    ASSUME WalkInv, TypesInv, WellTyped[dict][RootMsg] => SizeInv /\ BytesInv, EndPass1
    PROVE  StringIsBytes' /\ EncodesRecord'
  <1>1. /\ ret[1] \in Nat /\ WellTyped[dict][RootMsg]
        /\ pass = 1 /\ frames = << >> /\ ret # << >>
    BY EndTyped
  <1>2. SizeInv /\ BytesInv
    BY <1>1
  <1>3. PICK d \in Object, m \in Msg : d = dict /\ m = RootMsg
    BY FieldAssumption DEF WalkInv, FieldAssumption
  <1>4. Calls = 1 /\ CallObj(Calls) = d /\ CallMsg(Calls) = m
    BY <1>1, <1>3, LastReturn
  <1>5. PICK n \in Nat, room \in Nat, bytes \in Seq(Cell) :
           n = ret[1] /\ room = Room[d][m] /\ bytes = Encoded[d][m]
    BY <1>1, RoomDef, EncodedDef
  <1>6. n <= room /\ Len(mem) = room
    BY <1>1, <1>2, <1>3, <1>4, <1>5 DEF SizeInv
  <1>7. n = Len(bytes) /\ Holds(mem, CallStart(Calls), bytes)
    BY <1>1, <1>2, <1>4, <1>5 DEF BytesInv
  <1>8. CallStart(Calls) = 0
    BY <1>4 DEF CallStart
  <1>9. PICK buf : buf = mem
    OBVIOUS
  <1>10. IsSeq(buf) /\ n \in 0..Len(buf) /\ \A i \in 1..n : buf[0 + i] = bytes[i]
    BY <1>6, <1>7, <1>8, <1>9 DEF WalkInv, Holds
  <1>11. PICK raw : raw = SubSeq(buf, 1, n)
    OBVIOUS
  <1>12. IsSeq(raw) /\ Len(raw) = n /\ \A i \in 1..n : raw[i] = bytes[i]
    <2>1. 1 \in Nat \ {0}
      OBVIOUS
    <2>2. /\ IsSeq(SubSeq(buf, 1, n))
          /\ Len(SubSeq(buf, 1, n)) = IF 1 <= n THEN n - 1 + 1 ELSE 0
          /\ \A i \in 1..(n - 1 + 1) : SubSeq(buf, 1, n)[i] = buf[1 + i - 1]
      BY <1>10, <2>1, PartFacts
    <2>3. Len(raw) = n
      BY <1>11, <2>2
    <2>4. ASSUME NEW i \in 1..n PROVE raw[i] = bytes[i]
      <3>1. i \in 1..(n - 1 + 1) /\ 1 + i - 1 = i /\ 0 + i = i
        OBVIOUS
      <3>2. raw[i] = buf[i] /\ buf[i] = bytes[i]
        BY <1>10, <1>11, <2>2, <3>1
      <3>3. QED
        BY <3>2
    <2>5. QED
      BY <1>11, <2>2, <2>3, <2>4
  <1>13. IsSeq(bytes)
    BY SeqIsSeq
  <1>14. raw = bytes
    BY <1>7, <1>12, <1>13, SameSeq
  <1>15. string' = << raw >> /\ dict' = dict
    BY <1>5, <1>9, <1>11 DEF EndPass1
  <1>16. DOMAIN string' = {1} /\ string'[1] = raw
    BY <1>15
  <1>17. StringIsBytes'
    BY <1>12, <1>16 DEF StringIsBytes
  <1>18. string'[1] = Encoded[dict'][RootMsg] /\ WellTyped[dict'][RootMsg]
    BY <1>1, <1>3, <1>5, <1>14, <1>15, <1>16
  <1>19. QED
    BY <1>17, <1>18 DEF EncodesRecord

\* A step of pyobject_encode or of Encoder_encode returns at most one string.
LEMMA EncoderStatus ==
    ASSUME EncoderStep
    PROVE  /\ status = "encoding"
           /\ status' \in {"encoding", "encoded", "undefined", "overflow", "aborted"}
           /\ string' = string \/ string' = << string'[1] >>
  <1>1. \A f, n, data, p, raw : Store(f, n, data, p, raw) =>
           status' \in {status, "undefined", "overflow"}
    BY DEF Store
  <1>2. \A n, data : AddValue(n, data) => status' \in {status, "undefined", "overflow"}
    BY <1>1 DEF AddValue
  <1>3. CASE NotADict \/ AbsentField \/ StartNested \/ EndMessage
    BY <1>3 DEF NotADict, AbsentField, HasField, StartNested, EndMessage, Between, AtValue
  <1>4. CASE StartField
    BY <1>4 DEF StartField, HasField, Between
  <1>5. CASE EndNested
    <2>1. status' \in {status, "undefined", "overflow"}
      BY <1>2, <1>5 DEF EndNested
    <2>2. QED
      BY <1>5, <2>1 DEF EndNested, AtValue
  <1>6. CASE Scalar
    <2>1. status' \in {status, "undefined", "overflow"}
      BY <1>2, <1>6 DEF Scalar
    <2>2. QED
      BY <1>6, <2>1 DEF Scalar, AtValue
  <1>7. CASE EndField
    <2>1. status' \in {status, "undefined", "overflow"}
      BY <1>1, <1>7 DEF EndField
    <2>2. QED
      BY <1>7, <2>1 DEF EndField
  <1>8. CASE EndPass0
    BY <1>8 DEF EndPass0
  <1>9. CASE EndPass1
    BY <1>9 DEF EndPass1
  <1>10. QED
    BY <1>3, <1>4, <1>5, <1>6, <1>7, <1>8, <1>9 DEF EncoderStep

\* ret is a list of none or one.
LEMMA ReturnsOne ==
    ASSUME Len(ret) <= 1, EncoderStep
    PROVE  Len(ret') <= 1
  <1>1. \A n : ReturnWith(n) => Len(ret') = 1
    BY DEF ReturnWith
  <1>2. Len(<< >>) = 0
    OBVIOUS
  <1>3. ret' = ret \/ ret' = << >> \/ \E n : ReturnWith(n)
    BY DEF EncoderStep, NotADict, AbsentField, StartField, StartNested, EndNested, Scalar,
           EndField, EndMessage, EndPass0, EndPass1
  <1>4. CASE ret' = ret
    <2>1. Len(ret') = Len(ret)
      BY <1>4, Zenon
    <2>2. QED
      BY <2>1
  <1>5. CASE ret' = << >>
    <2>1. Len(ret') = 0
      BY <1>2, <1>5, Zenon
    <2>2. QED
      BY <2>1
  <1>6. CASE \E n : ReturnWith(n)
    <2>1. Len(ret') = 1
      BY <1>1, <1>6
    <2>2. QED
      BY <2>1
  <1>7. QED
    BY <1>3, <1>4, <1>5, <1>6

LEMMA EncoderInitInv == EncoderInit => EncoderInv
  <1> SUFFICES ASSUME EncoderInit PROVE EncoderInv
    OBVIOUS
  <1>1. status = "idle" /\ dict = Other /\ packed = FALSE /\ raised = FALSE /\ string = << >>
    BY DEF EncoderInit
  <1>2. dict \in Object
    BY <1>1, ObjectAssumption DEF ObjectAssumption
  <1>3. DOMAIN << >> = {}
    OBVIOUS
  <1>4. StringIsBytes /\ SizeSuffices /\ EncodesRecord
    BY <1>1, <1>3 DEF StringIsBytes, SizeSuffices, EncodesRecord
  <1>5. QED
    BY <1>1, <1>2, <1>4 DEF EncoderInv

\* Encoder_encode begins with pass 0.
LEMMA EncoderStart ==
    ASSUME NEW d \in Object, Encode(d)
    PROVE  EncoderInv'
  <1>1. /\ status' = "encoding" /\ dict' = d /\ pass' = 0 /\ mem' = << >> /\ packed' = FALSE
        /\ frames' = << Frame(d, RootMsg, NULL) >> /\ ret' = << >> /\ raised' = FALSE
        /\ string' = << >>
    BY DEF Encode
  <1>2. PICK buf \in Nat \cup {NULL} : buf = NULL
    OBVIOUS
  <1>3. IsSeq(mem') /\ pass' \in {0, 1} /\ pass' # 1
    BY <1>1, NoBytes
  <1>4. frames' = << Frame(d, RootMsg, buf) >>
    BY <1>1, <1>2
  <1>5. WalkInv'
    BY <1>1, <1>2, <1>3, <1>4, WalkStart
  <1>6. TypesInv'
    BY <1>1, <1>3, <1>4, TypesStart
  <1>7. ASSUME WellTyped[dict'][RootMsg] PROVE SizeInv' /\ BytesInv'
    <2>1. WellTyped[d][RootMsg]
      BY <1>1, <1>7
    <2>2. SizeInv'
      BY <1>1, <1>4, <2>1, SizeStart
    <2>3. BytesInv'
      BY <1>1, <1>4, BytesStart
    <2>4. QED
      BY <2>2, <2>3
  <1>8. DOMAIN << >> = {}
    OBVIOUS
  <1>9. StringIsBytes' /\ SizeSuffices' /\ EncodesRecord'
    BY <1>1, <1>8 DEF StringIsBytes, SizeSuffices, EncodesRecord
  <1>10. dict' \in Object /\ packed' \in BOOLEAN /\ raised' \in BOOLEAN
    BY <1>1
  <1>11. QED
    BY <1>1, <1>5, <1>6, <1>7, <1>9, <1>10 DEF EncoderInv

\* packed and raised are set and cleared, nothing else.
LEMMA FlagsNext ==
    ASSUME packed \in BOOLEAN, raised \in BOOLEAN, EncoderStep
    PROVE  packed' \in BOOLEAN /\ raised' \in BOOLEAN /\ dict' = dict
  <1>1. packed' \in {packed, FALSE} \/ packed' = (packed \/ Packed[Field_])
    BY DEF EncoderStep, NotADict, AbsentField, StartField, StartNested, EndNested, Scalar,
           EndField, EndMessage, EndPass0, EndPass1
  <1>2. raised' \in {raised, TRUE}
    BY DEF EncoderStep, NotADict, AbsentField, StartField, StartNested, EndNested, Scalar,
           EndField, EndMessage, EndPass0, EndPass1
  <1>3. dict' = dict
    BY DEF EncoderStep, NotADict, AbsentField, StartField, StartNested, EndNested, Scalar,
           EndField, EndMessage, EndPass0, EndPass1
  <1>4. (packed \/ Packed[Field_]) \in BOOLEAN
    OBVIOUS
  <1>5. QED
    BY <1>1, <1>2, <1>3, <1>4

\* EncoderInv is inductive: every step of pyobject_encode and of Encoder_encode
\* keeps it.
LEMMA EncoderNext ==
    ASSUME EncoderInv, EncoderStep
    PROVE  EncoderInv'
  <1>1. /\ status = "encoding"
        /\ status' \in {"encoding", "encoded", "undefined", "overflow", "aborted"}
    BY EncoderStatus
  <1>2. /\ WalkInv /\ TypesInv /\ string = << >>
        /\ WellTyped[dict][RootMsg] => SizeInv /\ BytesInv
        /\ packed \in BOOLEAN /\ raised \in BOOLEAN /\ dict \in Object
    BY <1>1 DEF EncoderInv
  <1>3. packed' \in BOOLEAN /\ raised' \in BOOLEAN /\ dict' = dict
    BY <1>2, FlagsNext
  <1>4. SizeSuffices' /\ (WellTyped[dict][RootMsg] /\ status' = "encoding" => SizeInv')
    <2>1. CASE WellTyped[dict][RootMsg]
      BY <1>1, <1>2, <2>1, SizeNext
    <2>2. CASE ~WellTyped[dict][RootMsg]
      BY <1>3, <2>2 DEF SizeSuffices
    <2>3. QED
      BY <2>1, <2>2
  <1>5. WellTyped[dict][RootMsg] /\ status' = "encoding" => BytesInv'
    BY <1>2, BytesNext
  <1>6. status' = "encoding" => WalkInv' /\ TypesInv'
    BY <1>1, <1>2, WalkNext, TypesNext
  <1>7. StringIsBytes' /\ EncodesRecord' /\ (status' = "encoding" => string' = << >>)
    <2>1. CASE EndPass1
      <3>1. status' = "encoded"
        BY <2>1 DEF EndPass1
      <3>2. QED
        BY <1>2, <2>1, <3>1, EndReturns
    <2>2. CASE ~EndPass1
      <3>1. string' = << >>
        BY <1>2, <2>2 DEF EncoderStep, NotADict, AbsentField, StartField, StartNested, EndNested,
                          Scalar, EndField, EndMessage, EndPass0
      <3>2. DOMAIN << >> = {}
        OBVIOUS
      <3>3. QED
        BY <3>1, <3>2 DEF StringIsBytes, EncodesRecord
    <2>3. QED
      BY <2>1, <2>2
  <1>8. QED
    BY <1>2, <1>3, <1>4, <1>5, <1>6, <1>7 DEF EncoderInv
=============================================================================
