--------------------------- MODULE PyStream_proofs ---------------------------
(***************************************************************************)
(* The reader of a stream gets the records the writer wrote, whatever part *)
(* of them the file's buffer lets through and wherever the writer dies.    *)
(***************************************************************************)
EXTENDS PyStream, PyEncoder_proofs

-----------------------------------------------------------------------------
(* Lengths and records in the stream. *)

\* The four bytes of a length.
LEMMA LengthFacts ==
    ASSUME NEW n
    PROVE  /\ IsSeq(LengthBytes(n)) /\ Len(LengthBytes(n)) = 4
           /\ LengthIn(LengthBytes(n)) = n
  <1>1. LengthBytes(n) \in [1..4 -> {<<"length", n, i>> : i \in 1..4}]
    BY DEF LengthBytes
  <1>2. LengthBytes(n) \in Seq({<<"length", n, i>> : i \in 1..4})
    BY <1>1, SeqDef
  <1>3. IsSeq(LengthBytes(n)) /\ Len(LengthBytes(n)) = 4
    BY <1>1, <1>2, SeqIsSeq, LenProperties
  <1>4. LengthBytes(n)[1] = <<"length", n, 1>>
    BY DEF LengthBytes
  <1>5. LengthBytes(n)[1][1] = "length" /\ LengthBytes(n)[1][2] = n
    BY <1>4
  <1>6. QED
    BY <1>3, <1>5 DEF LengthIn

\* A record in the stream: its length, then its bytes.
LEMMA FramedFacts ==
    ASSUME NEW raw, IsSeq(raw)
    PROVE  /\ IsSeq(Framed(raw)) /\ Len(Framed(raw)) = 4 + Len(raw)
           /\ \A i \in 1..4 : Framed(raw)[i] = LengthBytes(Len(raw))[i]
           /\ \A i \in 1..Len(raw) : Framed(raw)[4 + i] = raw[i]
  <1> DEFINE head == LengthBytes(Len(raw))
  <1>1. IsSeq(head) /\ Len(head) = 4
    BY LengthFacts
  <1> HIDE DEF head
  <1>2. /\ IsSeq(head \o raw) /\ Len(head \o raw) = Len(head) + Len(raw)
        /\ \A i \in 1..Len(head) : (head \o raw)[i] = head[i]
        /\ \A i \in 1..Len(raw) : (head \o raw)[Len(head) + i] = raw[i]
    <2>1. IsSeq(head)
      BY <1>1
    <2>2. QED
      BY <2>1, ConcatFacts
  <1>3. Framed(raw) = head \o raw
    BY DEF Framed, head
  <1>4. QED
    BY <1>1, <1>2, <1>3 DEF head

-----------------------------------------------------------------------------
(* What is on the way. *)

\* A witness for OnTheWay after a step.
LEMMA Arrives ==
    ASSUME NEW lost, lost = << >> \/ (string' # << >> /\ IsSeq(string') /\ lost = string'[1]),
           NEW all, all = pipe' \o buffered' \o lost, ToFollow(lost)',
           NEW cut \in [Len(records')..Len(written') -> -4..Len(all)], Aligned(all, cut)'
    PROVE  OnTheWay'
  <1>1. lost \in {<< >>} \cup {string'[i] : i \in DOMAIN string'}
    <2>1. CASE lost = << >>
      BY <2>1
    <2>2. CASE string' # << >> /\ IsSeq(string') /\ lost = string'[1]
      <3>1. DOMAIN string' = 1..Len(string') /\ Len(string') \in Nat /\ Len(string') # 0
        BY <2>2, SeqFacts, NoBytes
      <3>2. 1 \in DOMAIN string'
        BY <3>1
      <3>3. QED
        BY <2>2, <3>2
    <2>3. QED
      BY <2>1, <2>2
  <1>2. QED
    BY <1>1 DEF OnTheWay

\* string is a sequence of at most one.
LEMMA StringFacts ==
    ASSUME StreamInv, StringIsBytes
    PROVE  /\ IsSeq(string)
           /\ string # << >> => IsSeq(string[1])
           /\ \A i \in DOMAIN string : string # << >> /\ string[i] = string[1] /\ IsSeq(string[i])
  <1>1. \A x : << x >> \in Seq({x}) /\ DOMAIN << x >> = {1}
    OBVIOUS
  <1>2. CASE string = << >>
    <2>1. DOMAIN string = {}
      BY <1>2
    <2>2. QED
      BY <1>2, <2>1, NoBytes
  <1>3. CASE string = << string[1] >>
    <2>1. DOMAIN string = {1} /\ string \in Seq({string[1]})
      BY <1>1, <1>3
    <2>2. IsSeq(string)
      BY <2>1, SeqIsSeq
    <2>3. IsSeq(string[1])
      BY <2>1 DEF StringIsBytes
    <2>4. string # << >>
      BY <2>1
    <2>5. QED
      BY <2>1, <2>2, <2>3, <2>4
  <1>4. QED
    BY <1>2, <1>3 DEF StreamInv

\* What OnTheWay gives.
LEMMA Departs ==
    ASSUME StreamInv, StringIsBytes, OnTheWay
    PROVE  \E lost, all, cut :
              /\ lost = << >> \/ (string # << >> /\ lost = string[1])
              /\ IsSeq(lost) /\ ToFollow(lost)
              /\ all = pipe \o buffered \o lost /\ IsSeq(all)
              /\ Len(all) = Len(pipe) + Len(buffered) + Len(lost)
              /\ cut \in [Len(records)..Len(written) -> -4..Len(all)]
              /\ Aligned(all, cut)
  <1>1. PICK lost \in {<< >>} \cup {string[i] : i \in DOMAIN string} :
           /\ ToFollow(lost)
           /\ \E cut \in [Len(records)..Len(written) -> -4..Len(pipe \o buffered \o lost)] :
                 Aligned(pipe \o buffered \o lost, cut)
    BY DEF OnTheWay
  <1>2. /\ lost = << >> \/ (string # << >> /\ lost = string[1])
        /\ IsSeq(lost)
    BY StringFacts, NoBytes
  <1>3. IsSeq(pipe) /\ IsSeq(buffered)
    BY DEF StreamInv
  <1>4. IsSeq(pipe \o buffered) /\ Len(pipe \o buffered) = Len(pipe) + Len(buffered)
    BY <1>3, ConcatFacts
  <1>5. /\ IsSeq(pipe \o buffered \o lost)
        /\ Len(pipe \o buffered \o lost) = Len(pipe) + Len(buffered) + Len(lost)
    BY <1>2, <1>4, ConcatFacts
  <1>6. QED
    BY <1>1, <1>2, <1>5

\* As long as the writer runs, every record the reader has is a whole one.
LEMMA WriterRuns ==
    ASSUME StreamInv, ~WriterGone
    PROVE  /\ OnTheWay
           /\ \A k \in 1..Len(records) : records[k].as = "whole" /\ records[k].raw = written[k]
  BY DEF StreamInv, Ended

\* What is written goes behind what is on the way.
LEMMA FileWriteFacts ==
    ASSUME IsSeq(pipe), IsSeq(buffered), NEW bytes, IsSeq(bytes), FileWrite(bytes)
    PROVE  /\ IsSeq(pipe') /\ IsSeq(buffered')
           /\ pipe' \o buffered' = pipe \o buffered \o bytes
  <1>1. PICK more : more = buffered \o bytes
    OBVIOUS
  <1>2. PICK l : l = Len(more)
    OBVIOUS
  <1>3. IsSeq(more) /\ l \in Nat
    BY <1>1, <1>2, ConcatFacts, SeqFacts
  <1>4. PICK n \in 0..l : /\ pipe' = pipe \o SubSeq(more, 1, n)
                          /\ buffered' = SubSeq(more, n + 1, l)
    BY <1>1, <1>2, Zenon DEF FileWrite
  <1>5. PICK a, b : a = SubSeq(more, 1, n) /\ b = SubSeq(more, n + 1, l)
    OBVIOUS
  <1>6. pipe' = pipe \o a /\ buffered' = b
    BY <1>4, <1>5
  <1>7. n + 1 \in Nat \ {0} /\ l \in 0..l
    BY <1>3
  <1>8. IsSeq(a) /\ IsSeq(b)
    <2>1. IsSeq(SubSeq(more, 1, n))
      BY <1>2, <1>3, PartFacts
    <2>2. IsSeq(SubSeq(more, n + 1, l))
      BY <1>2, <1>3, <1>7, PartFacts
    <2>3. QED
      BY <1>5, <2>1, <2>2, Zenon
  <1>9. IsSeq(pipe') /\ IsSeq(buffered')
    BY <1>6, <1>8, ConcatFacts
  <1>10. a \o b = more
    <2>1. more \in Seq({more[i] : i \in DOMAIN more})
      BY <1>3, Zenon DEF IsSeq
    <2>2. 1 \in 1..(l + 1) /\ l \in n..l /\ 1 - 1 = 0
      BY <1>3
    <2>3. SubSeq(more, 1, n) \o SubSeq(more, n + 1, l) = SubSeq(more, 1, l)
      BY <1>2, <2>1, <2>2, ConcatAdjacentSubSeq
    <2>4. SubSeq(more, 1, l) = more
      BY <1>2, <2>1, SubSeqFull
    <2>5. QED
      BY <1>5, <2>3, <2>4, Zenon
  <1>11. pipe \o a \o b = pipe \o more
    <2>1. PICK v : v = a \o b
      OBVIOUS
    <2>2. pipe \o a \o b = pipe \o v
      BY <1>8, <2>1, Regroup
    <2>3. v = more
      BY <1>10, <2>1, Zenon
    <2>4. QED
      BY <2>2, <2>3, Zenon
  <1>12. pipe \o buffered \o bytes = pipe \o more
    BY <1>1, Regroup
  <1>13. PICK p : p = pipe'
    OBVIOUS
  <1>14. pipe' \o buffered' = p \o b
    BY <1>6, <1>13, Zenon
  <1>15. p \o b = pipe \o more
    BY <1>6, <1>11, <1>13, Zenon
  <1>16. QED
    BY <1>9, <1>12, <1>14, <1>15, Zenon

-----------------------------------------------------------------------------
(* Steps of the writer that leave the stream alone. *)

\* A step of the writer that writes nothing.  A writer that dies in the middle
\* of a record leaves the rest of it unwritten for ever.
LEMMA QuietStep ==
    ASSUME StreamInv, StringIsBytes, ~WriterGone,
           UNCHANGED <<buffered, pipe, current, written, records>>,
           status' \in Statuses \ {"writing", "closed"},
           status = "writing" => status' = "dead" /\ string' = string,
           string' = string \/ string' = << >> \/ string' = << string'[1] >>
    PROVE  StreamInv'
  <1>1. /\ OnTheWay
        /\ \A k \in 1..Len(records) : records[k].as = "whole" /\ records[k].raw = written[k]
    BY WriterRuns
  <1>2. PICK lost, all, cut :
           /\ lost = << >> \/ (string # << >> /\ lost = string[1])
           /\ ToFollow(lost)
           /\ all = pipe \o buffered \o lost
           /\ cut \in [Len(records)..Len(written) -> -4..Len(all)]
           /\ Aligned(all, cut)
    BY <1>1, Departs
  <1>3. /\ lost = << >> \/ (string' # << >> /\ IsSeq(string') /\ lost = string'[1])
        /\ ToFollow(lost)'
    <2>1. CASE status = "writing"
      BY <1>2, <2>1, StringFacts DEF ToFollow
    <2>2. CASE status # "writing"
      <3>1. status \in {"idle", "encoding", "encoded"}
        BY <2>2 DEF StreamInv, Statuses, WriterGone
      <3>2. lost = << >>
        BY <1>2, <3>1 DEF ToFollow
      <3>3. QED
        BY <3>2 DEF ToFollow
    <2>3. QED
      BY <2>1, <2>2
  <1>4. all = pipe' \o buffered' \o lost
    BY <1>2
  <1>5. cut \in [Len(records')..Len(written') -> -4..Len(all)]
    BY <1>2
  <1>6. Aligned(all, cut)'
    BY <1>2 DEF Aligned
  <1>7. OnTheWay'
    BY <1>3, <1>4, <1>5, <1>6, Arrives
  <1>8. string' = << >> \/ string' = << string'[1] >>
    BY DEF StreamInv
  <1>9. QED
    BY <1>1, <1>7, <1>8 DEF StreamInv

-----------------------------------------------------------------------------
(* Steps that write. *)

\* The length of a record is written.
LEMMA WriteLengthStep ==
    ASSUME StreamInv, StringIsBytes, WriteLength
    PROVE  StreamInv'
  <1>0. PICK raw, n, r : raw = string[1] /\ n = Len(written) /\ r = Len(records)
    OBVIOUS
  <1> DEFINE four == LengthBytes(Len(raw))
  <1>1. /\ status = "encoded" /\ string # << >> /\ status' = "writing" /\ string' = string
        /\ FileWrite(four) /\ written' = Append(written, raw)
        /\ current' = current /\ records' = records
    BY <1>0 DEF WriteLength, Goes
  <1>2. /\ OnTheWay
        /\ \A k \in 1..r : records[k].as = "whole" /\ records[k].raw = written[k]
    BY <1>0, <1>1, WriterRuns DEF WriterGone
  <1>3. PICK lost, all, cut :
           /\ ToFollow(lost)
           /\ all = pipe \o buffered \o lost /\ IsSeq(all)
           /\ cut \in [r..n -> -4..Len(all)]
           /\ Aligned(all, cut)
    BY <1>0, <1>2, Departs
  <1>4. lost = << >>
    BY <1>1, <1>3 DEF ToFollow
  <1>5. /\ IsSeq(pipe) /\ IsSeq(buffered) /\ IsSeq(records) /\ IsSeq(written)
        /\ \A k \in 1..n : IsSeq(written[k])
        /\ r <= n /\ (string = << >> \/ string = << string[1] >>)
    BY <1>0 DEF StreamInv
  <1>6. /\ IsSeq(raw) /\ Len(raw) \in Nat /\ IsSeq(string)
    BY <1>0, <1>1, StringFacts, SeqFacts
  <1>7. IsSeq(four) /\ Len(four) = 4
    BY LengthFacts
  <1> HIDE DEF four
  <1>8. all = pipe \o buffered
    <2>1. IsSeq(pipe \o buffered)
      BY <1>5, ConcatFacts
    <2>2. QED
      BY <1>3, <1>4, <2>1, NoBytes
  <1>9. IsSeq(pipe') /\ IsSeq(buffered') /\ pipe' \o buffered' = all \o four
    BY <1>1, <1>5, <1>7, <1>8, FileWriteFacts
  <1>10. /\ IsSeq(written') /\ Len(written') = n + 1
         /\ \A k \in 1..n : written'[k] = written[k]
         /\ written'[n + 1] = raw
    BY <1>0, <1>1, <1>5, AppendFacts
  <1>11. n \in Nat /\ r \in Nat /\ Len(all) \in Nat
    BY <1>0, <1>3, <1>5, SeqFacts
  <1>12. /\ IsSeq(Framed(raw)) /\ Len(Framed(raw)) = 4 + Len(raw)
    BY <1>6, FramedFacts
  <1> DEFINE frame == Framed(raw)
             later == all \o frame
             ends  == [k \in r..(n + 1) |-> IF k = n + 1 THEN Len(all) + 4 + Len(raw) ELSE cut[k]]
  <1>13. pipe' \o buffered' \o raw = later
    <2>1. PICK S : all \in Seq(S) /\ four \in Seq(S) /\ raw \in Seq(S)
      BY <1>3, <1>6, <1>7, Joint
    <2>2. (all \o four) \o raw = all \o (four \o raw)
      BY <2>1, ConcatAssociative
    <2>3. QED
      BY <1>9, <2>2 DEF Framed, four
  <1> HIDE DEF frame
  <1>14. /\ Len(later) = Len(all) + 4 + Len(raw)
         /\ \A i \in 1..Len(all) : later[i] = all[i]
         /\ \A i \in 1..(4 + Len(raw)) : later[Len(all) + i] = frame[i]
    <2>1. IsSeq(frame) /\ Len(frame) = 4 + Len(raw)
      BY <1>12 DEF frame
    <2>a. IsSeq(all) /\ IsSeq(frame)
      BY <1>3, <2>1
    <2>2. /\ Len(later) = Len(all) + Len(frame)
          /\ \A i \in 1..Len(all) : later[i] = all[i]
          /\ \A i \in 1..Len(frame) : later[Len(all) + i] = frame[i]
      BY <2>a, ConcatFacts
    <2>3. Len(all) + Len(frame) = Len(all) + 4 + Len(raw)
      BY <1>6, <1>11, <2>1
    <2>4. QED
      BY <2>1, <2>2, <2>3
  <1> HIDE DEF later, ends
  <1>15. ends \in [r..(n + 1) -> -4..Len(later)]
    BY <1>3, <1>5, <1>6, <1>11, <1>14 DEF ends
  <1>16. /\ \A k \in r..n : ends[k] = cut[k]
         /\ ends[n + 1] = Len(all) + 4 + Len(raw)
    BY <1>5, <1>11 DEF ends
  <1>17. Aligned(later, ends)'
    <2>1. /\ r <= n + 1 /\ ends[n + 1] = Len(later)
          /\ (current' # << >> => r < n + 1 /\ current' = << Len(written'[r + 1]) >>)
      <3>1. current # << >> => r < n /\ current = << Len(written[r + 1]) >>
        BY <1>0, <1>3 DEF Aligned
      <3>2. r < n => r + 1 \in 1..n
        BY <1>11
      <3>3. QED
        BY <1>1, <1>5, <1>10, <1>11, <1>14, <1>16, <3>1, <3>2
    <2>2. ends[r] = IF current' = << >> THEN 0 ELSE -4
      BY <1>0, <1>1, <1>3, <1>5, <1>11, <1>16 DEF Aligned
    <2>3. ASSUME NEW k \in (r + 1)..(n + 1)
          PROVE  /\ ends[k] = ends[k - 1] + 4 + Len(written'[k])
                 /\ \A i \in 1..(4 + Len(written'[k])) :
                       ends[k - 1] + i >= 1 => later[ends[k - 1] + i] = Framed(written'[k])[i]
      <3>1. CASE k = n + 1
        <4>1. cut[n] = Len(all)
          BY <1>0, <1>3 DEF Aligned
        <4>2. k - 1 = n /\ n \in r..n /\ ends[k - 1] = Len(all)
          BY <1>5, <1>11, <1>16, <3>1, <4>1
        <4>3. QED
          BY <1>10, <1>14, <1>16, <3>1, <4>2 DEF frame
      <3>2. CASE k # n + 1
        <4>1. /\ k \in (r + 1)..n /\ k \in r..n /\ k - 1 \in r..n /\ k \in 1..n
          BY <1>11, <3>2
        <4>2. /\ ends[k] = cut[k] /\ ends[k - 1] = cut[k - 1] /\ written'[k] = written[k]
          BY <1>10, <1>16, <4>1
        <4>3. /\ cut[k] = cut[k - 1] + 4 + Len(written[k])
              /\ \A i \in 1..(4 + Len(written[k])) :
                    cut[k - 1] + i >= 1 => all[cut[k - 1] + i] = Framed(written[k])[i]
          BY <1>0, <1>3, <4>1 DEF Aligned
        <4>4. /\ cut[k] \in -4..Len(all) /\ cut[k - 1] \in -4..Len(all) /\ Len(written[k]) \in Nat
          BY <1>3, <1>5, <4>1, SeqFacts
        <4>5. ASSUME NEW i \in 1..(4 + Len(written[k])), cut[k - 1] + i >= 1
              PROVE  later[cut[k - 1] + i] = Framed(written[k])[i]
          <5>1. cut[k] = cut[k - 1] + 4 + Len(written[k])
            BY <4>3
          <5>2. cut[k - 1] + i \in 1..Len(all)
            <6> DEFINE c == cut[k - 1]
                       l == Len(written[k])
                       z == Len(all)
            <6>1. c \in Int /\ l \in Nat /\ z \in Nat /\ i \in 1..(4 + l) /\ c + i >= 1
              BY <1>11, <4>4, <4>5
            <6>2. c + 4 + l <= z
              BY <4>4, <5>1
            <6> HIDE DEF c, l, z
            <6>3. c + i \in 1..z
              BY <6>1, <6>2
            <6>4. QED
              BY <6>3 DEF c, z
          <5>3. all[cut[k - 1] + i] = Framed(written[k])[i]
            BY <4>3, <4>5
          <5>4. later[cut[k - 1] + i] = all[cut[k - 1] + i]
            BY <1>14, <5>2
          <5>5. QED
            BY <5>3, <5>4
        <4>6. QED
          BY <4>2, <4>3, <4>5
      <3>3. QED
        BY <3>1, <3>2
    <2>4. Len(records') = r /\ Len(written') = n + 1
      BY <1>0, <1>1, <1>10
    <2>5. \A k \in (Len(records') + 1)..Len(written') :
             /\ ends[k] = ends[k - 1] + 4 + Len(written'[k])
             /\ \A i \in 1..(4 + Len(written'[k])) :
                   ends[k - 1] + i >= 1 => later[ends[k - 1] + i] = Framed(written'[k])[i]
      BY <2>3, <2>4
    <2>6. /\ Len(records') <= Len(written') /\ ends[Len(written')] = Len(later)
          /\ current' # << >> => /\ Len(records') < Len(written')
                                /\ current' = << Len(written'[Len(records') + 1]) >>
          /\ ends[Len(records')] = IF current' = << >> THEN 0 ELSE -4
      BY <2>1, <2>2, <2>4
    <2>7. ASSUME NEW j \in r..(n + 1), NEW k \in r..(n + 1), j <= k
          PROVE  ends[j] <= ends[k]
      <3>1. CASE k = n + 1
        <4>1. ends[j] \in -4..(Len(all) + 4 + Len(raw))
          BY <1>14, <1>15
        <4>2. QED
          BY <1>6, <1>11, <1>16, <3>1, <4>1
      <3>2. CASE k # n + 1
        <4>1. j \in r..n /\ k \in r..n
          BY <1>11, <2>7, <3>2
        <4>2. cut[j] <= cut[k]
          BY <1>0, <1>3, <2>7, <4>1 DEF Aligned
        <4>3. QED
          BY <1>16, <4>1, <4>2
      <3>3. QED
        BY <3>1, <3>2
    <2>8. \A j, k \in Len(records')..Len(written') : j <= k => ends[j] <= ends[k]
      BY <2>4, <2>7
    <2>9. QED
      BY <2>5, <2>6, <2>8 DEF Aligned
  <1>18. OnTheWay'
    <2>1. ToFollow(raw)'
      BY <1>0, <1>1 DEF ToFollow
    <2>2. raw = << >> \/ (string' # << >> /\ IsSeq(string') /\ raw = string'[1])
      BY <1>0, <1>1, <1>6
    <2>3. ends \in [Len(records')..Len(written') -> -4..Len(later)]
      BY <1>0, <1>1, <1>10, <1>15
    <2>4. later = pipe' \o buffered' \o raw
      BY <1>13
    <2>5. QED
      BY <1>17, <2>1, <2>2, <2>3, <2>4, Arrives
  <1>19. \A k \in 1..Len(written') : IsSeq(written'[k])
    BY <1>5, <1>6, <1>10, <1>11
  <1>20. \A k \in 1..Len(records') : records'[k].as = "whole" /\ records'[k].raw = written'[k]
    BY <1>0, <1>1, <1>2, <1>5, <1>10, <1>11
  <1>21. Len(records') <= Len(written')
    BY <1>0, <1>1, <1>5, <1>10, <1>11
  <1>22. QED
    BY <1>1, <1>5, <1>9, <1>10, <1>18, <1>19, <1>20, <1>21 DEF StreamInv, Statuses

\* The bytes of a record are written.
LEMMA WriteRawStep ==
    ASSUME StreamInv, StringIsBytes, WriteRaw
    PROVE  StreamInv'
  <1>1. /\ status = "writing" /\ status' = "idle" /\ string' = << >>
        /\ FileWrite(string[1])
        /\ UNCHANGED <<current, written, records>>
    BY DEF WriteRaw, Goes
  <1>2. /\ OnTheWay
        /\ \A k \in 1..Len(records) : records[k].as = "whole" /\ records[k].raw = written[k]
    BY <1>1, WriterRuns DEF WriterGone
  <1>3. PICK lost, all, cut :
           /\ ToFollow(lost)
           /\ all = pipe \o buffered \o lost /\ IsSeq(all)
           /\ cut \in [Len(records)..Len(written) -> -4..Len(all)]
           /\ Aligned(all, cut)
    BY <1>2, Departs
  <1>4. lost = string[1] /\ IsSeq(string[1])
    BY <1>1, <1>3, StringFacts DEF ToFollow, StreamInv
  <1>5. IsSeq(pipe') /\ IsSeq(buffered') /\ pipe' \o buffered' = all
    BY <1>1, <1>3, <1>4, FileWriteFacts DEF StreamInv
  <1>6. OnTheWay'
    <2>1. all = pipe' \o buffered' \o << >>
      BY <1>3, <1>5, NoBytes
    <2>2. ToFollow(<< >>)'
      BY <1>1 DEF ToFollow
    <2>3. cut \in [Len(records')..Len(written') -> -4..Len(all)]
      BY <1>1, <1>3
    <2>4. Aligned(all, cut)'
      BY <1>1, <1>3 DEF Aligned
    <2>5. QED
      BY <2>1, <2>2, <2>3, <2>4, Arrives
  <1>7. QED
    BY <1>1, <1>2, <1>5, <1>6 DEF StreamInv, Statuses

\* The stream is closed, and what was buffered reaches the pipe.
LEMMA CloseStreamStep ==
    ASSUME StreamInv, StringIsBytes, CloseStream
    PROVE  StreamInv'
  <1>1. /\ status = "idle" /\ status' = "closed" /\ string' = string
        /\ pipe' = pipe \o buffered /\ buffered' = << >>
        /\ UNCHANGED <<current, written, records>>
    BY DEF CloseStream, Goes
  <1>2. /\ OnTheWay
        /\ \A k \in 1..Len(records) : records[k].as = "whole" /\ records[k].raw = written[k]
    BY <1>1, WriterRuns DEF WriterGone
  <1>3. PICK lost, all, cut :
           /\ ToFollow(lost)
           /\ all = pipe \o buffered \o lost /\ IsSeq(all)
           /\ cut \in [Len(records)..Len(written) -> -4..Len(all)]
           /\ Aligned(all, cut)
    BY <1>2, Departs
  <1>4. lost = << >>
    BY <1>1, <1>3 DEF ToFollow
  <1>5. IsSeq(pipe') /\ IsSeq(buffered')
    BY <1>1, ConcatFacts, NoBytes DEF StreamInv
  <1>6. all = pipe' \o buffered' \o << >>
    <2>1. pipe' \o << >> = pipe'
      BY <1>5, NoBytes
    <2>2. QED
      BY <1>1, <1>3, <1>4, <2>1
  <1>7. OnTheWay'
    <2>1. ToFollow(<< >>)'
      BY <1>1 DEF ToFollow
    <2>2. cut \in [Len(records')..Len(written') -> -4..Len(all)]
      BY <1>1, <1>3
    <2>3. Aligned(all, cut)'
      BY <1>1, <1>3 DEF Aligned
    <2>4. QED
      BY <1>6, <2>1, <2>2, <2>3, Arrives
  <1>8. QED
    BY <1>1, <1>2, <1>5, <1>7 DEF StreamInv, Statuses

-----------------------------------------------------------------------------
(* Steps of the reader. *)

\* left is all without its first n bytes.
Without(left, all, n) == /\ Len(left) = Len(all) - n
                         /\ \A i \in 1..(Len(all) - n) : left[i] = all[n + i]

\* A read of n bytes takes the first n of those on the way.
LEMMA Dropped ==
    ASSUME IsSeq(pipe), IsSeq(buffered), NEW lost, IsSeq(lost), NEW n \in 0..Len(pipe),
           NEW all, all = pipe \o buffered \o lost,
           pipe' = Rest(n), buffered' = buffered,
           NEW left, left = pipe' \o buffered' \o lost
    PROVE  /\ IsSeq(pipe')
           /\ \A i \in 1..Len(pipe) : all[i] = pipe[i]
           /\ Len(pipe) <= Len(all)
           /\ Without(left, all, n)
  <1>1. PICK b : b = buffered \o lost
    OBVIOUS
  <1>2. IsSeq(b) /\ Len(b) \in Nat /\ Len(pipe) \in Nat /\ n \in Nat /\ n + 1 \in Nat \ {0}
    BY <1>1, ConcatFacts, SeqFacts
  <1>3. /\ IsSeq(pipe') /\ Len(pipe') = Len(pipe) - n
        /\ \A i \in 1..(Len(pipe) - n) : pipe'[i] = pipe[n + i]
    <2>1. Len(pipe) \in 0..Len(pipe)
      BY <1>2
    <2>2. IsSeq(pipe')
      BY <1>2, <2>1, PartFacts DEF Rest
    <2>3. Len(pipe') = IF n + 1 <= Len(pipe) THEN Len(pipe) - (n + 1) + 1 ELSE 0
      BY <1>2, <2>1, PartFacts DEF Rest
    <2>4. \A i \in 1..(Len(pipe) - (n + 1) + 1) : pipe'[i] = pipe[n + 1 + i - 1]
      BY <1>2, <2>1, PartFacts DEF Rest
    <2>5. Len(pipe') = Len(pipe) - n
      BY <1>2, <2>3
    <2>6. ASSUME NEW i \in 1..(Len(pipe) - n) PROVE pipe'[i] = pipe[n + i]
      <3>1. i \in 1..(Len(pipe) - (n + 1) + 1) /\ n + 1 + i - 1 = n + i
        BY <1>2
      <3>2. QED
        BY <2>4, <3>1
    <2>7. QED
      BY <2>2, <2>5, <2>6
  <1>4. all = pipe \o b
    <2>1. pipe \o buffered \o lost = pipe \o b
      BY <1>1, Regroup
    <2>2. QED
      BY <2>1
  <1>6. left = pipe' \o b
    <2>1. PICK p : p = pipe'
      OBVIOUS
    <2>2. IsSeq(p)
      BY <1>3, <2>1
    <2>3. p \o buffered \o lost = p \o b
      BY <1>1, <2>2, Regroup
    <2>4. left = p \o buffered \o lost
      BY <2>1
    <2>5. QED
      BY <2>1, <2>3, <2>4
  <1>7. /\ Len(all) = Len(pipe) + Len(b)
        /\ \A i \in 1..Len(pipe) : all[i] = pipe[i]
        /\ \A i \in 1..Len(b) : all[Len(pipe) + i] = b[i]
    BY <1>2, <1>4, ConcatFacts
  <1>8. /\ Len(left) = Len(pipe') + Len(b)
        /\ \A i \in 1..Len(pipe') : left[i] = pipe'[i]
        /\ \A i \in 1..Len(b) : left[Len(pipe') + i] = b[i]
    <2>1. PICK p : p = pipe'
      OBVIOUS
    <2>2. IsSeq(p) /\ IsSeq(b)
      BY <1>2, <1>3, <2>1
    <2>3. /\ Len(p \o b) = Len(p) + Len(b)
          /\ \A i \in 1..Len(p) : (p \o b)[i] = p[i]
          /\ \A i \in 1..Len(b) : (p \o b)[Len(p) + i] = b[i]
      BY <2>2, ConcatFacts
    <2>4. QED
      BY <1>6, <2>1, <2>3
  <1>9. Len(left) = Len(all) - n /\ Len(pipe) <= Len(all)
    BY <1>2, <1>3, <1>7, <1>8
  <1>10. ASSUME NEW i \in 1..(Len(all) - n) PROVE left[i] = all[n + i]
    <2>1. CASE i <= Len(pipe) - n
      <3>1. i \in 1..(Len(pipe) - n) /\ n + i \in 1..Len(pipe) /\ i \in 1..Len(pipe')
        BY <1>2, <1>3, <2>1
      <3>2. QED
        BY <1>3, <1>7, <1>8, <3>1
    <2>2. CASE ~(i <= Len(pipe) - n)
      <3>1. PICK j : j = i - Len(pipe')
        OBVIOUS
      <3>2. j \in 1..Len(b) /\ Len(pipe') + j = i /\ Len(pipe) + j = n + i
        BY <1>2, <1>3, <1>7, <2>2, <3>1
      <3>3. left[Len(pipe') + j] = b[j] /\ all[Len(pipe) + j] = b[j]
        BY <1>7, <1>8, <3>2
      <3>4. QED
        BY <3>2, <3>3
    <2>3. QED
      BY <2>1, <2>2
  <1>11. QED
    BY <1>3, <1>7, <1>9, <1>10 DEF Without

\* A read gets less than it asked for, because the writer is gone: the stream
\* is at its end.
LEMMA ShortReadEnds ==
    ASSUME StreamInv, WriterGone, pipe' = << >>, current' = << >>,
           UNCHANGED <<status, string, buffered, written, records>>
    PROVE  StreamInv'
  <1>1. Ended'
    BY DEF Ended, WriterGone
  <1>2. IsSeq(pipe')
    BY NoBytes
  <1>3. ASSUME NEW k \in 1..Len(records')
        PROVE  \/ records'[k].as = "whole" /\ records'[k].raw = written'[k]
               \/ /\ IsStrictPrefix(records'[k].raw, written'[k])
                  /\ k = Len(records') /\ status' # "closed" /\ Ended'
    BY <1>1 DEF StreamInv
  <1>4. QED
    BY <1>1, <1>2, <1>3 DEF StreamInv

\* A length is read, if there is one.
LEMMA ReadLengthStep ==
    ASSUME StreamInv, StringIsBytes, ReadLength
    PROVE  StreamInv'
  <1>0. PICK n, r, m : n = Len(written) /\ r = Len(records) /\ m = Len(pipe)
    OBVIOUS
  <1>1. /\ current = << >> /\ CanRead(4) /\ pipe' = Rest(4)
        /\ UNCHANGED <<status, string, buffered, written, records>>
    BY DEF ReadLength, encoderVars
  <1>2. IsSeq(pipe) /\ IsSeq(buffered) /\ m \in Nat /\ n \in Nat /\ r \in Nat
    BY <1>0, SeqFacts DEF StreamInv
  <1>3. CASE m < 4
    <2>1. current' = << >>
      BY <1>0, <1>1, <1>2, <1>3 DEF ReadLength
    <2>2. WriterGone
      BY <1>0, <1>1, <1>2, <1>3 DEF CanRead
    <2>3. pipe' = << >>
      BY <1>0, <1>1, <1>2, <1>3, SubSeqEmpty DEF Rest
    <2>4. QED
      BY <1>1, <2>1, <2>2, <2>3, ShortReadEnds
  <1>4. CASE m >= 4
    <2>1. current' = << LengthIn(Got(4)) >> /\ Got(4) = SubSeq(pipe, 1, 4)
      BY <1>0, <1>2, <1>4 DEF ReadLength, Got
    <2>2. ~Ended
      BY <1>0, <1>2, <1>4, NoBytes DEF Ended
    <2>3. /\ OnTheWay
          /\ \A k \in 1..r : records[k].as = "whole" /\ records[k].raw = written[k]
      BY <1>0, <2>2 DEF StreamInv
    <2>4. PICK lost, all, cut :
             /\ lost = << >> \/ (string # << >> /\ lost = string[1])
             /\ IsSeq(lost) /\ ToFollow(lost)
             /\ all = pipe \o buffered \o lost /\ IsSeq(all)
             /\ cut \in [r..n -> -4..Len(all)]
             /\ Aligned(all, cut)
      BY <1>0, <2>3, Departs
    <2>5. Len(all) \in Nat
      BY <2>4, SeqFacts
    <2>6. 4 \in 0..Len(pipe)
      BY <1>0, <1>2, <1>4
    <2>7. PICK left : left = pipe' \o buffered' \o lost
      OBVIOUS
    <2>8. /\ IsSeq(pipe')
          /\ \A i \in 1..m : all[i] = pipe[i]
          /\ m <= Len(all)
          /\ Len(left) = Len(all) - 4
          /\ \A i \in 1..(Len(all) - 4) : left[i] = all[4 + i]
      <3>0. PICK f : f = 4
        OBVIOUS
      <3>1. IsSeq(pipe) /\ IsSeq(buffered) /\ IsSeq(lost) /\ f \in 0..Len(pipe)
        BY <1>2, <2>4, <2>6, <3>0
      <3>2. /\ all = pipe \o buffered \o lost /\ pipe' = Rest(f) /\ buffered' = buffered
            /\ left = pipe' \o buffered' \o lost
        BY <1>1, <2>4, <2>7, <3>0
      <3>3. IsSeq(pipe')
        BY <3>1, <3>2, Dropped
      <3>4. \A i \in 1..Len(pipe) : all[i] = pipe[i]
        BY <3>1, <3>2, Dropped
      <3>5. Len(pipe) <= Len(all)
        BY <3>1, <3>2, Dropped
      <3>6. Without(left, all, f)
        BY <3>1, <3>2, Dropped
      <3>7. QED
        BY <1>0, <3>0, <3>3, <3>4, <3>5, <3>6 DEF Without
    <2>9. /\ r <= n /\ cut[r] = 0 /\ cut[n] = Len(all)
          /\ \A j, k \in r..n : j <= k => cut[j] <= cut[k]
          /\ \A k \in (r + 1)..n :
                /\ cut[k] = cut[k - 1] + 4 + Len(written[k])
                /\ \A i \in 1..(4 + Len(written[k])) :
                      cut[k - 1] + i >= 1 => all[cut[k - 1] + i] = Framed(written[k])[i]
      BY <1>0, <1>1, <2>4 DEF Aligned
    <2>10. r < n
      BY <1>2, <1>4, <2>5, <2>8, <2>9
    <2>11. r + 1 \in (r + 1)..n /\ r + 1 \in 1..n /\ r + 1 - 1 = r /\ r + 1 \in r..n
      BY <1>2, <2>10
    <2>12. PICK raw : raw = written[r + 1]
      OBVIOUS
    <2>13. IsSeq(raw) /\ Len(raw) \in Nat
      BY <1>0, <2>11, <2>12, SeqFacts DEF StreamInv
    <2>14. /\ cut[r + 1] = 4 + Len(raw)
           /\ \A i \in 1..(4 + Len(raw)) : all[i] = Framed(raw)[i]
      <3>1. /\ cut[r + 1] = cut[r] + 4 + Len(raw)
            /\ \A i \in 1..(4 + Len(raw)) :
                  cut[r] + i >= 1 => all[cut[r] + i] = Framed(raw)[i]
        <4>1. PICK k : k = r + 1
          OBVIOUS
        <4>2. /\ cut[k] = cut[k - 1] + 4 + Len(written[k])
              /\ \A i \in 1..(4 + Len(written[k])) :
                    cut[k - 1] + i >= 1 => all[cut[k - 1] + i] = Framed(written[k])[i]
          BY <2>9, <2>11, <4>1
        <4>3. k - 1 = r /\ written[k] = raw
          BY <1>2, <2>12, <4>1
        <4>4. QED
          BY <4>1, <4>2, <4>3
      <3>2. \A i \in 1..(4 + Len(raw)) : i >= 1 /\ 0 + i = i
        BY <2>13
      <3>3. QED
        BY <2>9, <2>13, <3>1, <3>2
    <2>15. Got(4) = LengthBytes(Len(raw))
      <3>1. PICK got, l, h : got = Got(4) /\ l = 1 /\ h = 4
        OBVIOUS
      <3>2. /\ l \in Nat \ {0} /\ h \in 0..Len(pipe) /\ l <= h /\ h - l + 1 = 4
            /\ got = SubSeq(pipe, l, h)
        BY <2>1, <2>6, <3>1
      <3>3. IsSeq(got)
        BY <1>2, <3>2, PartFacts
      <3>4. Len(got) = 4
        BY <1>2, <3>2, PartFacts
      <3>5. \A i \in 1..(4 - 1 + 1) : got[i] = pipe[1 + i - 1]
        BY <1>2, <3>1, <3>2, PartFacts
      <3>6. IsSeq(LengthBytes(Len(raw))) /\ Len(LengthBytes(Len(raw))) = 4
        BY LengthFacts
      <3>7. ASSUME NEW i \in 1..4 PROVE got[i] = LengthBytes(Len(raw))[i]
        <4>1. i \in 1..(4 - 1 + 1) /\ 1 + i - 1 = i /\ i \in 1..m /\ i \in 1..(4 + Len(raw))
          BY <1>2, <1>4, <2>13
        <4>2. got[i] = pipe[i] /\ all[i] = pipe[i] /\ all[i] = Framed(raw)[i]
          BY <2>8, <2>14, <3>5, <4>1
        <4>3. Framed(raw)[i] = LengthBytes(Len(raw))[i]
          BY <2>13, FramedFacts
        <4>4. QED
          BY <4>2, <4>3
      <3>8. got = LengthBytes(Len(raw))
        BY <3>3, <3>4, <3>6, <3>7, SameSeq
      <3>9. QED
        BY <3>1, <3>8
    <2>16. current' = << Len(raw) >>
      BY <2>1, <2>15, LengthFacts
    <2> DEFINE ends == [k \in r..n |-> cut[k] - 4]
    <2>17. ASSUME NEW k \in r..n PROVE cut[k] - 4 \in -4..Len(left)
      <3>1. cut[k] \in -4..Len(all)
        BY <2>4
      <3>2. cut[k] >= 0
        <4>1. r \in r..n /\ r <= k
          BY <1>2
        <4>2. cut[r] <= cut[k]
          BY <2>9, <4>1
        <4>3. QED
          BY <2>9, <3>1, <4>2
      <3>3. QED
        BY <2>5, <2>8, <3>1, <3>2
    <2>18. ends \in [r..n -> -4..Len(left)]
      BY <2>17
    <2>19. \A k \in r..n : ends[k] = cut[k] - 4
      OBVIOUS
    <2> HIDE DEF ends
    <2>20. ASSUME NEW k \in (r + 1)..n
           PROVE  /\ ends[k] = ends[k - 1] + 4 + Len(written[k])
                  /\ \A i \in 1..(4 + Len(written[k])) :
                        ends[k - 1] + i >= 1 => left[ends[k - 1] + i] = Framed(written[k])[i]
      <3>1. k \in r..n /\ k - 1 \in r..n /\ k \in 1..n
        BY <1>2
      <3>2. PICK c, d, l : c = cut[k - 1] /\ d = cut[k] /\ l = Len(written[k])
        OBVIOUS
      <3>3. /\ ends[k] = d - 4 /\ ends[k - 1] = c - 4
            /\ d = c + 4 + l
            /\ \A i \in 1..(4 + l) : c + i >= 1 => all[c + i] = Framed(written[k])[i]
        BY <2>9, <2>19, <3>1, <3>2
      <3>4. c \in Int /\ d \in Int /\ d <= Len(all) /\ l \in Nat
        BY <1>0, <2>4, <2>5, <3>1, <3>2, SeqFacts DEF StreamInv
      <3>5. ends[k] = ends[k - 1] + 4 + l
        <4>1. d - 4 = c - 4 + 4 + l
          BY <3>3, <3>4
        <4>2. QED
          BY <3>3, <4>1
      <3>6. ASSUME NEW i \in 1..(4 + l), c - 4 + i >= 1
            PROVE  left[c - 4 + i] = Framed(written[k])[i]
        <4>1. c - 4 + i \in 1..(Len(all) - 4) /\ 4 + (c - 4 + i) = c + i /\ c + i >= 1
          BY <2>5, <3>3, <3>4, <3>6
        <4>2. left[c - 4 + i] = all[c + i]
          BY <2>8, <4>1
        <4>3. QED
          BY <3>3, <4>1, <4>2
      <3>7. QED
        BY <3>2, <3>3, <3>5, <3>6
    <2>21. Aligned(left, ends)'
      <3>1. Len(records') = r /\ Len(written') = n /\ written' = written
        BY <1>0, <1>1
      <3>2. ends[r] = -4 /\ ends[n] = Len(left)
        <4>1. r \in r..n /\ n \in r..n
          BY <1>2, <2>10
        <4>2. QED
          BY <2>5, <2>8, <2>9, <2>19, <4>1
      <3>3. current' # << >> /\ current' = << Len(written'[r + 1]) >>
        BY <2>12, <2>16, <3>1
      <3>4. /\ Len(records') <= Len(written') /\ ends[Len(written')] = Len(left)
            /\ current' # << >> => /\ Len(records') < Len(written')
                                   /\ current' = << Len(written'[Len(records') + 1]) >>
            /\ ends[Len(records')] = IF current' = << >> THEN 0 ELSE -4
        BY <1>2, <2>10, <3>1, <3>2, <3>3
      <3>5. \A k \in (Len(records') + 1)..Len(written') :
               /\ ends[k] = ends[k - 1] + 4 + Len(written'[k])
               /\ \A i \in 1..(4 + Len(written'[k])) :
                     ends[k - 1] + i >= 1 => left[ends[k - 1] + i] = Framed(written'[k])[i]
        BY <2>20, <3>1
      <3>6. ASSUME NEW j \in r..n, NEW k \in r..n, j <= k PROVE ends[j] <= ends[k]
        <4>1. cut[j] \in -4..Len(all) /\ cut[k] \in -4..Len(all)
          BY <2>4
        <4>2. cut[j] <= cut[k]
          BY <2>9, <3>6
        <4>3. QED
          BY <2>5, <2>19, <4>1, <4>2
      <3>7. \A j, k \in Len(records')..Len(written') : j <= k => ends[j] <= ends[k]
        BY <3>1, <3>6
      <3>8. QED
        BY <3>4, <3>5, <3>7 DEF Aligned
    <2>22. OnTheWay'
      <3>1. lost = << >> \/ (string' # << >> /\ IsSeq(string') /\ lost = string'[1])
        BY <1>1, <2>4, StringFacts
      <3>2. ToFollow(lost)'
        BY <1>1, <2>4 DEF ToFollow
      <3>3. ends \in [Len(records')..Len(written') -> -4..Len(left)]
        BY <1>0, <1>1, <2>18
      <3>4. left = pipe' \o buffered' \o lost
        BY <2>7
      <3>5. QED
        BY <2>21, <3>1, <3>2, <3>3, <3>4, Arrives
    <2>23. QED
      BY <1>0, <1>1, <2>3, <2>8, <2>22 DEF StreamInv
  <1>5. QED
    BY <1>2, <1>3, <1>4

\* The bytes of a record are read, all of them unless the writer is gone.
LEMMA ReadRawStep ==
    ASSUME StreamInv, StringIsBytes, ReadRaw
    PROVE  StreamInv'
  <1>0. PICK n, r, m, raw : /\ n = Len(written) /\ r = Len(records) /\ m = Len(pipe)
                            /\ raw = written[r + 1]
    OBVIOUS
  <1>1. PICK l : l = current[1]
    OBVIOUS
  <1>2. /\ current # << >> /\ CanRead(l) /\ pipe' = Rest(l) /\ current' = << >>
        /\ UNCHANGED <<status, string, buffered, written>>
    BY <1>1 DEF ReadRaw, encoderVars
  <1>3. PICK as \in Decoded(Got(l), l) :
           records' = Append(records, [raw |-> Got(l), as |-> as])
    BY <1>1 DEF ReadRaw
  <1>4. /\ IsSeq(pipe) /\ IsSeq(buffered) /\ IsSeq(records)
        /\ m \in Nat /\ n \in Nat /\ r \in Nat
    BY <1>0, SeqFacts DEF StreamInv
  <1>5. ~Ended
    BY <1>2 DEF Ended
  <1>6. /\ OnTheWay
        /\ \A k \in 1..r : records[k].as = "whole" /\ records[k].raw = written[k]
    BY <1>0, <1>5 DEF StreamInv
  <1>7. PICK lost, all, cut :
           /\ lost = << >> \/ (string # << >> /\ lost = string[1])
           /\ IsSeq(lost) /\ ToFollow(lost)
           /\ all = pipe \o buffered \o lost /\ IsSeq(all)
           /\ Len(all) = m + Len(buffered) + Len(lost)
           /\ cut \in [r..n -> -4..Len(all)]
           /\ Aligned(all, cut)
    BY <1>0, <1>6, Departs
  <1>8. /\ r < n /\ current = << Len(raw) >> /\ cut[r] = -4 /\ cut[n] = Len(all)
        /\ \A j, k \in r..n : j <= k => cut[j] <= cut[k]
        /\ \A k \in (r + 1)..n :
              /\ cut[k] = cut[k - 1] + 4 + Len(written[k])
              /\ \A i \in 1..(4 + Len(written[k])) :
                    cut[k - 1] + i >= 1 => all[cut[k - 1] + i] = Framed(written[k])[i]
    BY <1>0, <1>2, <1>7 DEF Aligned
  <1>9. r + 1 \in (r + 1)..n /\ r + 1 \in 1..n /\ r + 1 \in r..n
    BY <1>4, <1>8
  <1>10. IsSeq(raw) /\ l = Len(raw) /\ l \in Nat /\ Len(all) \in Nat
    <2>1. << Len(raw) >>[1] = Len(raw)
      OBVIOUS
    <2>2. l = Len(raw)
      BY <1>1, <1>8, <2>1
    <2>3. IsSeq(raw)
      BY <1>0, <1>9 DEF StreamInv
    <2>4. QED
      BY <1>7, <2>2, <2>3, SeqFacts
  <1>11. cut[r + 1] = l /\ \A i \in 1..l : all[i] = raw[i]
    <2>1. PICK k : k = r + 1
      OBVIOUS
    <2>2. /\ cut[k] = cut[k - 1] + 4 + Len(written[k])
          /\ \A i \in 1..(4 + Len(written[k])) :
                cut[k - 1] + i >= 1 => all[cut[k - 1] + i] = Framed(written[k])[i]
      BY <1>8, <1>9, <2>1
    <2>3. k - 1 = r /\ written[k] = raw
      BY <1>0, <1>4, <2>1
    <2>4. /\ cut[k] = -4 + 4 + l
          /\ \A i \in 1..(4 + l) : -4 + i >= 1 => all[-4 + i] = Framed(raw)[i]
      BY <1>8, <1>10, <2>2, <2>3
    <2>5. ASSUME NEW i \in 1..l PROVE all[i] = raw[i]
      <3>1. 4 + i \in 1..(4 + l) /\ -4 + (4 + i) = i /\ i >= 1
        BY <1>10
      <3>2. all[i] = Framed(raw)[4 + i]
        BY <2>4, <3>1
      <3>3. Framed(raw)[4 + i] = raw[i]
        BY <1>10, FramedFacts
      <3>4. QED
        BY <3>2, <3>3
    <2>6. cut[k] = l
      BY <1>10, <2>4
    <2>7. QED
      BY <2>1, <2>5, <2>6
  <1>12. l <= Len(all) /\ \A i \in 1..m : all[i] = pipe[i]
    <2>1. cut[r + 1] \in -4..Len(all)
      BY <1>7, <1>9
    <2>2. l <= Len(all)
      BY <1>10, <1>11, <2>1
    <2>3. PICK b : b = buffered \o lost
      OBVIOUS
    <2>5. all = pipe \o b
      BY <1>4, <1>7, <2>3, Regroup, SMTT(30)
    <2>6. IsSeq(b)
      BY <1>4, <1>7, <2>3, ConcatFacts
    <2>7. \A i \in 1..Len(pipe) : (pipe \o b)[i] = pipe[i]
      BY <1>4, <2>6, ConcatFacts
    <2>8. QED
      BY <1>0, <2>2, <2>5, <2>7
  <1>13. /\ IsSeq(records') /\ Len(records') = r + 1
         /\ \A k \in 1..r : records'[k] = records[k]
         /\ records'[r + 1] = [raw |-> Got(l), as |-> as]
    BY <1>0, <1>3, <1>4, AppendFacts
  <1>14. Got(l) = SubSeq(pipe, 1, IF l <= m THEN l ELSE m)
    BY <1>0 DEF Got
  <1>15. PICK got : got = Got(l)
    OBVIOUS
  <1>16. PICK t : t = IF l <= m THEN l ELSE m
    OBVIOUS
  <1>17. IsSeq(got) /\ Len(got) = t /\ \A i \in 1..t : got[i] = pipe[i]
    <2>1. 1 \in Nat \ {0} /\ t \in 0..Len(pipe) /\ t \in Nat
      BY <1>0, <1>4, <1>10, <1>16
    <2>2. got = SubSeq(pipe, 1, t)
      BY <1>14, <1>15, <1>16
    <2>3. IsSeq(got)
      BY <1>4, <2>1, <2>2, PartFacts
    <2>4. Len(got) = IF 1 <= t THEN t - 1 + 1 ELSE 0
      BY <1>4, <2>1, <2>2, PartFacts
    <2>5. \A i \in 1..(t - 1 + 1) : got[i] = pipe[1 + i - 1]
      BY <1>4, <2>1, <2>2, PartFacts
    <2>6. Len(got) = t
      BY <2>1, <2>4
    <2>7. ASSUME NEW i \in 1..t PROVE got[i] = pipe[i]
      <3>1. i \in 1..(t - 1 + 1) /\ 1 + i - 1 = i
        BY <2>1
      <3>2. QED
        BY <2>5, <3>1
    <2>8. QED
      BY <2>3, <2>6, <2>7
  <1>18. t <= m /\ t <= l /\ t \in Nat /\ \A i \in 1..t : got[i] = raw[i]
    <2>1. t <= m /\ t <= l /\ t \in Nat
      BY <1>4, <1>10, <1>16
    <2>2. ASSUME NEW i \in 1..t PROVE got[i] = raw[i]
      <3>1. i \in 1..m /\ i \in 1..l
        BY <1>4, <1>10, <2>1
      <3>2. QED
        BY <1>11, <1>12, <1>17, <3>1
    <2>3. QED
      BY <2>1, <2>2
  <1>19. Len(records') <= Len(written')
    BY <1>0, <1>2, <1>4, <1>8, <1>13
  <1>20. CASE m < l
    <2>1. WriterGone
      BY <1>0, <1>2, <1>4, <1>10, <1>20 DEF CanRead
    <2>2. pipe' = << >>
      <3>1. l + 1 \in Int /\ m \in Int /\ m < l + 1
        BY <1>4, <1>10, <1>20
      <3>2. SubSeq(pipe, l + 1, m) = << >>
        BY <3>1, SubSeqEmpty
      <3>3. QED
        BY <1>0, <1>2, <3>2 DEF Rest
    <2>3. Ended'
      BY <1>2, <2>1, <2>2 DEF Ended, WriterGone
    <2>4. status # "closed"
      <3>1. SUFFICES ASSUME status = "closed" PROVE FALSE
        OBVIOUS
      <3>2. buffered = << >> /\ lost = << >>
        BY <1>7, <3>1 DEF StreamInv, ToFollow
      <3>3. Len(all) = m
        BY <1>4, <1>7, <3>2, NoBytes
      <3>4. QED
        BY <1>4, <1>10, <1>12, <1>20, <3>3
    <2>5. Len(got) = m /\ m < Len(raw) /\ t = m
      BY <1>4, <1>10, <1>16, <1>17, <1>20
    <2>6. IsStrictPrefix(got, raw)
      <3>1. SubSeq(got, 1, Len(got)) = got
        BY <1>17, SubSeqFull DEF IsSeq
      <3>2. PICK p : p = SubSeq(raw, 1, m)
        OBVIOUS
      <3>3. m \in 0..Len(raw) /\ 1 \in Nat \ {0}
        BY <1>4, <1>10, <2>5
      <3>4. IsSeq(p)
        BY <1>10, <3>2, <3>3, PartFacts
      <3>5. Len(p) = IF 1 <= m THEN m - 1 + 1 ELSE 0
        BY <1>10, <3>2, <3>3, PartFacts
      <3>6. \A i \in 1..(m - 1 + 1) : p[i] = raw[1 + i - 1]
        BY <1>10, <3>2, <3>3, PartFacts
      <3>7. Len(p) = Len(got)
        BY <1>4, <2>5, <3>5
      <3>8. ASSUME NEW i \in 1..Len(got) PROVE got[i] = p[i]
        <4>1. i \in 1..(m - 1 + 1) /\ 1 + i - 1 = i /\ i \in 1..t
          BY <1>4, <2>5
        <4>2. QED
          BY <1>18, <3>6, <4>1
      <3>9. got = p
        BY <1>17, <3>4, <3>7, <3>8, SameSeq
      <3>10. Len(got) <= Len(raw) /\ got # raw
        BY <1>4, <1>10, <2>5
      <3>11. QED
        BY <2>5, <3>1, <3>2, <3>9, <3>10 DEF IsStrictPrefix, IsPrefix
    <2>7. ASSUME NEW k \in 1..Len(records')
          PROVE  \/ records'[k].as = "whole" /\ records'[k].raw = written'[k]
                 \/ /\ IsStrictPrefix(records'[k].raw, written'[k])
                    /\ k = Len(records') /\ status' # "closed" /\ Ended'
      <3>1. CASE k = r + 1
        <4>1. records'[k].raw = got /\ written'[k] = raw /\ k = Len(records')
          BY <1>0, <1>2, <1>13, <1>15, <3>1
        <4>2. QED
          BY <1>2, <2>3, <2>4, <2>6, <4>1
      <3>2. CASE k # r + 1
        <4>1. k \in 1..r
          BY <1>4, <1>13, <3>2
        <4>2. QED
          BY <1>2, <1>6, <1>13, <4>1
      <3>3. QED
        BY <3>1, <3>2
    <2>8. IsSeq(pipe')
      BY <2>2, NoBytes
    <2>9. QED
      BY <1>2, <1>13, <1>19, <2>3, <2>7, <2>8 DEF StreamInv
  <1>21. CASE m >= l
    <2>1. t = l
      BY <1>4, <1>10, <1>16, <1>21
    <2>2. got = raw
      BY <1>10, <1>17, <1>18, <2>1, SameSeq
    <2>3. as = "whole"
      BY <1>3, <1>10, <1>15, <2>2 DEF Decoded
    <2>4. ASSUME NEW k \in 1..Len(records')
          PROVE  records'[k].as = "whole" /\ records'[k].raw = written'[k]
      <3>1. CASE k = r + 1
        BY <1>0, <1>2, <1>13, <1>15, <2>2, <2>3, <3>1
      <3>2. CASE k # r + 1
        <4>1. k \in 1..r
          BY <1>4, <1>13, <3>2
        <4>2. QED
          BY <1>2, <1>6, <1>13, <4>1
      <3>3. QED
        BY <3>1, <3>2
    <2>5. PICK left : left = pipe' \o buffered' \o lost
      OBVIOUS
    <2>6. IsSeq(pipe') /\ Without(left, all, l)
      <3>1. IsSeq(pipe) /\ IsSeq(buffered) /\ IsSeq(lost) /\ l \in 0..Len(pipe)
        BY <1>0, <1>4, <1>7, <1>10, <1>21
      <3>2. /\ all = pipe \o buffered \o lost /\ pipe' = Rest(l) /\ buffered' = buffered
            /\ left = pipe' \o buffered' \o lost
        BY <1>2, <1>7, <2>5
      <3>3. IsSeq(pipe')
        BY <3>1, <3>2, Dropped
      <3>4. Without(left, all, l)
        BY <3>1, <3>2, Dropped
      <3>5. QED
        BY <3>3, <3>4
    <2>7. Len(left) = Len(all) - l /\ \A i \in 1..(Len(all) - l) : left[i] = all[l + i]
      BY <2>6 DEF Without
    <2> DEFINE ends == [k \in (r + 1)..n |-> cut[k] - l]
    <2>8. ASSUME NEW k \in (r + 2)..n
          PROVE  /\ k \in (r + 1)..n /\ k - 1 \in (r + 1)..n /\ k - 1 \in r..n /\ k \in 1..n
                 /\ k \in r..n
                 /\ cut[k] \in -4..Len(all) /\ cut[k - 1] \in -4..Len(all)
                 /\ Len(written[k]) \in Nat
                 /\ cut[k] = cut[k - 1] + 4 + Len(written[k])
      <3>1. /\ k \in (r + 1)..n /\ k - 1 \in (r + 1)..n /\ k - 1 \in r..n /\ k \in 1..n
            /\ k \in r..n
        BY <1>4
      <3>2. cut[k] \in -4..Len(all) /\ cut[k - 1] \in -4..Len(all)
        BY <1>7, <3>1
      <3>3. Len(written[k]) \in Nat
        BY <1>0, <3>1, SeqFacts DEF StreamInv
      <3>4. QED
        BY <1>8, <3>1, <3>2, <3>3
    <2>9. ASSUME NEW k \in (r + 1)..n PROVE cut[k] - l \in -4..Len(left)
      <3>1. k \in r..n /\ r + 1 <= k
        BY <1>4
      <3>2. cut[k] \in -4..Len(all) /\ l <= cut[k]
        BY <1>7, <1>8, <1>9, <1>11, <3>1
      <3>3. cut[k] \in Int /\ Len(left) = Len(all) - l
        BY <1>10, <2>7, <3>2
      <3>4. QED
        BY <1>10, <3>2, <3>3
    <2>10. ends \in [(r + 1)..n -> -4..Len(left)]
      BY <2>9
    <2>11. \A k \in (r + 1)..n : ends[k] = cut[k] - l
      OBVIOUS
    <2> HIDE DEF ends
    <2>12. ASSUME NEW k \in (r + 2)..n
           PROVE  /\ ends[k] = ends[k - 1] + 4 + Len(written[k])
                  /\ \A i \in 1..(4 + Len(written[k])) :
                        ends[k - 1] + i >= 1 => left[ends[k - 1] + i] = Framed(written[k])[i]
      <3>1. k \in (r + 1)..n /\ k - 1 \in (r + 1)..n
        BY <2>8
      <3>2. PICK c, d, w : c = cut[k - 1] /\ d = cut[k] /\ w = Len(written[k])
        OBVIOUS
      <3>3. /\ ends[k] = d - l /\ ends[k - 1] = c - l
            /\ d = c + 4 + w
            /\ \A i \in 1..(4 + w) : c + i >= 1 => all[c + i] = Framed(written[k])[i]
        BY <1>8, <2>11, <3>1, <3>2
      <3>4. c \in Int /\ d \in Int /\ d <= Len(all) /\ w \in Nat
        BY <1>10, <2>8, <3>2
      <3>5. ends[k] = ends[k - 1] + 4 + w
        BY <1>10, <3>3, <3>4, SMTT(30)
      <3>6. ASSUME NEW i \in 1..(4 + w), c - l + i >= 1
            PROVE  left[c - l + i] = Framed(written[k])[i]
        <4>1. c - l + i \in 1..(Len(all) - l) /\ l + (c - l + i) = c + i /\ c + i >= 1
          BY <1>10, <3>3, <3>4, <3>6
        <4>2. left[c - l + i] = all[c + i]
          BY <2>7, <4>1
        <4>3. QED
          BY <3>3, <4>1, <4>2
      <3>7. QED
        BY <3>2, <3>3, <3>5, <3>6
    <2>13. Aligned(left, ends)'
      <3>1. Len(records') = r + 1 /\ Len(written') = n /\ written' = written
        BY <1>0, <1>2, <1>13
      <3>2. ends[r + 1] = 0 /\ ends[n] = Len(left)
        <4>1. r + 1 \in (r + 1)..n /\ n \in (r + 1)..n
          BY <1>4, <1>8
        <4>2. ends[r + 1] = cut[r + 1] - l /\ ends[n] = cut[n] - l
          BY <2>11, <4>1
        <4>3. cut[r + 1] = l /\ cut[n] = Len(all) /\ Len(left) = Len(all) - l
          BY <1>8, <1>11, <2>7
        <4>4. QED
          BY <1>10, <4>2, <4>3
      <3>3. /\ Len(records') <= Len(written') /\ ends[Len(written')] = Len(left)
            /\ current' = << >>
            /\ ends[Len(records')] = 0
        BY <1>2, <1>19, <3>1, <3>2
      <3>4. r + 1 + 1 = r + 2
        BY <1>4
      <3>5. \A k \in (Len(records') + 1)..Len(written') :
               /\ ends[k] = ends[k - 1] + 4 + Len(written'[k])
               /\ \A i \in 1..(4 + Len(written'[k])) :
                     ends[k - 1] + i >= 1 => left[ends[k - 1] + i] = Framed(written'[k])[i]
        BY <2>12, <3>1, <3>4
      <3>6. ASSUME NEW j \in (r + 1)..n, NEW k \in (r + 1)..n, j <= k
            PROVE  ends[j] <= ends[k]
        <4>1. j \in r..n /\ k \in r..n
          BY <1>4
        <4>2. cut[j] \in -4..Len(all) /\ cut[k] \in -4..Len(all)
          BY <1>7, <4>1
        <4>3. cut[j] <= cut[k]
          BY <1>8, <3>6, <4>1
        <4>4. QED
          BY <1>10, <2>11, <4>2, <4>3
      <3>7. \A j, k \in Len(records')..Len(written') : j <= k => ends[j] <= ends[k]
        BY <3>1, <3>6
      <3>8. QED
        BY <3>3, <3>5, <3>7 DEF Aligned
    <2>14. OnTheWay'
      <3>1. lost = << >> \/ (string' # << >> /\ IsSeq(string') /\ lost = string'[1])
        BY <1>2, <1>7, StringFacts
      <3>2. ToFollow(lost)'
        BY <1>2, <1>7 DEF ToFollow
      <3>3. ends \in [Len(records')..Len(written') -> -4..Len(left)]
        BY <1>0, <1>2, <1>13, <2>10
      <3>4. left = pipe' \o buffered' \o lost
        BY <2>5
      <3>5. QED
        BY <2>13, <3>1, <3>2, <3>3, <3>4, Arrives
    <2>15. QED
      BY <1>2, <1>13, <1>19, <2>4, <2>6, <2>14 DEF StreamInv
  <1>22. QED
    BY <1>4, <1>10, <1>20, <1>21

-----------------------------------------------------------------------------
(* StreamInv is inductive, as long as encode returns bytes. *)

\* Nothing is written, nothing is on the way.
LEMMA StreamInvInit == Init => StreamInv
  <1> SUFFICES ASSUME Init PROVE StreamInv
    OBVIOUS
  <1>1. /\ status = "idle" /\ string = << >> /\ buffered = << >> /\ pipe = << >>
        /\ current = << >> /\ written = << >> /\ records = << >>
    BY DEF Init, EncoderInit
  <1>2. IsSeq(<< >>) /\ Len(<< >>) = 0 /\ << >> \o << >> = << >>
    BY NoBytes
  <1>3. OnTheWay
    <2> DEFINE cut == [k \in 0..0 |-> 0]
    <2>1. ToFollow(<< >>)
      BY <1>1 DEF ToFollow
    <2>2. pipe \o buffered \o << >> = << >>
      BY <1>1, <1>2
    <2>3. cut \in [Len(records)..Len(written) -> -4..Len(<< >>)]
      BY <1>1, <1>2
    <2>4. cut[0] = 0
      OBVIOUS
    <2> HIDE DEF cut
    <2>5. Aligned(<< >>, cut)
      <3>1. /\ \A j, k \in 0..0 : j = 0 /\ k = 0
            /\ \A k \in (0 + 1)..0 : FALSE
        OBVIOUS
      <3>2. QED
        BY <1>1, <1>2, <2>4, <3>1 DEF Aligned
    <2>6. QED
      BY <2>1, <2>2, <2>3, <2>5 DEF OnTheWay
  <1>4. QED
    BY <1>1, <1>2, <1>3 DEF StreamInv, Statuses

\* Every step of either process keeps the invariant.
LEMMA StreamInvNext == StreamInv /\ StringIsBytes /\ [Next]_vars => StreamInv'
  <1> SUFFICES ASSUME StreamInv, StringIsBytes, [Next]_vars PROVE StreamInv'
    OBVIOUS
  <1>1. CASE BeginWrite
    <2>1. /\ status = "idle" /\ status' = "encoding" /\ string' = << >>
          /\ UNCHANGED <<buffered, pipe, current, written, records>>
      BY <1>1 DEF BeginWrite, Encode
    <2>2. QED
      BY <2>1, QuietStep DEF WriterGone, Statuses
  <1>2. CASE Encoding
    <2>1. EncoderStep /\ UNCHANGED <<buffered, pipe, current, written, records>>
      BY <1>2 DEF Encoding, streamVars
    <2>2. /\ status = "encoding"
          /\ status' \in {"encoding", "encoded", "undefined", "overflow", "aborted"}
          /\ string' = string \/ string' = << string'[1] >>
      BY <2>1, EncoderStatus
    <2>3. ~WriterGone /\ status # "writing" /\ status' \in Statuses \ {"writing", "closed"}
      BY <2>2 DEF WriterGone, Statuses
    <2>4. QED
      BY <2>1, <2>2, <2>3, QuietStep
  <1>3. CASE WriteRaises
    <2>1. /\ status = "encoded" /\ status' = "idle" /\ string' = string
          /\ UNCHANGED <<buffered, pipe, current, written, records>>
      BY <1>3 DEF WriteRaises, Goes, streamVars
    <2>2. QED
      BY <2>1, QuietStep DEF WriterGone, Statuses
  <1>4. CASE WriterDies
    <2>1. /\ ~WriterGone /\ status' = "dead" /\ string' = string
          /\ UNCHANGED <<buffered, pipe, current, written, records>>
      BY <1>4 DEF WriterDies, Goes, streamVars
    <2>2. QED
      BY <2>1, QuietStep DEF Statuses
  <1>5. CASE UNCHANGED vars
    <2>1. UNCHANGED <<status, string, buffered, pipe, current, written, records>>
      BY <1>5 DEF vars, encoderVars, streamVars
    <2>2. OnTheWay' = OnTheWay /\ Ended' = Ended
      BY <2>1 DEF OnTheWay, ToFollow, Aligned, Ended, WriterGone
    <2>3. QED
      BY <2>1, <2>2 DEF StreamInv
  <1>6. QED
    BY <1>1, <1>2, <1>3, <1>4, <1>5, WriteLengthStep, WriteRawStep, CloseStreamStep,
       ReadLengthStep, ReadRawStep DEF Next, Writer, Reader

-----------------------------------------------------------------------------
(* The run of both processes keeps the invariants of the encoder and of    *)
(* the stream.                                                             *)

RunInv ==
    /\ EncoderInv /\ StreamInv
    /\ todo \in Seq(Object)
    /\ Len(ret) <= 1
    /\ reader \in {"reading", "eof", "undefined"}

\* Between two calls of encode, and when the process is gone, what is left of
\* EncoderInv is about the string.
LEMMA EncoderRests ==
    ASSUME EncoderInv, status' \in {"idle", "writing", "closed", "dead"},
           dict' = dict, packed' = packed, raised' = raised, string' \in {string, << >>}
    PROVE  EncoderInv'
  <1>1. dict' \in Object /\ packed' \in BOOLEAN /\ raised' \in BOOLEAN
    BY DEF EncoderInv
  <1>2. SizeSuffices'
    BY DEF SizeSuffices
  <1>3. DOMAIN << >> = {}
    OBVIOUS
  <1>4. StringIsBytes' /\ EncodesRecord'
    BY <1>3 DEF EncoderInv, StringIsBytes, EncodesRecord
  <1>5. QED
    BY <1>1, <1>2, <1>4 DEF EncoderInv

\* The reader does nothing to the encoder.
LEMMA EncoderUnchanged ==
    ASSUME EncoderInv, UNCHANGED encoderVars
    PROVE  EncoderInv'
  <1>1. /\ status' = status /\ dict' = dict /\ pass' = pass /\ mem' = mem /\ packed' = packed
        /\ frames' = frames /\ ret' = ret /\ raised' = raised /\ string' = string
    BY DEF encoderVars
  <1>2. Calls' = Calls
    BY <1>1, Zenon DEF Calls
  <1>3. \A k : CallObj(k)' = CallObj(k) /\ CallMsg(k)' = CallMsg(k) /\ CallStart(k)' = CallStart(k)
    BY <1>1 DEF CallObj, CallMsg, CallStart
  <1>4. /\ CallObj(Calls)' = CallObj(Calls) /\ CallMsg(Calls)' = CallMsg(Calls)
        /\ CallStart(Calls)' = CallStart(Calls)
    BY <1>1, <1>2 DEF CallObj, CallMsg, CallStart
  <1>5. WalkInv => WalkInv'
    BY <1>1, <1>2, <1>3 DEF WalkInv, FrameWalks
  <1>6. TypesInv => TypesInv'
    BY <1>1, <1>4 DEF TypesInv
  <1>7. SizeInv => SizeInv'
    BY <1>1, <1>2, <1>3, <1>4 DEF SizeInv, PackedInRun, Nested, FrameFits
  <1>8. BytesInv => BytesInv'
    BY <1>1, <1>3, <1>4 DEF BytesInv, FrameHolds
  <1>9. StringIsBytes' /\ SizeSuffices' /\ EncodesRecord'
    BY <1>1 DEF EncoderInv, StringIsBytes, SizeSuffices, EncodesRecord
  <1>10. QED
    BY <1>1, <1>5, <1>6, <1>7, <1>8, <1>9 DEF EncoderInv

LEMMA RunInvInit == Init => RunInv
  <1> SUFFICES ASSUME Init PROVE RunInv
    OBVIOUS
  <1>1. EncoderInv /\ StreamInv
    BY EncoderInitInv, StreamInvInit DEF Init
  <1>2. todo \in Seq(Object) /\ ret = << >> /\ reader = "reading"
    BY BatchAssumption DEF Init, EncoderInit, BatchAssumption
  <1>3. Len(<< >>) = 0
    OBVIOUS
  <1>4. QED
    BY <1>1, <1>2, <1>3 DEF RunInv

LEMMA RunInvNext == RunInv /\ [Next]_vars => RunInv'
  <1> SUFFICES ASSUME RunInv, [Next]_vars PROVE RunInv'
    OBVIOUS
  <1>1. EncoderInv /\ StreamInv /\ todo \in Seq(Object) /\ Len(ret) <= 1
        /\ reader \in {"reading", "eof", "undefined"}
    BY DEF RunInv
  <1>2. StreamInv'
    BY <1>1, StreamInvNext DEF EncoderInv
  <1>3. reader' \in {"reading", "eof", "undefined"}
    <2>1. reader' = reader \/ ReadLength \/ ReadRaw
      BY DEF Next, Writer, BeginWrite, Encoding, WriteRaises, WriteLength, WriteRaw, CloseStream,
             WriterDies, Reader, streamVars, vars
    <2>2. QED
      BY <1>1, <2>1 DEF ReadLength, ReadRaw
  <1>4. CASE BeginWrite
    <2>1. todo # << >> /\ Encode(Head(todo)) /\ todo' = Tail(todo)
      BY <1>4 DEF BeginWrite
    <2>2. PICK d \in Object : d = Head(todo)
      BY <1>1, <2>1
    <2>3. todo' \in Seq(Object)
      BY <1>1, <2>1
    <2>4. EncoderInv'
      BY <2>1, <2>2, EncoderStart
    <2>5. ret' = << >> /\ Len(<< >>) = 0
      BY <2>1 DEF Encode
    <2>6. QED
      BY <1>2, <1>3, <2>3, <2>4, <2>5 DEF RunInv
  <1>5. CASE Encoding
    <2>1. EncoderStep /\ todo' = todo
      BY <1>5 DEF Encoding, streamVars
    <2>2. EncoderInv' /\ Len(ret') <= 1
      BY <1>1, <2>1, EncoderNext, ReturnsOne
    <2>3. QED
      BY <1>1, <1>2, <1>3, <2>1, <2>2 DEF RunInv
  <1>6. CASE WriteRaises \/ WriteLength \/ WriteRaw \/ CloseStream \/ WriterDies
    <2>1. /\ status' \in {"idle", "writing", "closed", "dead"}
          /\ dict' = dict /\ packed' = packed /\ raised' = raised /\ ret' = ret
          /\ string' \in {string, << >>} /\ todo' = todo
      BY <1>6 DEF WriteRaises, WriteLength, WriteRaw, CloseStream, WriterDies, Goes, streamVars
    <2>2. EncoderInv'
      BY <1>1, <2>1, EncoderRests
    <2>3. QED
      BY <1>1, <1>2, <1>3, <2>1, <2>2 DEF RunInv
  <1>7. CASE Reader \/ UNCHANGED vars
    <2>1. UNCHANGED encoderVars /\ todo' = todo
      BY <1>7 DEF Reader, ReadLength, ReadRaw, vars, streamVars
    <2>2. EncoderInv' /\ ret' = ret
      BY <1>1, <2>1, EncoderUnchanged DEF encoderVars
    <2>3. QED
      BY <1>1, <1>2, <1>3, <2>1, <2>2 DEF RunInv
  <1>8. QED
    BY <1>4, <1>5, <1>6, <1>7 DEF Next, Writer

LEMMA RunInvTypes == RunInv => TypeOK
  <1> SUFFICES ASSUME RunInv PROVE TypeOK
    OBVIOUS
  <1>1. EncoderInv /\ StreamInv /\ Len(ret) <= 1
    BY DEF RunInv
  <1>2. status \in {"idle", "encoding", "encoded", "writing"} \/ WriterGone
    BY <1>1 DEF StreamInv, Statuses, WriterGone
  <1>3. ASSUME NEW q, NEW x, q = << >> \/ q = << x >> PROVE Len(q) <= 1
    <2>1. Len(<< >>) = 0 /\ Len(<< x >>) = 1
      OBVIOUS
    <2>2. PICK n : n = Len(q)
      OBVIOUS
    <2>3. n = 0 \/ n = 1
      BY <1>3, <2>1, <2>2, Zenon
    <2>4. n <= 1
      BY <2>3
    <2>5. QED
      BY <2>2, <2>4, Zenon
  <1>4. Len(string) <= 1
    <2>1. string = << >> \/ string = << string[1] >>
      BY <1>1 DEF StreamInv
    <2>2. QED
      BY <1>3, <2>1
  <1>5. Len(current) <= 1
    <2>1. CASE Ended
      <3>1. current = << >> \/ current = << 0 >>
        BY <2>1 DEF Ended
      <3>2. QED
        BY <1>3, <3>1
    <2>2. CASE OnTheWay
      <3>1. PICK all, cut : Aligned(all, cut)
        BY <2>2 DEF OnTheWay
      <3>2. PICK x : x = Len(written[Len(records) + 1])
        OBVIOUS
      <3>3. current = << >> \/ current = << x >>
        BY <3>1, <3>2 DEF Aligned
      <3>4. QED
        BY <1>3, <3>3
    <2>3. QED
      BY <1>1, <2>1, <2>2 DEF StreamInv
  <1>6. reader \in {"reading", "eof", "undefined"}
    BY DEF RunInv
  <1>7. status = "encoding" /\ WellTyped[dict][RootMsg] =>
           \A k \in DOMAIN frames :
              LET fr == frames[k]
                  ps == {fr.buf} \cup IF fr.j > 0 THEN {fr.fieldbuf, fr.valuebuf} ELSE {}
              IN  ps \subseteq IF pass = 0 THEN {NULL} ELSE 0..Len(mem)
    <2> SUFFICES ASSUME status = "encoding", WellTyped[dict][RootMsg], NEW k \in DOMAIN frames
                 PROVE  LET fr == frames[k]
                            ps == {fr.buf} \cup IF fr.j > 0 THEN {fr.fieldbuf, fr.valuebuf} ELSE {}
                        IN  ps \subseteq IF pass = 0 THEN {NULL} ELSE 0..Len(mem)
      OBVIOUS
    <2>1. WalkInv /\ SizeInv
      BY <1>1 DEF EncoderInv
    <2>2. PointersInside
      BY <2>1, PointersFacts
    <2>3. frames \in Seq(FrameType)
      BY <2>1 DEF WalkInv
    <2>4. DOMAIN frames = 1..Len(frames)
      <3> HIDE DEF FrameType
      <3>1. QED
        BY <2>3
    <2>5. QED
      BY <2>2, <2>4 DEF PointersInside
  <1>8. QED
    BY <1>1, <1>2, <1>4, <1>5, <1>6, <1>7 DEF TypeOK, EncoderInv

\* Encoder_encode and stream.py: every variable keeps its type, a string that
\* is returned is a sequence of bytes, and while pyobject_encode runs on a
\* record of the right types, no pointer of any of its calls leaves the buffer.
THEOREM StreamTypes == Spec => []TypeOK
  <1>1. QED
    BY RunInvInit, RunInvNext, RunInvTypes, PTL DEF Spec

\* Encoder_encode: the buffer allocated after pass 0 is large enough for pass 1,
\* for every record whose values have the right types, however it is nested: no
\* call overflows it, and if there is memory for it, encode returns a string.
THEOREM BufferSuffices == Spec => []SizeSuffices
  <1>1. RunInv => SizeSuffices
    BY DEF RunInv, EncoderInv
  <1>2. QED
    BY <1>1, RunInvInit, RunInvNext, PTL DEF Spec

\* Encoder_encode: what it returns is the encoding of the record, though nested
\* messages and packed runs are written elsewhere and moved; a record with a
\* value of a wrong type, at any level, gets none.
THEOREM EncodingRight == Spec => []EncodesRecord
  <1>1. RunInv => EncodesRecord
    BY DEF RunInv, EncoderInv
  <1>2. QED
    BY <1>1, RunInvInit, RunInvNext, PTL DEF Spec

\* StreamWriter.write and StreamReader.read: the reader gets the records in
\* order and unchanged, and only the last may be cut short, by the writer's
\* death; for any records and any split of the bytes.
THEOREM RecordsArrive == Spec => []ReadsWritten
  <1>1. StreamInv => ReadsWritten
    <2>1. ASSUME StreamInv PROVE DOMAIN records = 1..Len(records)
      BY <2>1, SeqFacts DEF StreamInv
    <2>2. QED
      BY <2>1 DEF StreamInv, ReadsWritten, Ended
  <1>2. RunInv => ReadsWritten
    BY <1>1 DEF RunInv
  <1>3. QED
    BY <1>2, RunInvInit, RunInvNext, PTL DEF Spec
=============================================================================
