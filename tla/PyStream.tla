------------------------------ MODULE PyStream ------------------------------
(***************************************************************************)
(* Streams of records (python/lwpb/stream.py): a StreamWriter encodes each *)
(* record with PyEncoder and writes its length, in 4 bytes, and then its   *)
(* bytes; a StreamReader at the other end of the pipe reads them back.     *)
(*                                                                         *)
(* What is written goes through the buffer of a Python file, any part of   *)
(* which may reach the pipe with a write and all of which does at close.   *)
(* The writer may die at any time, and what it had buffered is lost.  A    *)
(* read waits until it has all it asks for, or the writer is gone.         *)
(***************************************************************************)
EXTENDS PyRecord, SequencesExt

CONSTANTS
    Batch         \* the sequences of records an application writes

ASSUME BatchAssumption == Batch \subseteq Seq(Object)

VARIABLES
    (* the writer *)
    todo,         \* the records it has not begun to write
    buffered,     \* written, still in the file's buffer
    (* the pipe *)
    pipe,         \* bytes on the way
    (* the reader *)
    reader,       \* "reading", "eof" when eof is set, or "undefined"
    current,      \* current_length, between the two reads of a record
    (* history *)
    written,      \* the strings handed to write_raw, in order
    records       \* what read has decoded, and how it came out: [raw, as]

streamVars == <<todo, buffered, pipe, reader, current, written, records>>
vars == <<encoderVars, streamVars>>

LengthBytes(n) == [i \in 1..4 |-> <<"length", n, i>>]

Init ==
    /\ EncoderInit
    /\ todo \in Batch
    /\ buffered = << >> /\ pipe = << >>
    /\ reader = "reading" /\ current = << >>
    /\ written = << >> /\ records = << >>

-----------------------------------------------------------------------------
(* The writer.                                                             *)

\* The process is at its end: it has closed the stream, or it has crashed.
WriterGone == status \in {"closed", "dead", "undefined", "overflow", "aborted"}

\* StreamWriter.write: first of all, encode the record.
BeginWrite ==
    /\ todo # << >>
    /\ Encode(Head(todo))
    /\ todo' = Tail(todo)
    /\ UNCHANGED <<buffered, pipe, reader, current, written, records>>

\* stream.write: some of what is buffered may get into the pipe.
FileWrite(bytes) ==
    LET all == buffered \o bytes
    IN  \E n \in 0..Len(all) : /\ pipe' = pipe \o SubSeq(all, 1, n)
                               /\ buffered' = SubSeq(all, n + 1, Len(all))

Goes(to) == /\ status' = to
            /\ UNCHANGED <<dict, pass, mem, packed, frames, ret, raised>>

\* encode raised an exception: nothing of the record is written.
WriteRaises ==
    /\ status = "encoded" /\ string = << >>
    /\ Goes("idle")
    /\ UNCHANGED <<string, streamVars>>

\* Mutant: the length that is written counts itself.
WriteLengthOfAll ==
    /\ status = "encoded" /\ string # << >>
    /\ Goes("writing")
    /\ FileWrite(LengthBytes(Len(string[1]) + 4))
    /\ written' = Append(written, string[1])
    /\ UNCHANGED <<string, todo, reader, current, records>>

WriteLength ==
    /\ status = "encoded" /\ string # << >>
    /\ Goes("writing")
    /\ FileWrite(LengthBytes(Len(string[1])))
    /\ written' = Append(written, string[1])
    /\ UNCHANGED <<string, todo, reader, current, records>>

WriteRaw ==
    /\ status = "writing"
    /\ Goes("idle")
    /\ FileWrite(string[1])
    /\ string' = << >>
    /\ UNCHANGED <<todo, reader, current, written, records>>

CloseStream ==
    /\ status = "idle" /\ todo = << >>
    /\ Goes("closed")
    /\ pipe' = pipe \o buffered
    /\ buffered' = << >>
    /\ UNCHANGED <<string, todo, reader, current, written, records>>

WriterDies ==
    /\ ~WriterGone
    /\ Goes("dead")
    /\ UNCHANGED <<string, streamVars>>

-----------------------------------------------------------------------------
(* The reader.                                                             *)

\* f.read(n) may return: with n bytes, or with fewer at the end.
CanRead(n) == Len(pipe) >= n \/ WriterGone
Got(n) == SubSeq(pipe, 1, IF n <= Len(pipe) THEN n ELSE Len(pipe))
Rest(n) == SubSeq(pipe, n + 1, Len(pipe))

\* The number decode_32bit makes of four bytes, if they are those of a length.
LengthIn(four) ==
    IF four[1][1] = "length" /\ four = LengthBytes(four[1][2]) THEN four[1][2] ELSE 0

\* read_raw, first half: decode_32bit gives None for fewer than 4 bytes.
ReadLength ==
    /\ reader = "reading" /\ current = << >> /\ CanRead(4)
    /\ pipe' = Rest(4)
    /\ \/ Len(pipe) < 4 /\ reader' = "eof" /\ UNCHANGED current
       \/ /\ Len(pipe) >= 4
          /\ current' = << LengthIn(Got(4)) >>
          /\ UNCHANGED reader
    /\ UNCHANGED <<encoderVars, todo, buffered, written, records>>

\* A record that was read whole is decoded.  Of one that was cut short, decode
\* makes a record of its first fields when the cut lies between two fields,
\* or None, which __iter__ passes over; behind a key it reads out of bounds.
Decoded(raw, len) == IF Len(raw) = len THEN {"whole"} ELSE {"part", "None", "undefined"}

\* Mutant: no bytes are taken for the end of the stream.
ReadRawEmptyEnds ==
    /\ current # << >> /\ CanRead(current[1])
    /\ pipe' = Rest(current[1])
    /\ current' = << >>
    /\ \/ Got(current[1]) = << >> /\ reader' = "eof" /\ UNCHANGED records
       \/ /\ Got(current[1]) # << >>
          /\ \E as \in Decoded(Got(current[1]), current[1]) :
                /\ records' = Append(records, [raw |-> Got(current[1]), as |-> as])
                /\ reader' = IF as = "undefined" THEN as ELSE reader
    /\ UNCHANGED <<encoderVars, todo, buffered, written>>

\* read_raw, second half, and the decode in read.
ReadRaw ==
    /\ current # << >> /\ CanRead(current[1])
    /\ pipe' = Rest(current[1])
    /\ current' = << >>
    /\ \E as \in Decoded(Got(current[1]), current[1]) :
          /\ records' = Append(records, [raw |-> Got(current[1]), as |-> as])
          /\ reader' = IF as = "undefined" THEN as ELSE reader
    /\ UNCHANGED <<encoderVars, todo, buffered, written>>

-----------------------------------------------------------------------------

Encoding == EncoderStep /\ UNCHANGED streamVars
Writer == BeginWrite \/ Encoding \/ WriteRaises \/ WriteLength \/ WriteRaw \/ CloseStream
Reader == ReadLength \/ ReadRaw

Next == Writer \/ WriterDies \/ Reader

\* Both processes run; nothing makes the writer die.
Spec == Init /\ [][Next]_vars /\ WF_vars(Writer) /\ WF_vars(Reader)

-----------------------------------------------------------------------------
(* Properties.                                                             *)

\* Every variable has its type; pass 0 has no buffer, pass 1 has one, and for
\* a record of the right types every pointer into it is inside.
TypeOK ==
    /\ status \in {"idle", "encoding", "encoded", "writing"} \/ WriterGone
    /\ reader \in {"reading", "eof", "undefined"}
    /\ packed \in BOOLEAN /\ raised \in BOOLEAN
    /\ Len(ret) <= 1 /\ Len(string) <= 1 /\ Len(current) <= 1
    /\ StringIsBytes
    /\ status = "encoding" /\ WellTyped[dict][RootMsg] =>
          \A k \in DOMAIN frames :
             LET fr == frames[k]
                 ps == {fr.buf} \cup IF fr.j > 0 THEN {fr.fieldbuf, fr.valuebuf} ELSE {}
             IN  ps \subseteq IF pass = 0 THEN {NULL} ELSE 0..Len(mem)

\* The reader gets the records in order and unchanged.  Only the last one may
\* be cut short, and only when the writer did not close the stream.
ReadsWritten ==
    /\ Len(records) <= Len(written)
    /\ \A k \in DOMAIN records :
          \/ records[k].as = "whole" /\ records[k].raw = written[k]
          \/ /\ IsStrictPrefix(records[k].raw, written[k])
             /\ k = Len(records) /\ status # "closed" /\ WriterGone

-----------------------------------------------------------------------------
(* The invariant ReadsWritten follows from: the bytes on the way are those *)
(* of the records that have not been read.                                 *)

\* A record as it is in the stream.
Framed(raw) == LengthBytes(Len(raw)) \o raw

\* What all is, pipe and file buffer and what will be or would have been
\* written to them: the records not read yet, the k-th of which ends at cut[k].
\* Between the two reads of a record its length is gone already.
Aligned(all, cut) ==
    LET r == Len(records)
        n == Len(written)
    IN  /\ r <= n
        /\ current # << >> => r < n /\ current = << Len(written[r + 1]) >>
        /\ cut[r] = IF current = << >> THEN 0 ELSE -4
        /\ cut[n] = Len(all)
        /\ \A j, k \in r..n : j <= k => cut[j] <= cut[k]
        /\ \A k \in (r + 1)..n :
              /\ cut[k] = cut[k - 1] + 4 + Len(written[k])
              /\ \A i \in 1..(4 + Len(written[k])) :
                    cut[k - 1] + i >= 1 => all[cut[k - 1] + i] = Framed(written[k])[i]

\* The body of a record whose length is written, while it is not.
ToFollow(lost) ==
    /\ status = "writing" => lost = string[1]
    /\ status \in {"idle", "encoding", "encoded", "closed"} => lost = << >>

OnTheWay ==
    \E lost \in {<< >>} \cup {string[i] : i \in DOMAIN string} :
       LET all == pipe \o buffered \o lost
       IN  /\ ToFollow(lost)
           /\ \E cut \in [Len(records)..Len(written) -> -4..Len(all)] : Aligned(all, cut)

\* A read got less than it asked for: nothing comes any more.
Ended == WriterGone /\ pipe = << >> /\ current = << >>

Statuses == {"idle", "encoding", "encoded", "writing", "closed", "dead",
             "undefined", "overflow", "aborted"}

StreamInv ==
    /\ IsSeq(pipe) /\ IsSeq(buffered) /\ IsSeq(records) /\ IsSeq(written)
    /\ \A k \in 1..Len(written) : IsSeq(written[k])
    /\ status \in Statuses
    /\ string = << >> \/ string = << string[1] >>
    /\ status = "writing" => string # << >>
    /\ status = "closed" => buffered = << >>
    /\ Len(records) <= Len(written)
    /\ \A k \in 1..Len(records) :
          \/ records[k].as = "whole" /\ records[k].raw = written[k]
          \/ /\ IsStrictPrefix(records[k].raw, written[k])
             /\ k = Len(records) /\ status # "closed" /\ Ended
    /\ Ended \/ OnTheWay
=============================================================================
