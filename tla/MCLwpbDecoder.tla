---------------------------- MODULE MCLwpbDecoder ----------------------------
(***************************************************************************)
(* Instances of LwpbDecoder for TLC.  The reader knows                     *)
(*   message R { int32 v = 1; string s = 2;                                *)
(*               repeated int32 p = 3 [packed]; C c = 4; bytes z = 7; }    *)
(*   message C { fixed32 w = 1; C d = 2; }                                 *)
(* A writer may write p unpacked (u = 3), and one with a newer schema also *)
(*   int32 x = 5;  C y = 6;                                                *)
(* An input is a whole message (a tree of the fields in it), cut to a      *)
(* prefix of its bytes.  For the Python handlers p, u and c are repeated.  *)
(* For the struct decoder they are struct { char s[2]; int v; struct C c[2]*)
(* with one d in it; int p[2]; char z[2]; }, and the d has no d again.     *)
(***************************************************************************)
EXTENDS DecoderClients, SequencesExt, FiniteSetsExt

CONSTANTS v, s, z, p, c, w, d, u, x, y, R, C, RS, CS, DS

MCTyp == v :> "varint" @@ s :> "string" @@ z :> "string" @@ p :> "varint" @@ c :> "message"
         @@ w :> "fixed" @@ d :> "message" @@ u :> "varint" @@ x :> "varint"
         @@ y :> "message"
MCPacked == [f \in Field |-> f = p]
MCSubMsg == [f \in Field |-> IF f \in {c, d, y} THEN C ELSE NoMsg]
MCFieldsOf == R :> {v, s, z, p, c} @@ C :> {w, d}
MCNumber == v :> 1 @@ s :> 2 @@ p :> 3 @@ u :> 3 @@ c :> 4 @@ w :> 1 @@ d :> 2
            @@ x :> 5 @@ y :> 6 @@ z :> 7
MCKeyLen == [f \in Field |-> IF f = c THEN 2 ELSE 1]
MCValueLens == [f \in Field |-> {}]
MCRepeated == {p, u, c}
MCBytesField == {z}

Place(ofs, len, count, name) == [ofs |-> ofs, len |-> len, count |-> count, map |-> name]
MCStructMap ==
    RS :> [msg |-> R, size |-> 11,
           fields |-> s :> Place(0, 2, 1, NoMap) @@ v :> Place(2, 1, 1, NoMap)
                      @@ c :> Place(3, 2, 2, CS) @@ p :> Place(7, 1, 2, NoMap)
                      @@ z :> Place(9, 2, 1, NoMap)]
    @@ CS :> [msg |-> C, size |-> 2,
              fields |-> w :> Place(0, 1, 1, NoMap) @@ d :> Place(1, 1, 1, DS)]
    @@ DS :> [msg |-> C, size |-> 1, fields |-> w :> Place(0, 1, 1, NoMap)]

-----------------------------------------------------------------------------
(* Messages as trees: [f, as, n, sub], the n bytes of a value or what is   *)
(* in a run or a message.                                                  *)

One(f, n)    == [f |-> f, as |-> "value", n |-> n, sub |-> << >>]
Run(f, ns)   == [f |-> f, as |-> "run", n |-> 0, sub |-> [i \in DOMAIN ns |-> One(f, ns[i])]]
Nested(f, t) == [f |-> f, as |-> "message", n |-> 0, sub |-> t]

UpTo(k, S) == UNION {[1..n -> S] : n \in 0..k}

Trees0 == UpTo(1, {One(w, 2)})
Trees1 == UpTo(1, {One(w, 2)} \cup {Nested(d, t) : t \in Trees0})
          \cup {<< One(w, 2), Nested(d, << >>) >>, << Nested(d, << One(w, 2) >>), One(w, 2) >>,
                << Nested(d, << One(w, 2) >>), Nested(d, << >>) >>,
                << Nested(d, << One(w, 2) >>), One(w, 2), Nested(d, << >>) >>}
Known  == {One(v, 1), One(v, 2), One(s, 0), One(s, 1), One(z, 3), One(u, 1)}
          \cup {Run(p, ns) : ns \in {<< >>, <<1>>, <<2, 1>>}}
          \cup {Nested(c, t) : t \in Trees1}
          \cup {Nested(c, << Nested(d, << Nested(d, << Nested(d, << >>) >>) >>) >>)}
Unknown == {One(x, 1), Nested(y, << One(w, 2) >>)}

\* The last of them: unknown fields behind a field of the reader's schema.
Late == {<<o>> \o t : o \in {One(v, 1), One(s, 2), Run(p, <<1>>), Nested(c, << >>)},
                      t \in [{1} -> Unknown]}
        \cup {<< Nested(c, t) >> : t \in [{1} -> Unknown]}

\* A field that is not repeated comes again behind another one.
Again == {<< One(v, 1), One(s, 2), One(v, 2) >>, << One(s, 2), One(z, 1), One(s, 0) >>,
          << One(z, 3), One(s, 0), One(z, 1) >>}

Messages == UpTo(2, Known) \cup {<<o>> \o t : o \in Unknown, t \in UpTo(1, Known)}
            \cup {[k \in 1..3 |-> One(u, 1)]} \cup Again \cup Late

RECURSIVE Encoded(_, _)
Encoded(t, raw) ==
    IF t = << >> THEN << >>
    ELSE LET o == Head(t)
             inner == Encoded(o.sub, o.as = "run")
         IN  (IF o.as = "value"
              THEN Header(o.f, o.n, raw)
                   \o SubSeq(ValueBytes(o.f, o.n), 1, BodyLen(o.f, o.n, raw))
              ELSE Header(o.f, Len(inner), FALSE) \o inner)
             \o Encoded(Tail(t), raw)

-----------------------------------------------------------------------------
(* The calls a reader of the whole message expects.  Which message a       *)
(* nested message's field is said to be in is left open (NoMsg) here.      *)

Field_(m, f, bytes) ==
    FieldEvent(IF Typ[f] = "message" THEN NoMsg ELSE m, f, bytes)

RECURSIVE CallsIn(_, _)
Calls(t, m, pk) == << StartEvent(m, pk) >> \o CallsIn(t, m) \o << EndEvent(m, pk) >>
CallsIn(t, m) ==
    IF t = << >> THEN << >>
    ELSE LET o == Head(t)
             f == Lookup(m, o.f)
         IN  (CASE f = NoField      -> << >>
                [] f # NoField /\ o.as = "value"
                   -> << Field_(m, f, ValueBytes(o.f, o.n)) >>
                [] f # NoField /\ o.as = "run" -> Calls(o.sub, m, TRUE)
                [] f # NoField /\ o.as = "message"
                   -> << Field_(m, f, << >>) >> \o Calls(o.sub, SubMsg[f], FALSE))
             \o CallsIn(Tail(t), m)

\* An input: the bytes, what they are a prefix of, and, when they were cut
\* between two fields of the root message, the fields before the cut (read).
MCInput ==
    UNION {LET bytes == Encoded(t, FALSE)
               calls == Calls(t, RootMsg, FALSE)
               end   == [k \in 0..Len(t) |-> Len(Encoded(SubSeq(t, 1, k), FALSE))]
               at(n) == {k \in 0..Len(t) : end[k] = n}
           IN  {[data |-> SubSeq(bytes, 1, n), whole |-> n = Len(bytes),
                 between |-> at(n) # {}, expected |-> calls, late |-> t \in Late,
                 tree |-> t, read |-> {SubSeq(t, 1, k) : k \in at(n)}] :
                   n \in 0..Len(bytes)} :
               t \in Messages}

-----------------------------------------------------------------------------
(* What the Python and the struct decoder should make of a message.        *)

\* The dict of the fields t of message m, in addition to those of dict old.
RECURSIVE DictOf(_, _, _)
DictOf(t, m, old) ==
    IF t = << >> THEN old
    ELSE LET o   == Last(t)
             f   == Lookup(m, o.f)
             had == DictOf(Front(t), m, old)
             before == IF f \in DOMAIN had THEN had[f] ELSE << >>
             items ==
                CASE o.as = "value" -> << ValueBytes(o.f, o.n) >>
                  [] o.as = "run" -> [i \in DOMAIN o.sub |-> ValueBytes(o.sub[i].f, o.sub[i].n)]
                  [] o.as = "message" ->
                        << DictOf(o.sub, SubMsg[f], IF f \in Repeated \/ before = << >>
                                                    THEN << >> ELSE before[1]) >>
             after == IF f \in Repeated THEN before \o items ELSE items
         IN  IF f = NoField \/ after = << >> THEN had ELSE f :> after @@ had

RECURSIVE Resolved(_)
Resolved(i) ==
    [f \in {g \in Field : heap[i][g] # << >>} |->
        [k \in DOMAIN heap[i][f] |->
            LET item == heap[i][f][k]
            IN  IF item.dict = 0 THEN item.bytes ELSE Resolved(item.dict)]]

\* A struct map can hold t, which has no packed runs: every field has a place;
\* where that is for several items, they come one after another and are not too
\* many; where it is for one, the next comes only behind another field.
RECURSIVE Holds(_, _)
Holds(name, t) ==
    LET map   == StructMap[name]
        known == SelectSeq(t, LAMBDA o : Lookup(map.msg, o.f) # NoField)
        F(k)  == Lookup(map.msg, known[k].f)
        Same(k) == {j \in DOMAIN known : F(j) = F(k)}
    IN  \A k \in DOMAIN known :
            /\ F(k) \in DOMAIN map.fields /\ known[k].as # "run"
            /\ IF map.fields[F(k)].count = 1
               THEN k + 1 \notin Same(k)
               ELSE /\ Cardinality(Same(k)) <= map.fields[F(k)].count
                    /\ Same(k) = Min(Same(k))..Max(Same(k))
            /\ Typ[F(k)] = "message" => Holds(map.fields[F(k)].map, known[k].sub)

\* The part t of the input ends with a text that leaves room in its cells.
ShortTextLast(t) ==
    t # << >> /\ Last(t).f = s /\ Last(t).n < StructMap[RootMap].fields[s].len

\* The struct for t, laid out by a map from base on.
RECURSIVE LaidOut(_, _, _, _)
LaidOut(t, name, base, cells) ==
    IF t = << >> THEN cells
    ELSE LET o     == Last(t)
             f     == Lookup(StructMap[name].msg, o.f)
             place == StructMap[name].fields[f]
             nth   == IF place.count = 1 THEN 0
                      ELSE Len(SelectSeq(Front(t), LAMBDA q : q.f = o.f))
             from  == base + place.ofs + place.len * nth
             had   == LaidOut(Front(t), name, base, cells)
             value == ValueBytes(o.f, o.n)
             text  == SubSeq(value, 1, Min({o.n, place.len - 1})) \o << <<"null">> >>
             item  == CASE f = s -> text
                        [] f = z -> SubSeq(value, 1, Min({o.n, place.len}))
                        [] OTHER -> << <<"number">> \o value >>
         IN  IF f = NoField THEN had
             ELSE IF o.as = "message" THEN LaidOut(o.sub, place.map, from, had)
             ELSE [k \in DOMAIN had |-> IF k - from \in DOMAIN item
                                         THEN item[k - from] ELSE had[k]]

-----------------------------------------------------------------------------

Loose(es) == [i \in DOMAIN es |->
                IF es[i].call = "field" /\ Typ[es[i].field] = "message"
                THEN [es[i] EXCEPT !.msg = NoMsg] ELSE es[i]]

\* A whole message is decoded into the calls of its fields in order, nested
\* messages and packed runs bracketed, unless it is nested too deeply.
DeliversMessage ==
    in.whole /\ ~in.late =>
        /\ status \in {"running", "OK", "aborted"}
        /\ status = "OK" => Loose(events) = in.expected

\* What is delivered of a message that is cut short, or before the nesting
\* becomes too deep, is how the whole message begins; and it is only reported
\* as decoded when it was cut between two fields of the root message.
DeliversPrefix ==
    LET got == IF status = "OK" THEN SubSeq(events, 1, Len(events) - 1) ELSE events
    IN  ~in.late =>
        /\ IsPrefix(Loose(got), in.expected)
        /\ status = "OK" => in.between

\* decode returns, or aborts: every turn of its loops makes progress.
Terminates == <>(status # "running" \/ outcome # "fine")

\* What Decoder.decode returns is the dict of the message: repeated fields are
\* collected, packed or not, the last value of another field counts, and the
\* parts of a nested message that comes in pieces are put together.
PyReturnsMessage ==
    client = "python" /\ ~Waiting /\ status = "OK" /\ ~in.late =>
        in.read = {} \/ \E t \in in.read : Resolved(1) = DictOf(t, RootMsg, << >>)

\* sdecoder's handlers: a message without packed runs that the struct map can
\* hold is laid out in the struct, every item of every repeated and nested field
\* at its place, the last value of another field at its own; and it ends no
\* process, unless a text with room left in its cells ends the data.
StructIsMessage ==
    /\ client = "struct" /\ ~in.late
    /\ outcome # "fine" \/ (status = "OK" /\ ~Waiting)
    /\ Holds(RootMap, in.tree)
    =>  IF outcome = "fine"
        THEN \A t \in in.read :
                struct = LaidOut(t, RootMap, 0, [k \in DOMAIN struct |-> Junk])
        ELSE outcome = "undefined" /\ \E t \in in.read : ShortTextLast(t)

\* "Skip unknown fields" (decoder.c:410): a handler never gets, as a field it
\* knows, a value that was written under another number.
UnknownFieldsSkipped ==
    \A i \in DOMAIN events :
        LET e == events[i]
        IN  e.call = "field" =>
                \A j \in DOMAIN e.value :
                    e.value[j][1] = "val" => Number[e.value[j][2]] = Number[e.field]

\* "Message descriptor of the message containing the field" (decoder.h:52).
FieldInItsMessage ==
    \A i \in DOMAIN events :
        events[i].call = "field" => events[i].field \in FieldsOf[events[i].msg]

\* "LWPB_ERR_END_OF_BUF if there were not enough bytes" (decoder.c:151).
ShortDataReported == ~in.late => status # "undefined"
=============================================================================
