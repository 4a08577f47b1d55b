---------------------------- MODULE StructDecoder ----------------------------
(***************************************************************************)
(* utils/struct_decoder.c: the handlers with which the struct decoder puts *)
(* the message that LwpbDecoder walks over into a C struct, as a struct    *)
(* map says.  A number takes one cell of the struct, a text and bytes one  *)
(* a byte.                                                                 *)
(***************************************************************************)
EXTENDS LwpbDecoder

CONSTANTS
    StructMap,    \* the struct maps: [msg, size, fields], see the assumption
    RootMap,      \* the map the application decodes with
    NoMap,        \* no map: the field is not a message
    BytesField    \* the strings that are of type bytes; the others are texts

ASSUME BytesAssumption == BytesField \subseteq {f \in Field : Typ[f] = "string"}

\* A map's field says where the field is, how many cells long one item is, how
\* many items there are, and for a message by which map it is laid out.
ASSUME MapAssumption ==
    /\ NoMap \notin DOMAIN StructMap
    /\ RootMap \in DOMAIN StructMap /\ StructMap[RootMap].msg = RootMsg
    /\ \A name \in DOMAIN StructMap :
          LET map == StructMap[name]
          IN  /\ map.msg \in Msg /\ map.size \in Nat
              /\ DOMAIN map.fields \subseteq FieldsOf[map.msg]
              /\ \A f \in DOMAIN map.fields :
                    LET at == map.fields[f]
                    IN  /\ at.ofs \in Nat /\ at.len \in Nat \ {0} /\ at.count \in Nat
                        /\ at.ofs + at.len * at.count <= map.size
                        /\ Typ[f] \in {"varint", "fixed"} => at.len = 1
                        /\ IF Typ[f] = "message"
                           THEN /\ at.map \in DOMAIN StructMap
                                /\ StructMap[at.map].msg = SubMsg[f]
                                /\ StructMap[at.map].size = at.len
                           ELSE at.map = NoMap

VARIABLES
    struct,       \* the cells of the struct
    sdepth,       \* sdecoder->depth, counted from 0 instead of -1
    sframes       \* sdecoder->stack

structVars == <<struct, sdepth, sframes>>

SFrame(map, base) == [map |-> map, base |-> base, last |-> NoField, index |-> 0]

\* lwpb_struct_decoder_decode.
StructInit ==
    /\ struct = [k \in 1..StructMap[RootMap].size |-> Junk]
    /\ sdepth = 0
    /\ sframes = << SFrame(RootMap, 0) >>

STop == sframes[sdepth]
Mapped(f) == f \in DOMAIN StructMap[STop.map].fields
At(f) == StructMap[STop.map].fields[f]

\* What fits the cells of one item of f.
CutOff(f, bytes) == SubSeq(bytes, 1, IF At(f).len < Len(bytes) THEN At(f).len ELSE Len(bytes))

\* The cells of one item: a number; bytes; or a text, copied with the byte
\* behind it, of which the last one is then the null byte.
Unpacked(f, bytes) ==
    IF Typ[f] # "string" THEN << <<"number">> \o bytes >>
    ELSE IF f \in BytesField THEN CutOff(f, bytes)
    ELSE LET copied == CutOff(f, Append(bytes, Junk))
         IN  [copied EXCEPT ![Len(copied)] = <<"null">>]

\* Mutant: the index is never reset.
IndexOnly(f) == STop.index

\* The index counts the items of a field as long as no other field comes.
Index(f) == IF STop.last = f THEN STop.index ELSE 0

\* FIELD_BASE: the next item of f is behind this cell.
FieldBase(f) == STop.base + At(f).ofs + At(f).len * Index(f)

\* A number, bytes or a text that would lie outside of the struct.
OutOfStruct(f, bytes) ==
    /\ Typ[f] # "message"
    /\ \E k \in DOMAIN Unpacked(f, bytes) : FieldBase(f) + k > Len(struct)

\* Not all that is copied is data: the byte behind a text that ends the data
\* and does not fill its cells, or what a stale pointer points to.
CopiesBeyond(f, bytes) ==
    /\ Typ[f] = "string"
    /\ \/ bytes = << Junk >>
       \/ f \notin BytesField /\ Len(bytes) < At(f).len /\ stack[depth].buf.pos >= Len(in.data)

\* unpack_field.  How many items there is room for is not looked at.
Unpack(f, bytes) ==
    LET i     == Index(f)
        from  == FieldBase(f)
        cells == Unpacked(f, bytes)
        moved == [sframes EXCEPT ![sdepth].last = f, ![sdepth].index = i + 1]
    IN  \/ /\ Typ[f] = "message"
           /\ sframes' = [sframes EXCEPT ![sdepth].last = f, ![sdepth].index = i]
           /\ UNCHANGED <<struct, sdepth>>
        \/ /\ Typ[f] # "message" /\ ~OutOfStruct(f, bytes)
           /\ struct' = [k \in DOMAIN struct |->
                            IF k - from \in DOMAIN cells THEN cells[k - from] ELSE struct[k]]
           /\ sframes' = moved
           /\ UNCHANGED sdepth

\* A nested message is laid out in the next item of the last field.
Nested_ == SFrame(At(STop.last).map, STop.base + At(STop.last).ofs + At(STop.last).len * STop.index)

\* sdecoder_msg_start_handler, when the last field is a message.
StructStart ==
    /\ sdepth' = sdepth + 1
    /\ sframes' = IF sdepth = 0 THEN sframes
                  ELSE Append([SubSeq(sframes, 1, sdepth) EXCEPT ![sdepth].index = @ + 1],
                              Nested_)
    /\ UNCHANGED struct

StructEnd == sdepth' = sdepth - 1 /\ UNCHANGED <<struct, sframes>>

\* The outcomes of a handler call: it returns, and then the state is changed by
\* StructHandle; or it may end the process.  find_map_field returns anything
\* for a field that is not in the map.  A message or a packed run is taken for an
\* item of the last field: without one, or with one that is no message, the
\* map is read from nowhere.
StructOutcomes(e) ==
    CASE e.call = "field" ->
            IF ~Mapped(e.field) THEN {"fine", "undefined"}
            ELSE IF OutOfStruct(e.field, e.value) THEN {"undefined"}
            ELSE IF CopiesBeyond(e.field, e.value) THEN {"fine", "undefined"}
            ELSE {"fine"}
      [] e.call = "start" ->
            IF sdepth = 0 THEN {"fine"}
            ELSE IF STop.last = NoField THEN {"undefined"}
            ELSE IF Typ[STop.last] # "message" THEN {"undefined"}
            ELSE IF StructMap[At(STop.last).map].msg # e.msg THEN {"aborted"}
            ELSE {"fine"}
      [] e.call = "end" -> {"fine"}

StructHandle(e) ==
    CASE e.call = "field" -> IF Mapped(e.field) THEN Unpack(e.field, e.value)
                                                ELSE UNCHANGED structVars
      [] e.call = "start" -> StructStart
      [] e.call = "end"   -> StructEnd
=============================================================================
