----------------------------- MODULE PyDecoder -----------------------------
(***************************************************************************)
(* python/decoder.c: the handlers with which Decoder.decode makes a Python *)
(* dict of the message that LwpbDecoder walks over.                        *)
(*                                                                         *)
(* The dicts are a heap of objects; dst, the first, is the one decode      *)
(* returns.  A dict has a list of items for each of its fields; one item,  *)
(* where the code stores a value without a list.                           *)
(***************************************************************************)
EXTENDS LwpbDecoder

CONSTANTS
    Repeated      \* the fields with label LWPB_REPEATED

ASSUME RepeatedAssumption ==
    /\ Repeated \subseteq Field
    /\ \A f \in Field : Packed[f] => f \in Repeated

VARIABLES
    heap,         \* the dicts: heap[i][f] is the list of f's items
    context       \* context->stack: numbers of dicts, the target last

pyVars == <<heap, context>>

ValueItem(bytes) == [dict |-> 0, bytes |-> bytes]
DictItem(i) == [dict |-> i, bytes |-> << >>]

EmptyDict == [f \in Field |-> << >>]

\* Decoder_decode, up to the call of lwpb_decoder_decode.
PyInit == heap = << EmptyDict >> /\ context = << 1 >>

Target == context[Len(context)]

\* A repeated field gets one item more, another field a new item.
Stored(f, item) == IF f \in Repeated THEN Append(heap[Target][f], item) ELSE << item >>

\* Mutant: every nested message gets a dict of its own.
NestedAlwaysNew(f) == Len(heap) + 1

\* The dict for a nested message: a new one, unless the field is not repeated
\* and has one already.
NestedDict(f) == IF f \notin Repeated /\ heap[Target][f] # << >>
                 THEN heap[Target][f][1].dict
                 ELSE Len(heap) + 1

\* field_handler.
PyField(f, bytes) ==
    \/ /\ Typ[f] # "message"
       /\ heap' = [heap EXCEPT ![Target][f] = Stored(f, ValueItem(bytes))]
       /\ UNCHANGED context
    \/ /\ Typ[f] = "message"
       /\ LET i == NestedDict(f)
              with == [heap EXCEPT ![Target][f] = Stored(f, DictItem(i))]
          IN  /\ heap' = IF i > Len(heap) THEN Append(with, EmptyDict) ELSE with
              /\ context' = Append(context, i)

\* Mutant: the end of a packed run is taken for the end of a message.
PyEndAlways(pk) ==
    /\ context' = SubSeq(context, 1, Len(context) - 1)
    /\ UNCHANGED heap

\* msg_end_handler: the end of a packed run is not that of a message.
PyEnd(pk) ==
    /\ context' = IF pk THEN context ELSE SubSeq(context, 1, Len(context) - 1)
    /\ UNCHANGED heap

\* msg_start_handler does nothing.
PyHandle(e) ==
    CASE e.call = "start" -> UNCHANGED pyVars
      [] e.call = "field" -> PyField(e.field, e.value)
      [] e.call = "end"   -> PyEnd(e.packed)
=============================================================================
