----------------------------- MODULE WireFormat -----------------------------
(***************************************************************************)
(* Field descriptors and the bytes one field occupies on the wire, shared  *)
(* by the encoder, its abstract specification and the decoder.             *)
(*                                                                         *)
(* A byte is a cell: it says what it is a byte OF (the i-th byte of the    *)
(* key of f, of the length n, of a value of f), which is all that parsing  *)
(* and the order of writes can tell apart.  How many bytes a number takes  *)
(* is what buffer arithmetic depends on, and is kept: KeyLen and VarintLen *)
(* give it, and the values of a field have the lengths ValueLens.  The     *)
(* varints are lengths, of 32 bits: VarintSteps is 2^7, 2^14, 2^21, 2^28.  *)
(***************************************************************************)
EXTENDS Integers, Sequences, FiniteSets

CONSTANTS
    Field,        \* field descriptors (identified by address in the code)
    Msg,          \* message descriptors
    NoField,      \* the NULL field descriptor
    NoMsg,        \* the NULL message descriptor
    Typ,          \* Typ[f]: "varint", "fixed", "string" or "message"
    Packed,       \* Packed[f]: is f a packed repeated field
    SubMsg,       \* SubMsg[f]: msg_desc of a message field, else NoMsg
    FieldsOf,     \* FieldsOf[m]: the fields of message m
    RootMsg,      \* the message descriptor the caller starts with
    KeyLen,       \* KeyLen[f]: bytes of f's key, a varint of number << 3
    VarintSteps,  \* the numbers from which on a varint takes one byte more
    ValueLens,    \* ValueLens[f]: lengths (bytes) of the values of f
    BufLen        \* largest buffer a caller passes

WireTypes == {"VARINT", "BITS", "STRING"}

ASSUME FieldAssumption ==
    /\ NoField \notin Field
    /\ NoMsg \notin Msg
    /\ RootMsg \in Msg
    /\ Typ \in [Field -> {"varint", "fixed", "string", "message"}]
    /\ Packed \in [Field -> BOOLEAN]
    /\ SubMsg \in [Field -> Msg \cup {NoMsg}]
    /\ FieldsOf \in [Msg -> SUBSET Field]
    /\ \A f \in Field : Typ[f] = "message" <=> SubMsg[f] # NoMsg
    \* only scalar fields may be packed
    /\ \A f \in Field : Packed[f] => Typ[f] \in {"varint", "fixed"}

ASSUME LengthAssumption ==
    /\ BufLen \in Nat
    /\ KeyLen \in [Field -> Nat \ {0}]
    /\ VarintSteps \subseteq Nat \ {0} /\ IsFiniteSet(VarintSteps)
    \* a value longer than every buffer is like one longer than this buffer
    /\ ValueLens \in [Field -> SUBSET (0..BufLen)]

-----------------------------------------------------------------------------
(* The bytes of one field. *)

Junk == <<"junk">>

\* Bytes of the varint n: one, and one more for every 7 bits.
VarintLen == [n \in Nat |-> 1 + Cardinality({k \in VarintSteps : k <= n})]

\* Wire type of a value of f (WT_64BIT and WT_32BIT are both "BITS").
WireType(f) == CASE Typ[f] = "varint" -> "VARINT"
                 [] Typ[f] = "fixed"  -> "BITS"
                 [] OTHER             -> "STRING"

\* Wire type chosen for f: a packed field written with its key is a string.
WireTypeAs(f, raw) == IF ~raw /\ Packed[f] THEN "STRING" ELSE WireType(f)

KeyBytes(f, wt) == [i \in 1..KeyLen[f] |-> <<"key", f, wt, i>>]
LenBytes(n)     == [i \in 1..VarintLen[n] |-> <<"len", n, i>>]
ValueBytes(f, n) == [i \in 1..n |-> <<"val", f, n, i>>]

\* What is written one byte at a time before the body: the key unless the
\* field is an element of a packed run (raw), then the varint or the length.
Header(f, n, raw) ==
    LET wt == WireTypeAs(f, raw)
    IN  (IF raw THEN << >> ELSE KeyBytes(f, wt)) \o
        (CASE wt = "VARINT" -> ValueBytes(f, n)
           [] wt = "STRING" -> LenBytes(n)
           [] OTHER         -> << >>)

\* Length of the body, which is written whole or not at all.
BodyLen(f, n, raw) == IF WireTypeAs(f, raw) = "VARINT" THEN 0 ELSE n
=============================================================================
