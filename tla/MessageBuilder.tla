--------------------------- MODULE MessageBuilder ---------------------------
(***************************************************************************)
(* What an encoder of nested messages promises, without a buffer: a stack  *)
(* of byte strings that are still being built, one per open message or     *)
(* packed run.  Adding a field appends its bytes to the innermost string;  *)
(* closing the innermost string appends it to the one below, as the value  *)
(* of the field it was opened for, behind that field's key and its length. *)
(* There are no addresses, no reserved bytes and no moves of memory here.  *)
(***************************************************************************)
EXTENDS WireFormat

VARIABLES
    open,       \* the open strings, outermost first: [field, bytes]
    valid       \* FALSE once an operation failed: nothing is promised then

bvars == <<open, valid>>

BInit == open = << >> /\ valid = FALSE

Top == Len(open)
Below == SubSeq(open, 1, Top - 1)

\* Elements of a packed run are written without keys.
Raw(strings) == \E i \in DOMAIN strings : strings[i].field \in Field
                                          /\ Packed[strings[i].field]

\* The message a string opened for f is an instance of.
MsgOf(f) == IF f = NoField THEN RootMsg ELSE SubMsg[f]

\* Does f belong into the innermost string?
Fits(strings, f) ==
    LET top == strings[Len(strings)].field
    IN  IF Raw(strings) THEN f = top ELSE f \in FieldsOf[MsgOf(top)]

Begin ==
    /\ open' = << [field |-> NoField, bytes |-> << >>] >>
    /\ valid' = TRUE

\* Append a value of f, n bytes long (a varint is all in the head).
AddValue(f, n) ==
    /\ valid
    /\ Fits(open, f)
    /\ LET body == SubSeq(ValueBytes(f, n), 1, BodyLen(f, n, Raw(open)))
       IN  open' = [open EXCEPT ![Top].bytes = @ \o Header(f, n, Raw(open)) \o body]
    /\ UNCHANGED valid

\* Open a message or a packed run; nothing is opened inside a packed run.
Open(f) ==
    /\ valid
    /\ ~Raw(open)
    /\ Typ[f] = "message" \/ Packed[f]
    /\ open' = Append(open, [field |-> f, bytes |-> << >>])
    /\ UNCHANGED valid

\* Close the innermost string into the one below, with key and length.
Close ==
    LET f == open[Top].field
        body == open[Top].bytes
    IN  /\ valid
        /\ Top > 1
        /\ Fits(Below, f)
        /\ open' = [Below EXCEPT ![Top - 1].bytes =
                        @ \o Header(f, Len(body), FALSE) \o body]
        /\ UNCHANGED valid

\* The field does not belong to the message below: the string is lost.
Discard ==
    /\ valid
    /\ Top > 1
    /\ ~Fits(Below, open[Top].field)
    /\ open' = Below
    /\ UNCHANGED valid

\* A call that did not fit, or misuse: nothing is promised until Begin.
Fail ==
    /\ open' = << >>
    /\ valid' = FALSE

BNext ==
    \/ Begin
    \/ \E f \in Field : Open(f) \/ \E n \in ValueLens[f] : AddValue(f, n)
    \/ Close
    \/ Discard
    \/ Fail

BSpec == BInit /\ [][BNext]_bvars
=============================================================================
