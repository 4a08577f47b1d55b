---------------------------- MODULE MCLwpbEncoder ----------------------------
(***************************************************************************)
(* A small instance of LwpbEncoder for TLC:                                *)
(*   message R { int32 v; bytes s; repeated fixed32 p [packed]; R c; }     *)
(*   message C { R x; }                       -- x is a field R lacks      *)
(* A byte count of 4 or more takes a varint of two bytes (128 in the code).*)
(***************************************************************************)
EXTENDS LwpbEncoder, TLC

CONSTANTS v, s, p, c, x, R, C

MCTyp == v :> "varint" @@ s :> "string" @@ p :> "fixed"
         @@ c :> "message" @@ x :> "message"
MCPacked == [f \in Field |-> f = p]
MCSubMsg == [f \in Field |-> IF f \in {c, x} THEN R ELSE NoMsg]
MCFieldsOf == R :> {v, s, p, c} @@ C :> {x}
MCKeyLen == [f \in Field |-> IF f = c THEN 2 ELSE 1]
\* For deep nesting in a short buffer: every key and length is one byte.
MCOneKeyLen == [f \in Field |-> 1]
MCValueLens == v :> {1, 2} @@ s :> {0, 3} @@ p :> {2} @@ c :> {} @@ x :> {}

\* The bytes b are a sequence of whole fields of m, nested messages included.
RECURSIVE IsMessage(_, _)
IsMessage(b, m) ==
    \/ b = << >>
    \/ \E f \in FieldsOf[m], n \in 0..Len(b) :
        LET head == Header(f, n, FALSE)
            len  == Len(head) + BodyLen(f, n, FALSE)
            body == SubSeq(b, Len(head) + 1, len)
        IN  /\ len <= Len(b)
            /\ SubSeq(b, 1, Len(head)) = head
            /\ CASE Typ[f] = "message" -> IsMessage(body, SubMsg[f])
                 [] Packed[f] -> \A i \in 1..n : body[i][1] = "val" /\ body[i][2] = f
                 [] OTHER     -> TRUE
            /\ IsMessage(SubSeq(b, len + 1, Len(b)), m)

\* When every open message is closed and nothing failed, what
\* lwpb_encoder_finish hands over is a well-formed message of the root type.
FinishedIsMessage ==
    Intact /\ depth = 1 => IsMessage(Finished, RootMsg)
=============================================================================
