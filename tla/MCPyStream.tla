----------------------------- MODULE MCPyStream -----------------------------
(***************************************************************************)
(* An instance of PyStream for TLC, over                                   *)
(*   message R { string s; C c; repeated int32 p [packed]; }               *)
(*   message C { int32 v; repeated fixed32 q [packed]; D d; }              *)
(*   message D { int32 w; }                                                *)
(* A length of 8 or more takes two bytes (128 in the code).  The records   *)
(* include values of the wrong type at every level, lists for fields that  *)
(* are not repeated, and empty lists.                                      *)
(***************************************************************************)
EXTENDS PyStream, FiniteSetsExt

CONSTANTS s, c, p, v, q, d, w, R, C, D

MCTyp == s :> "string" @@ c :> "message" @@ p :> "varint" @@ v :> "varint"
         @@ q :> "fixed" @@ d :> "message" @@ w :> "varint"
MCPacked == [f \in Field |-> f \in {p, q}]
MCSubMsg == [f \in Field |-> CASE f = c -> C [] f = d -> D [] OTHER -> NoMsg]
MCFieldsOf == R :> {s, c, p} @@ C :> {v, q, d} @@ D :> {w}
MCFieldOrder == R :> <<s, c, p>> @@ C :> <<v, q, d>> @@ D :> <<w>>
MCKeyLen == [f \in Field |-> IF f = d THEN 2 ELSE 1]
MCValueLens == [f \in Field |-> {}]

\* The dicts that have any of the fields, with one of the lists of values each.
Dicts(lists) == {Dict(x) : x \in UNION {{g \in [S -> UNION {lists[f] : f \in S}] :
                                            \A f \in S : g[f] \in lists[f]} :
                                        S \in SUBSET DOMAIN lists}}
Single(S) == {<<x>> : x \in S}

DDicts == Dicts(w :> {<< Number_(1), Number_(2) >>, << Other >>})
CDicts == Dicts(v :> {<< Number_(1) >>}
                @@ q :> {<< >>, << Number_(2), Number_(2) >>, << Number_(2), Other >>}
                @@ d :> Single(DDicts \cup {Number_(1)}))
Small  == Dicts(s :> {<< Number_(0) >>} @@ c :> {<< Other >>}
                @@ p :> {<< >>, << Number_(1), Other >>})
Large  == Dicts(c :> Single(CDicts)
                @@ p :> {<< Number_(1), Number_(2) >>})
Twice  == {Dict(s :> << Number_(3) >> @@ c :> <<x, x>> @@ p :> << Number_(1) >>) :
              x \in {y \in CDicts : d \in DOMAIN y.of}}

\* A record with a value that no field of R is for.
Strange == {Dict(s :> << Number_(1) >> @@ v :> << Other >>)}

Records == Small \cup Large \cup Twice \cup Strange

MCObject == {Number_(n) : n \in 0..3} \cup {Other} \cup DDicts \cup CDicts \cup Records
MCHeight == [o \in MCObject |-> CASE o \in Records \ CDicts -> 3
                                  [] o \in CDicts \ DDicts -> 2
                                  [] o \in DDicts          -> 1
                                  [] OTHER                 -> 0]

MCBatch == {<<r>> : r \in Large \cup Twice \cup Strange} \cup {<<r, t>> : r, t \in Small}

-----------------------------------------------------------------------------
(* Properties. *)

\* The reader comes to the end of the stream, however the writer ends.
ReaderEnds == <>(reader # "reading")

\* When the writer has closed the stream, the reader gets all that was written.
ReadsAll ==
    status = "closed" ~> /\ reader = "eof"
                         /\ records = [k \in DOMAIN written |->
                                          [raw |-> written[k], as |-> "whole"]]

\* "Python object must be a dict to be encoded as a message" (encoder.c:55),
\* "encode expects a dict" (encoder.c:58): encode raises the exception that was
\* set for a wrong value.
ErrorRaised == raised => status \notin {"undefined", "overflow", "aborted"}
=============================================================================
