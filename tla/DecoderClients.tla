--------------------------- MODULE DecoderClients ---------------------------
(***************************************************************************)
(* The decoder with the handlers that are set on it: those that only tell  *)
(* what they are called with (utils/debug or an application's own), the    *)
(* Python decoder's, or the struct decoder's.  The decoder waits for each  *)
(* handler it calls.                                                       *)
(***************************************************************************)
EXTENDS PyDecoder, StructDecoder, FiniteSets

CONSTANTS
    Clients       \* which handlers may be set

ASSUME ClientsAssumption == Clients \subseteq {"debug", "python", "struct"}

VARIABLES
    client,       \* the handlers that are set
    seen,         \* how many of the calls in events they have handled
    outcome       \* "fine", or how a handler ended the process

clientVars == <<client, seen, outcome>>
allVars == <<vars, pyVars, structVars, clientVars>>

CInit ==
    /\ Init /\ PyInit /\ StructInit
    /\ client \in Clients
    /\ seen = 0 /\ outcome = "fine"

Waiting == seen < Len(events)
Call == events[seen + 1]

Debug ==
    /\ client = "debug" /\ Waiting
    /\ seen' = Len(events)
    /\ UNCHANGED <<vars, pyVars, structVars, client, outcome>>

Python ==
    /\ client = "python" /\ Waiting
    /\ PyHandle(Call)
    /\ seen' = seen + 1
    /\ UNCHANGED <<vars, structVars, client, outcome>>

Struct ==
    /\ client = "struct" /\ Waiting /\ outcome = "fine"
    /\ outcome' \in StructOutcomes(Call)
    /\ IF outcome' = "fine" THEN StructHandle(Call) ELSE UNCHANGED structVars
    /\ seen' = seen + 1
    /\ UNCHANGED <<vars, pyVars, client>>

Decode ==
    /\ ~Waiting /\ outcome = "fine"
    /\ Next
    /\ UNCHANGED <<pyVars, structVars, clientVars>>

CNext == Debug \/ Python \/ Struct \/ Decode

CSpec == CInit /\ [][CNext]_allVars /\ WF_allVars(CNext)

-----------------------------------------------------------------------------
(* Properties, and the invariant they follow from.                         *)

\* The stack has a frame for every open message and run and never more than
\* MaxDepth (push_stack_frame); the call ends in one of the known ways.
TypeOK ==
    /\ depth \in 0..MaxDepth
    /\ packed \in BOOLEAN
    /\ Len(stack) = IF depth = 0 THEN 1 ELSE depth
    /\ field_desc \in Field \cup {NoField}
    /\ status \in {"running", "OK", "END_OF_BUF", "aborted", "undefined", "garbled"}
    /\ client \in Clients /\ seen \in 0..Len(events)
    /\ outcome \in {"fine", "undefined", "aborted"}
    /\ \A i \in DOMAIN context : context[i] \in DOMAIN heap
    /\ sdepth \in 0..MaxDepth /\ sdepth <= Len(sframes)

\* Between two handler calls the context stack has the dict of each message
\* that is open, however packed runs and nested messages alternate: the field
\* after a nested message goes into its parent's dict again.
ContextBalanced ==
    client = "python" /\ ~Waiting /\ status # "aborted" =>
        Len(context) = Cardinality({i \in 1..depth : ~(packed /\ i = depth)})

\* The dicts of the Python decoder.  A message field that is not repeated says
\* where its dict is: NestedDict will look for it there.
Item == [dict : Nat, bytes : Seq(Byte \cup {Junk})]
DictsInv ==
    /\ heap \in Seq([Field -> Seq(Item)]) /\ heap # << >>
    /\ context \in Seq(DOMAIN heap)
    /\ \A k \in DOMAIN heap : \A f \in Field \ Repeated :
          Typ[f] = "message" /\ heap[k][f] # << >> => heap[k][f][1].dict \in DOMAIN heap

\* The frames of the struct decoder: the last field of each is in its map.
StructFrame == [map : DOMAIN StructMap, base : Nat, last : Field \cup {NoField}, index : Nat]
StructInv ==
    /\ sframes \in Seq(StructFrame) /\ sframes # << >>
    /\ sdepth \in 0..MaxDepth /\ sdepth <= Len(sframes)
    /\ \A k \in DOMAIN sframes :
          sframes[k].last # NoField => sframes[k].last \in DOMAIN StructMap[sframes[k].map].fields

\* What the handlers know is behind the decoder by the calls that wait: opened
\* messages (ctx) and frames (st) are those of the decoder, less what a start
\* or a message field will open, with what an end will close.
OpenMessages == IF packed THEN depth - 1 ELSE depth
Balanced(ctx, st) ==
    /\ client = "python" => Len(context) = OpenMessages + ctx
    /\ client = "struct" /\ outcome = "fine" => sdepth = depth + st
PendingInv ==
    /\ client \in Clients /\ outcome \in {"fine", "undefined", "aborted"}
    /\ seen \in 0..Len(events)
    /\ \/ ~Waiting /\ (status # "aborted" => Balanced(0, 0))
       \/ /\ seen + 1 = Len(events)
          /\ \/ Call.call = "start" /\ depth >= 1 /\ Balanced(0, -1)
             \/ Call.call = "end" /\ Balanced(IF Call.packed THEN 0 ELSE 1, 1)
             \/ /\ Call.call = "field" /\ depth >= 1 /\ Balanced(0, 0)
                /\ Typ[Call.field] = "message" => status = "aborted"
       \/ /\ seen + 2 = Len(events) /\ depth > 1 /\ ~packed
          /\ Call.call = "field" /\ Typ[Call.field] = "message"
          /\ events[seen + 2].call = "start"
          /\ Balanced(-1, -1)

ClientsInv == DecoderInv /\ DictsInv /\ StructInv /\ PendingInv
=============================================================================
