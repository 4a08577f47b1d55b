------------------------------ MODULE RpcCall ------------------------------
(***************************************************************************)
(* What a transport promises of the first call of each client: the server  *)
(* handles it at most once, and the client gets the response of that call, *)
(* at most once, and only after the server has handled it.  A call may be  *)
(* lost at any point.  A client that makes a second call is given up: the  *)
(* socket transport promises nothing about it.                             *)
(***************************************************************************)
CONSTANT Client
VARIABLE phase      \* phase[c]: how far the first call of client c has got

RInit == phase = [c \in Client |-> "idle"]

Becomes(c, from, to) == phase[c] = from /\ phase' = [phase EXCEPT ![c] = to]

Ask(c)     == Becomes(c, "idle", "asked")
Execute(c) == Becomes(c, "asked", "executed")
Answer(c)  == Becomes(c, "executed", "answered")
GiveUp(c)  == phase[c] # "idle" /\ Becomes(c, phase[c], "over")

RNext == \E c \in Client : Ask(c) \/ Execute(c) \/ Answer(c) \/ GiveUp(c)

RSpec == RInit /\ [][RNext]_phase
=============================================================================
