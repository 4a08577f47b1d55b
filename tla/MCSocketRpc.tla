---------------------------- MODULE MCSocketRpc ----------------------------
(***************************************************************************)
(* Instances of SocketRpc for TLC: a request or response arrives in up to  *)
(* two pieces, a buffer holds one message and a half.  Client ann calls    *)
(* twice; the others only connect, and may find no slot free.              *)
(***************************************************************************)
EXTENDS SocketRpc

CONSTANTS ann, bob, dan

MCMaxCalls == [c \in Client |-> IF c = ann THEN 2 ELSE 0]
=============================================================================
