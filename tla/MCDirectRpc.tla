---------------------------- MODULE MCDirectRpc ----------------------------
(***************************************************************************)
(* An instance of DirectRpc for TLC: three calls, so that they nest three  *)
(* deep or follow one another inside a handler, and buffers for two calls  *)
(* at a time, so that the third may find none.                             *)
(***************************************************************************)
EXTENDS DirectRpc, FiniteSets

ASSUME InstanceAssumption == Cardinality(Buffer) < 2 * MaxCalls
=============================================================================
