--------------------------- MODULE MCTraceVerify ---------------------------
(***************************************************************************)
(* TraceVerify on sessions of five events of two traces: long enough for   *)
(* the complete chain of evidence behind one receipt, and for the same     *)
(* chain with one or two faults or with another trace's events in it.      *)
(***************************************************************************)
EXTENDS TraceVerify, TLC

CONSTANTS t1, t2, h1

Symmetries == Permutations(Traces)
=============================================================================
