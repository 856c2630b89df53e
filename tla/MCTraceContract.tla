-------------------------- MODULE MCTraceContract --------------------------
(***************************************************************************)
(* TraceContract on two registries that share one action hash, two         *)
(* accounts, and a clock that comes within a lease of the end of u64.      *)
(***************************************************************************)
EXTENDS TraceContract, TLC

CONSTANTS r1, r2, h1, a1, a2


Symmetries == Permutations(Registries) \cup Permutations(Addresses)
=============================================================================
