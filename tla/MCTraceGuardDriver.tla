------------------------- MODULE MCTraceGuardDriver -------------------------
(***************************************************************************)
(* TraceGuardDriver with two callers that share a driver.  Others act on   *)
(* the chain between their steps, with the same signer.                    *)
(***************************************************************************)
EXTENDS TraceGuardDriver, TLC

CONSTANTS r1, r2, h1, a1, d1, c1, c2

\* Every driver signs as a1 for r1; callers share d1.
ForR1 == [d \in Drivers |-> r1]
AsA1 == [d \in Drivers |-> a1]
SharingD1 == [c \in Callers |-> d1]

Symmetries == Permutations(Callers)
=============================================================================
