---------------------------- MODULE MCHeavyPath ----------------------------
(***************************************************************************)
(* HeavyPath on one action, or on two that share the session, with two     *)
(* executors that run under the same address or under none.                *)
(***************************************************************************)
EXTENDS HeavyPath

CONSTANTS h1, h2, x1, x2, a1
=============================================================================
