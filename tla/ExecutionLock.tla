--------------------------- MODULE ExecutionLock ---------------------------
(***************************************************************************)
(* What a TraceGuard promises the executors of heavy actions, whichever    *)
(* implementation stands behind it (packages/trace-guard, interface        *)
(* TraceGuard; the Move package contracts/suimesh_trace): an action is     *)
(* granted to one executor at a time, for a lease that ends at a known     *)
(* moment, and only a live grant can be finished.  A lapsed or finished    *)
(* grant may be followed by another one: the lock does not promise that an *)
(* action is executed once.                                                *)
(***************************************************************************)
EXTENDS Naturals

CONSTANTS Actions,    \* what is locked
          Holders,    \* who may hold a grant
          NoHolder    \* the holder of an action nobody was granted, not one of Holders

VARIABLES now,        \* the clock the leases are measured with
          grant       \* the latest grant of each action

vars == <<now, grant>>

Grants == [holder : Holders \cup {NoHolder}, until : Nat, phase : {"open", "closed"}]

NoGrant == [holder |-> NoHolder, until |-> 0, phase |-> "open"]

\* The grant keeps every other executor out.
Live(a) == /\ grant[a].holder # NoHolder
           /\ grant[a].phase = "open"
           /\ grant[a].until > now

TypeOK == /\ now \in Nat
          /\ grant \in [Actions -> Grants]

Init == /\ now \in Nat
        /\ grant = [a \in Actions |-> NoGrant]

Advance == /\ now' \in Nat
           /\ now' > now
           /\ UNCHANGED grant

\* The new grant is whatever the step gives the action: any holder, any end to come.
Acquire(a) ==
    /\ ~Live(a)
    /\ LET g == grant'[a]
       IN  /\ g \in Grants
           /\ g.holder # NoHolder
           /\ g.until > now
           /\ g.phase = "open"
           /\ grant' = [grant EXCEPT ![a] = g]
    /\ UNCHANGED now

Finish(a) ==
    /\ Live(a)
    /\ grant' = [grant EXCEPT ![a].phase = "closed"]
    /\ UNCHANGED now

Next == \/ Advance
        \/ \E a \in Actions : Acquire(a) \/ Finish(a)

Spec == Init /\ [][Next]_vars
=============================================================================
