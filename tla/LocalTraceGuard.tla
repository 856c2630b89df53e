-------------------------- MODULE LocalTraceGuard --------------------------
(***************************************************************************)
(* LocalTraceGuard (packages/trace-guard): the in-process implementation   *)
(* of TraceGuard, a map from action hashes to anchors.  Its methods have   *)
(* no await inside, so a call takes effect in one step; a call that throws *)
(* changes nothing and is an action that is not enabled.                   *)
(*                                                                         *)
(* Every method reads the time from its caller (nowMs, the system clock by *)
(* default): the parameter at.  Trace id, owner, proposal, decision and    *)
(* receipt hashes and the two timestamps are stored and never read.        *)
(***************************************************************************)
EXTENDS Naturals

CONSTANTS Hashes,        \* action hashes
          Addresses,     \* addresses of executors
          ZeroAddress,   \* the address 0x0
          NoAddress,     \* an address that is not given (undefined)
          Anonymous,     \* LOCAL_ANONYMOUS_CLAIMANT
          MaxTime,       \* bound: the clock stops here
          Expiries,      \* bound: values of expiresAtMs
          Leases         \* bound: values of claimLeaseMs

ASSUME LocalBounds == /\ MaxTime \in Nat
                      /\ Expiries \subseteq Nat
                      /\ Leases \subseteq Nat
ASSUME DistinctAddresses == /\ {ZeroAddress, NoAddress, Anonymous} \cap Addresses = {}
                            /\ NoAddress \notin {ZeroAddress, Anonymous}

VARIABLES now,       \* the clock, in ms
          anchors    \* anchors[h]: the record of action h

localVars == <<now, anchors>>

Optional == Addresses \cup {NoAddress}

LocalAnchor == [status : {"absent", "anchored", "claimed", "executed", "failed"},
                executor : Optional, claimant : Optional \cup {Anonymous},
                expires : Nat, claimExpires : Nat]

\* An action hash that is no key of the map.
Unanchored == [status |-> "absent", executor |-> NoAddress, claimant |-> NoAddress,
               expires |-> 0, claimExpires |-> 0]

PolicyDecisions == [hash : Hashes, verdict : {"approved", "rejected", "requires_confirmation"}]
Receipts == [hash : Hashes, executor : Optional, status : {"success", "failure"}]

-----------------------------------------------------------------------------
LocalInit == /\ now \in 0 .. MaxTime
             /\ anchors = [h \in Hashes |-> Unanchored]

LocalTick == /\ now < MaxTime
             /\ now' = now + 1
             /\ UNCHANGED anchors

Known(h) == anchors[h].status # "absent"

\* Both addresses are given and differ: the only mismatch the guard rejects.
Mismatch(given, expected) == /\ given # NoAddress
                             /\ expected # NoAddress
                             /\ given # expected

AnchorsForAnyone(h, executor, expires, at) ==
    /\ ~Known(h) /\ expires > at
    /\ anchors' = [anchors EXCEPT ![h] =
          [Unanchored EXCEPT !.status = "anchored", !.executor = executor, !.expires = expires]]

LocalAnchorAction(h, executor, expires, at) ==
    /\ ~Known(h)
    /\ expires > at
    /\ executor # ZeroAddress
    /\ anchors' = [anchors EXCEPT ![h] =
          [Unanchored EXCEPT !.status = "anchored", !.executor = executor, !.expires = expires]]

AcceptsAnyClaimant(h, decision, claimant, lease, at) ==
    /\ decision.verdict = "approved" /\ decision.hash = h
    /\ Known(h) /\ at < anchors[h].expires /\ lease > 0

\* The claim is answered; otherwise it throws.
Accepts(h, decision, claimant, lease, at) ==
    /\ decision.verdict = "approved"
    /\ decision.hash = h
    /\ Known(h)
    /\ at < anchors[h].expires
    /\ ~Mismatch(claimant, anchors[h].executor)
    /\ lease > 0

DuplicateAtTheEnd(h, at) == anchors[h].status = "claimed" /\ anchors[h].claimExpires > at + 1

Duplicate(h, at) == anchors[h].status = "claimed" /\ anchors[h].claimExpires > at

ClaimantFor(h, claimant) ==
    IF claimant # NoAddress THEN claimant
    ELSE IF anchors[h].executor # NoAddress THEN anchors[h].executor
    ELSE Anonymous

LocalClaim(h, decision, claimant, lease, at) ==
    /\ Accepts(h, decision, claimant, lease, at)
    /\ anchors' = IF Duplicate(h, at) THEN anchors
                  ELSE [anchors EXCEPT ![h] =
                          [@ EXCEPT !.claimant = ClaimantFor(h, claimant),
                                    !.status = "claimed", !.claimExpires = at + lease]]

ClosableAgain(h, by, at) ==
    /\ anchors[h].status \in {"claimed", "executed", "failed"}
    /\ ~Mismatch(by, anchors[h].claimant)
    /\ at < anchors[h].expires /\ at < anchors[h].claimExpires

\* What complete and fail ask alike.
Closable(h, by, at) ==
    /\ anchors[h].status = "claimed"
    /\ ~Mismatch(by, anchors[h].claimant)
    /\ at < anchors[h].expires
    /\ at < anchors[h].claimExpires

LocalComplete(h, receipt, at) ==
    /\ receipt.hash = h
    /\ Closable(h, receipt.executor, at)
    /\ anchors' = [anchors EXCEPT ![h] =
          [@ EXCEPT !.status = IF receipt.status = "success" THEN "executed" ELSE "failed"]]

LocalFail(h, claimant, at) ==
    /\ Closable(h, claimant, at)
    /\ anchors' = [anchors EXCEPT ![h] = [@ EXCEPT !.status = "failed"]]

\* One method called with the current time.
LocalCall(h) ==
    /\ \/ \E executor \in Optional \cup {ZeroAddress}, expires \in Expiries :
             LocalAnchorAction(h, executor, expires, now)
       \/ \E decision \in PolicyDecisions, claimant \in Optional, lease \in Leases :
             LocalClaim(h, decision, claimant, lease, now)
       \/ \E receipt \in Receipts : LocalComplete(h, receipt, now)
       \/ \E claimant \in Optional : LocalFail(h, claimant, now)
    /\ UNCHANGED now

LocalNext == LocalTick \/ \E h \in Hashes : LocalCall(h)

LocalSpec == LocalInit /\ [][LocalNext]_localVars

-----------------------------------------------------------------------------
LocalTypeOK == /\ now \in 0 .. MaxTime
               /\ anchors \in [Hashes -> LocalAnchor]

(***************************************************************************)
(* claim and complete: an action anchored for an executor is claimed,      *)
(* executed and failed under that executor's name only, though a caller    *)
(* may leave its own address out of every call.                            *)
(***************************************************************************)
OnlyExecutorHolds ==
    \A h \in Hashes :
        /\ anchors[h].status \in {"claimed", "executed", "failed"}
        /\ anchors[h].executor # NoAddress
        => anchors[h].claimant = anchors[h].executor

LocalGrantOf(a) ==
    [holder |-> a.claimant,
     until  |-> a.claimExpires,
     phase  |-> IF a.status \in {"executed", "failed"} THEN "closed" ELSE "open"]

LocalGrant == [h \in Hashes |-> LocalGrantOf(anchors[h])]

LocalLock == INSTANCE ExecutionLock
               WITH Actions <- Hashes, Holders <- Addresses \cup {Anonymous},
                    NoHolder <- NoAddress, grant <- LocalGrant

(***************************************************************************)
(* As long as its callers pass the current time, the local guard is the    *)
(* same lock as the Move contract: a duplicate claim neither takes over    *)
(* nor prolongs a live grant, and only a live grant is closed.             *)
(***************************************************************************)
ImplementsLock == LocalLock!Spec
=============================================================================
