--------------------------- MODULE TraceContract ---------------------------
(***************************************************************************)
(* The Move package contracts/suimesh_trace: shared Registry objects whose *)
(* tables map an action hash to an Anchor, and the four entry points that  *)
(* create, lease and close an anchor.  A transaction runs one entry point  *)
(* atomically against the chain's clock; an assert that fails aborts it    *)
(* and leaves no trace, so an abort is an action that is not enabled.      *)
(*                                                                         *)
(* Trace ids and the proposal and decision hashes are carried and never    *)
(* read by the contract; they are left out.                                *)
(***************************************************************************)
EXTENDS Naturals, Sequences

CONSTANTS Registries,    \* object ids of registries
          Hashes,        \* action hashes
          Addresses,     \* accounts that can sign a transaction
          ZeroAddress,   \* @0x0
          Receipts,      \* receipt hashes
          NoReceipt,     \* the empty vector
          MaxU64,        \* the largest u64
          MaxTime,       \* bound: the chain clock stops here
          Expiries,      \* bound: values given as expires_at_ms
          Leases         \* bound: values given as claim_lease_ms

ASSUME ZeroAssumption == ZeroAddress \notin Addresses
ASSUME BoundsAssumption ==
    /\ MaxU64 \in Nat
    /\ MaxTime \in 0 .. MaxU64
    /\ Expiries \subseteq 0 .. MaxU64
    /\ Leases \subseteq 0 .. MaxU64

VARIABLES clock,      \* sui::clock timestamp, in ms
          owner,      \* owner[r]: creator of the registry object, or ZeroAddress
          anchors,    \* anchors[r][h]: the table of registry r
          log         \* the events emitted so far, in execution order

vars == <<clock, owner, anchors, log>>

U64 == 0 .. MaxU64
Accounts == Addresses \cup {ZeroAddress}

Status == {"absent", "anchored", "claimed", "executed", "failed"}

Anchor == [status : Status, owner : Accounts, executor : Accounts,
           claimant : Accounts, approved : BOOLEAN, claimed : BOOLEAN,
           expires : U64, claimExpires : U64, receipt : Receipts \cup {NoReceipt},
           updated : U64]

\* An action hash that is not a key of the table.
Absent == [status |-> "absent", owner |-> ZeroAddress, executor |-> ZeroAddress,
           claimant |-> ZeroAddress, approved |-> FALSE, claimed |-> FALSE,
           expires |-> 0, claimExpires |-> 0, receipt |-> NoReceipt, updated |-> 0]

(***************************************************************************)
(* The events.  The field registry is the object the transaction named: it *)
(* is no field of the Move event, and a reader of the events lacks it.     *)
(***************************************************************************)
ActionAnchored ==
    [type : {"anchored"}, registry : Registries, hash : Hashes, owner : Accounts,
     executor : Accounts, approved : BOOLEAN, expires : U64, at : U64]

ActionClaimed ==
    [type : {"claimed"}, registry : Registries, hash : Hashes, claimant : Accounts,
     claimExpires : U64, at : U64]

ActionCompleted ==
    [type : {"completed"}, registry : Registries, hash : Hashes, claimant : Accounts,
     status : {"executed", "failed"}, receipt : Receipts, at : U64]

Event == ActionAnchored \cup ActionClaimed \cup ActionCompleted

-----------------------------------------------------------------------------
Init == /\ clock \in 0 .. MaxTime
        /\ owner = [r \in Registries |-> ZeroAddress]
        /\ anchors = [r \in Registries |-> [h \in Hashes |-> Absent]]
        /\ log = << >>

Tick == /\ clock < MaxTime
        /\ clock' = clock + 1
        /\ UNCHANGED <<owner, anchors, log>>

Exists(r) == owner[r] # ZeroAddress
Anchored(r, h) == anchors[r][h].status # "absent"

CreateSharedRegistry(r, sender) ==
    /\ ~Exists(r)
    /\ owner' = [owner EXCEPT ![r] = sender]
    /\ UNCHANGED <<clock, anchors, log>>

AnchorAction(r, h, sender, approved, executor, expires) ==
    /\ Exists(r)
    /\ sender = owner[r]
    /\ executor # ZeroAddress
    /\ expires > clock
    /\ ~Anchored(r, h)
    /\ anchors' = [anchors EXCEPT ![r][h] =
          [Absent EXCEPT !.status = "anchored", !.owner = owner[r], !.executor = executor,
                         !.approved = approved, !.expires = expires, !.updated = clock]]
    /\ log' = Append(log,
          [type |-> "anchored", registry |-> r, hash |-> h, owner |-> owner[r],
           executor |-> executor, approved |-> approved, expires |-> expires, at |-> clock])
    /\ UNCHANGED <<clock, owner>>

\* The asserts of claim_action up to the one that reports a live claim.
ClaimAdmittedAnyLease(r, h, sender, lease) ==
    LET a == anchors[r][h]
    IN  Anchored(r, h) /\ a.approved /\ sender = a.executor /\ a.expires > clock

ClaimAdmittedAnySender(r, h, sender, lease) ==
    LET a == anchors[r][h]
    IN  Anchored(r, h) /\ a.approved /\ lease > 0 /\ a.expires > clock

ClaimAdmitted(r, h, sender, lease) ==
    LET a == anchors[r][h]
    IN  /\ Anchored(r, h)
        /\ a.approved
        /\ sender = a.executor
        /\ lease > 0
        /\ a.expires > clock

LeaseRunningUntilClosed(r, h) ==
    anchors[r][h].status = "claimed" /\ anchors[r][h].claimExpires > clock

LeaseRunning(r, h) == anchors[r][h].claimed /\ anchors[r][h].claimExpires > clock

\* The addition of now and the lease aborts instead of wrapping around.
LeaseUnchecked(lease) == TRUE

LeaseFits(lease) == clock + lease \in U64

ClaimAction(r, h, sender, lease) ==
    /\ ClaimAdmitted(r, h, sender, lease)
    /\ ~LeaseRunning(r, h)
    /\ LeaseFits(lease)
    /\ anchors' = [anchors EXCEPT ![r][h] =
          [@ EXCEPT !.claimed = TRUE, !.claimant = sender, !.status = "claimed",
                    !.claimExpires = clock + lease, !.updated = clock]]
    /\ log' = Append(log,
          [type |-> "claimed", registry |-> r, hash |-> h, claimant |-> sender,
           claimExpires |-> clock + lease, at |-> clock])
    /\ UNCHANGED <<clock, owner>>

\* What complete_action and fail_action ask alike.
MayCloseAgain(r, h, sender) ==
    LET a == anchors[r][h]
    IN  a.claimed /\ sender = a.claimant /\ a.expires > clock /\ a.claimExpires > clock

MayClose(r, h, sender) ==
    LET a == anchors[r][h]
    IN  /\ Anchored(r, h)
        /\ a.claimed
        /\ a.status = "claimed"
        /\ sender = a.claimant
        /\ a.expires > clock
        /\ a.claimExpires > clock

Close(r, h, sender, receipt, status) ==
    /\ MayClose(r, h, sender)
    /\ anchors' = [anchors EXCEPT ![r][h] =
          [@ EXCEPT !.receipt = receipt, !.status = status, !.updated = clock]]
    /\ log' = Append(log,
          [type |-> "completed", registry |-> r, hash |-> h, claimant |-> sender,
           status |-> status, receipt |-> receipt, at |-> clock])
    /\ UNCHANGED <<clock, owner>>

CompleteAction(r, h, sender, receipt) == Close(r, h, sender, receipt, "executed")

FailEmittingExecuted(r, h, sender, receipt) ==
    /\ MayClose(r, h, sender)
    /\ anchors' = [anchors EXCEPT ![r][h] =
          [@ EXCEPT !.receipt = receipt, !.status = "failed", !.updated = clock]]
    /\ log' = Append(log,
          [type |-> "completed", registry |-> r, hash |-> h, claimant |-> sender,
           status |-> "executed", receipt |-> receipt, at |-> clock])
    /\ UNCHANGED <<clock, owner>>

FailAction(r, h, sender, receipt) == Close(r, h, sender, receipt, "failed")

Transaction(r, h, sender) ==
    \/ \E approved \in BOOLEAN, executor \in Accounts, expires \in Expiries :
          AnchorAction(r, h, sender, approved, executor, expires)
    \/ \E lease \in Leases : ClaimAction(r, h, sender, lease)
    \/ \E receipt \in Receipts :
          CompleteAction(r, h, sender, receipt) \/ FailAction(r, h, sender, receipt)

Next == \/ Tick
        \/ \E r \in Registries, sender \in Addresses : CreateSharedRegistry(r, sender)
        \/ \E r \in Registries, h \in Hashes, sender \in Addresses :
              Transaction(r, h, sender)

Spec == Init /\ [][Next]_vars

-----------------------------------------------------------------------------
TypeOK == /\ clock \in 0 .. MaxTime
          /\ owner \in [Registries -> Accounts]
          /\ anchors \in [Registries -> [Hashes -> Anchor]]
          /\ log \in Seq(Event)

About(e, r, h) == e.registry = r /\ e.hash = h
SameAction(e, f) == About(e, f.registry, f.hash)

\* Nothing was emitted about the action after the i-th event.
LastAbout(i, r, h) == \A k \in DOMAIN log : k > i => ~About(log[k], r, h)

(***************************************************************************)
(* claim_action: two leases of one action never overlap, across re-claims, *)
(* completions and failures, whatever leases the executors ask for and     *)
(* however close to the end of u64 they reach.                             *)
(***************************************************************************)
LeaseExclusive ==
    \A i, j \in DOMAIN log :
        (/\ i < j
         /\ log[i].type = "claimed"
         /\ log[j].type = "claimed"
         /\ SameAction(log[i], log[j]))
        => log[i].claimExpires <= log[j].at

(***************************************************************************)
(* complete_action and fail_action: a completion closes the claim emitted  *)
(* just before it for the same action, is signed by that claim's claimant  *)
(* and falls inside its lease.  A lease is closed at most once, and the    *)
(* holder of an earlier lease never closes a later one.                    *)
(***************************************************************************)
CompletionUnderLease ==
    \A j \in DOMAIN log : log[j].type = "completed" =>
        \E i \in DOMAIN log :
            /\ i < j
            /\ log[i].type = "claimed"
            /\ SameAction(log[i], log[j])
            /\ log[i].claimant = log[j].claimant
            /\ log[i].at <= log[j].at
            /\ log[j].at < log[i].claimExpires
            /\ \A k \in DOMAIN log : i < k /\ k < j => ~SameAction(log[k], log[j])

(***************************************************************************)
(* anchor_action: an action is anchored once in a registry, before any     *)
(* other event about it; every claim is by the executor it named, of an    *)
(* approved action, and every claim and completion comes before its        *)
(* expiry.  The terms an owner anchored are never renegotiated.            *)
(***************************************************************************)
WithinAnchoredTerms ==
    \A j \in DOMAIN log : log[j].type # "anchored" =>
        \E i \in DOMAIN log :
            /\ i < j
            /\ log[i].type = "anchored"
            /\ SameAction(log[i], log[j])
            /\ log[i].approved
            /\ log[j].claimant = log[i].executor
            /\ log[j].at < log[i].expires
            /\ \A k \in DOMAIN log :
                  log[k].type = "anchored" /\ SameAction(log[k], log[j]) => k = i

(***************************************************************************)
(* The table and the event stream tell the same story: the last event      *)
(* about an action gives the status the table holds for it, with its       *)
(* claimant, lease, receipt and update time.  Restoring an anchor from     *)
(* events relies on it.                                                    *)
(***************************************************************************)
Tells(e, a) ==
    /\ a.updated = e.at
    /\ \/ /\ e.type = "anchored"
          /\ a.status = "anchored"
          /\ a.expires = e.expires
          /\ a.executor = e.executor
       \/ /\ e.type = "claimed"
          /\ a.status = "claimed"
          /\ a.claimant = e.claimant
          /\ a.claimExpires = e.claimExpires
       \/ /\ e.type = "completed"
          /\ a.status = e.status
          /\ a.claimant = e.claimant
          /\ a.receipt = e.receipt

TableMatchesLog ==
    \A r \in Registries, h \in Hashes :
        IF Anchored(r, h)
        THEN \E i \in DOMAIN log : /\ About(log[i], r, h)
                                   /\ LastAbout(i, r, h)
                                   /\ Tells(log[i], anchors[r][h])
        ELSE \A i \in DOMAIN log : ~About(log[i], r, h)

(***************************************************************************)
(* The documentation's promise, docs/end-to-end-flow.md:271: "Duplicate    *)
(* execution must be blocked by ActionClaim."  claim_action does not look  *)
(* at the status of the anchor, so an executed action can be claimed and   *)
(* completed again once its first lease has run out.                       *)
(***************************************************************************)
ExecutedAtMostOnce ==
    \A i, j \in DOMAIN log :
        (/\ log[i].type = "completed" /\ log[i].status = "executed"
         /\ log[j].type = "completed" /\ log[j].status = "executed"
         /\ SameAction(log[i], log[j]))
        => i = j

-----------------------------------------------------------------------------
\* The lock the contract implements: one lockable action per table entry.
GrantOf(a) == [holder |-> IF a.claimed THEN a.claimant ELSE ZeroAddress,
               until  |-> IF a.claimed THEN a.claimExpires ELSE 0,
               phase  |-> IF a.claimed /\ a.status # "claimed" THEN "closed" ELSE "open"]

LockGrant == [ra \in Registries \X Hashes |-> GrantOf(anchors[ra[1]][ra[2]])]

Lock == INSTANCE ExecutionLock
          WITH Actions <- Registries \X Hashes, Holders <- Addresses,
               NoHolder <- ZeroAddress, now <- clock, grant <- LockGrant

(***************************************************************************)
(* The contract implements the lock: no claim replaces a live grant, no    *)
(* completion closes a lapsed one, and the other entry points leave the    *)
(* grants alone.                                                           *)
(***************************************************************************)
ImplementsLock == Lock!Spec
=============================================================================
