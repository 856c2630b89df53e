-------------------------- MODULE TraceGuardDriver --------------------------
(***************************************************************************)
(* SuiMoveTraceGuardDriver of packages/trace-guard over the Move contract. *)
(* A driver signs transactions against one registry, reads the package's   *)
(* events back, and answers from a cache of anchors that only its own      *)
(* calls refresh.  Callers of one driver overlap at every await: a call    *)
(* sends a transaction, gets an answer, queries three event types one      *)
(* after the other, restores the anchor and then amends it.                *)
(*                                                                         *)
(* The node is external: an answer may be lost after the transaction was   *)
(* executed, the events it serves may lag behind, and a query may fail.    *)
(* Processes that do not use a driver act on the chain too.                *)
(*                                                                         *)
(* Calls that throw before they send anything (a claim without an approved *)
(* decision for the action, a receipt of another action) are left out.     *)
(***************************************************************************)
EXTENDS TraceContract, FiniteSets

CONSTANTS Drivers,       \* driver objects, each in a process of its own
          RegistryOf,    \* RegistryOf[d]: registryId of the driver
          SignerOf,      \* SignerOf[d]: address of its signer
          Callers,       \* concurrent users of the drivers
          DriverOf,      \* DriverOf[c]: the driver the caller shares
          NoEntry,       \* an action the cache has no anchor of
          QueryLimit,    \* eventQueryPageSize * eventQueryMaxPages; 0 when the
                         \* client offers no queryEvents
          MaxLag,        \* bound: events that a node has not indexed yet
          MaxAhead       \* bound: local clocks run this far ahead of the chain

ASSUME DriverAssumption ==
    /\ RegistryOf \in [Drivers -> Registries]
    /\ SignerOf \in [Drivers -> Addresses]
    /\ DriverOf \in [Callers -> Drivers]
    /\ QueryLimit \in Nat
    /\ MaxLag \in Nat
    /\ MaxAhead \in Nat

VARIABLES cache,      \* cache[d][h]: the driver's Map of anchors
          call,       \* call[c]: the call the caller awaits
          granted     \* granted[c][h]: claimExpiresAtMs of the last claim that was
                      \* returned to c as claimed, or 0

chainVars == <<clock, owner, anchors, log>>
driverVars == <<cache, call, granted>>
allVars == <<clock, owner, anchors, log, cache, call, granted>>

EventTypes == {"anchored", "claimed", "completed"}

\* An ActionAnchor as the driver keeps it; clocks of the driver are numbers.
Entry == [status : Status \ {"absent"}, executor : Accounts, claimant : Accounts,
          expires : Nat, claimExpires : Nat, receipt : Receipts \cup {NoReceipt}]

NoCall == [op |-> "none", stage |-> "idle", hash |-> NoEntry, now |-> 0, lease |-> 0,
           executor |-> ZeroAddress, expires |-> 0, receipt |-> NoReceipt,
           outcome |-> "none", pending |-> << >>, read |-> {},
           restored |-> NoEntry]

Call == [op : {"none", "anchor", "claim", "complete", "fail", "get"},
         stage : {"idle", "sent", "answered", "reading", "restored"},
         hash : Hashes \cup {NoEntry}, now : Nat, lease : Leases \cup {0},
         executor : Accounts, expires : Expiries \cup {0},
         receipt : Receipts \cup {NoReceipt}, outcome : {"none", "ok", "duplicate"}, pending : Seq(EventTypes),
         read : SUBSET DOMAIN log, restored : Entry \cup {NoEntry}]

\* traceEventTypes, in the order of the queries.
QueryOrder == <<"anchored", "claimed", "completed">>

Home(c) == DriverOf[c]
Cached(c) == cache[Home(c)][call[c].hash]

DriverInit == /\ Init
              /\ cache = [d \in Drivers |-> [h \in Hashes |-> NoEntry]]
              /\ call = [c \in Callers |-> NoCall]
              /\ granted = [c \in Callers |-> [h \in Hashes |-> 0]]

-----------------------------------------------------------------------------
Rank(i) == CASE log[i].type = "anchored"  -> 1
             [] log[i].type = "claimed"   -> 2
             [] log[i].type = "completed" -> 3

PrecedesByKind(i, j) == Rank(i) < Rank(j) \/ (Rank(i) = Rank(j) /\ i < j)

\* The order queryTraceEvents sorts by: time, then kind, then as queried.
Precedes(i, j) ==
    \/ log[i].at < log[j].at
    \/ log[i].at = log[j].at /\ Rank(i) < Rank(j)
    \/ log[i].at = log[j].at /\ Rank(i) = Rank(j) /\ i < j

Latest(S) == CHOOSE i \in S : \A j \in S \ {i} : Precedes(j, i)

\* Without completedTraceState.
StatusUndecoded(i) == log[i].type

\* The status an event leaves an anchor in.
StatusAfter(i) == IF log[i].type = "completed" THEN log[i].status ELSE log[i].type

(***************************************************************************)
(* restoreAnchorFromEvents: an anchor told by the events at the positions  *)
(* S of the log, read in the order above.  The events do not name their    *)
(* registry, and only the action hash selects them.                        *)
(***************************************************************************)
Told(S, h) ==
    LET mine   == {i \in S : log[i].hash = h}
        opened == {i \in mine : log[i].type = "anchored"}
        base   == Latest(opened)
        since  == {i \in mine : Precedes(base, i)}
        claims == {i \in since : log[i].type = "claimed"}
        ends   == {i \in since : log[i].type = "completed"}
        last   == Latest({base} \cup since)
    IN  IF opened = {}
        THEN NoEntry
        ELSE [status       |-> StatusAfter(last),
              executor     |-> log[base].executor,
              claimant     |-> IF since = {} THEN ZeroAddress ELSE log[last].claimant,
              expires      |-> log[base].expires,
              claimExpires |-> IF claims = {} THEN 0 ELSE log[Latest(claims)].claimExpires,
              receipt      |-> IF ends = {} THEN NoReceipt ELSE log[Latest(ends)].receipt]

\* The pages of one event type that a node serves which has indexed the first
\* k events, oldest first.  Later pages continue where the earlier ones end, so
\* what they hold together is what the node that serves the last one has.
Pages(type, k) ==
    {i \in 1 .. k :
        /\ log[i].type = type
        /\ Cardinality({j \in 1 .. i : log[j].type = type}) <= QueryLimit}

-----------------------------------------------------------------------------
\* A call begins and sends its transaction.
Begin(c, sent) ==
    /\ call[c].stage = "idle"
    /\ call' = [call EXCEPT ![c] = sent]
    /\ UNCHANGED <<chainVars, cache, granted>>

StartAnchor(c, h) ==
    \E executor \in Addresses, expires \in Expiries :
        Begin(c, [NoCall EXCEPT !.op = "anchor", !.stage = "sent", !.hash = h,
                                !.executor = executor, !.expires = expires])

\* nowMs is read here, before the transaction.
StartClaim(c, h) ==
    \E lease \in Leases, now \in clock .. clock + MaxAhead :
        Begin(c, [NoCall EXCEPT !.op = "claim", !.stage = "sent", !.hash = h,
                                !.lease = lease, !.now = now])

StartComplete(c, h) ==
    \E receipt \in Receipts :
        Begin(c, [NoCall EXCEPT !.op = "complete", !.stage = "sent", !.hash = h,
                                !.receipt = receipt])

StartFail(c, h) ==
    \E receipt \in Receipts :
        Begin(c, [NoCall EXCEPT !.op = "fail", !.stage = "sent", !.hash = h,
                                !.receipt = receipt])

\* getAnchor answers from the cache when it can, and else reads the events.
StartGet(c, h) ==
    /\ cache[Home(c)][h] = NoEntry
    /\ Begin(c, [NoCall EXCEPT !.op = "get", !.stage = "reading", !.hash = h,
                               !.pending = QueryOrder])

-----------------------------------------------------------------------------
\* The entry point a call's transaction runs: complete always completes,
\* whatever its receipt says.
EntryPoint(c) ==
    LET r == RegistryOf[Home(c)]
        s == SignerOf[Home(c)]
        h == call[c].hash
    IN  \/ /\ call[c].op = "anchor"
           /\ AnchorAction(r, h, s, TRUE, call[c].executor, call[c].expires)
        \/ call[c].op = "claim" /\ ClaimAction(r, h, s, call[c].lease)
        \/ call[c].op = "complete" /\ CompleteAction(r, h, s, call[c].receipt)
        \/ call[c].op = "fail" /\ FailAction(r, h, s, call[c].receipt)

Reading(c, outcome) ==
    call' = [call EXCEPT ![c].stage = "reading", ![c].outcome = outcome,
                         ![c].pending = QueryOrder]

\* The answer of an anchor and of a duplicate claim is looked at; the other
\* calls go straight on to their queries.
Answered(c, outcome) ==
    IF call[c].op = "anchor" \/ outcome = "duplicate"
    THEN call' = [call EXCEPT ![c].stage = "answered", ![c].outcome = outcome]
    ELSE Reading(c, outcome)

\* Ending a call, with what it leaves in the cache.
Return(c) == call' = [call EXCEPT ![c] = NoCall]
Remember(c, entry) == cache' = [cache EXCEPT ![Home(c)][call[c].hash] = entry]

\* The transaction is executed.  Its answer may get lost: the call throws.
Execute(c) ==
    /\ call[c].stage = "sent"
    /\ EntryPoint(c)
    /\ Answered(c, "ok") \/ Return(c)
    /\ UNCHANGED <<cache, granted>>

\* Without assertTransactionSuccess.
RefuseUnnoticed(c) ==
    /\ call[c].stage = "sent"
    /\ Answered(c, "ok")
    /\ UNCHANGED <<chainVars, cache, granted>>

\* The transaction aborts or is lost, and the call throws.  If it is executed
\* after that, it is one of those others send.
Refuse(c) ==
    /\ call[c].stage = "sent"
    /\ Return(c)
    /\ UNCHANGED <<chainVars, cache, granted>>

\* An abort in the effects that is taken for a success.
RefuseDuplicateUnseen(c) ==
    /\ call[c].stage = "sent"
    /\ call[c].op = "claim"
    /\ LeaseRunning(RegistryOf[Home(c)], call[c].hash)
    /\ Answered(c, "ok")
    /\ UNCHANGED <<chainVars, cache, granted>>

\* isMoveAbort knows the abort of a claim under a live lease, thrown or in the
\* effects; worded otherwise by the client it is an error like any other.
RefuseDuplicate(c) ==
    /\ call[c].stage = "sent"
    /\ call[c].op = "claim"
    /\ ClaimAdmitted(RegistryOf[Home(c)], call[c].hash, SignerOf[Home(c)], call[c].lease)
    /\ LeaseRunning(RegistryOf[Home(c)], call[c].hash)
    /\ Answered(c, "duplicate")
    /\ UNCHANGED <<chainVars, cache, granted>>

-----------------------------------------------------------------------------
FreshEntry(c) ==
    [status |-> "anchored", executor |-> call[c].executor, claimant |-> ZeroAddress,
     expires |-> call[c].expires, claimExpires |-> 0, receipt |-> NoReceipt]

RememberAnchor(c) ==
    /\ call[c].stage = "answered"
    /\ call[c].op = "anchor"
    /\ Remember(c, FreshEntry(c))
    /\ Return(c)
    /\ UNCHANGED <<chainVars, granted>>

\* A duplicate is returned at once when its anchor is cached, or when the abort
\* was in the effects.
ReturnDuplicate(c) ==
    /\ call[c].stage = "answered"
    /\ call[c].outcome = "duplicate"
    /\ Return(c)
    /\ UNCHANGED <<chainVars, cache, granted>>

\* When the abort was thrown, an anchor that is not cached is restored first.
RestoreDuplicate(c) ==
    /\ call[c].stage = "answered"
    /\ call[c].outcome = "duplicate"
    /\ Cached(c) = NoEntry
    /\ Reading(c, "duplicate")
    /\ UNCHANGED <<chainVars, cache, granted>>

ReadEvents(c) ==
    /\ call[c].stage = "reading"
    /\ call[c].pending # << >>
    /\ \E k \in 0 .. Len(log) :
          /\ k + MaxLag >= Len(log)
          /\ call' = [call EXCEPT ![c].pending = Tail(@),
                                  ![c].read = @ \cup Pages(Head(call[c].pending), k)]
    /\ UNCHANGED <<chainVars, cache, granted>>

\* A query that fails rejects the call, also after its transaction succeeded.
FailReading(c) ==
    /\ call[c].stage = "reading"
    /\ call[c].pending # << >>
    /\ QueryLimit > 0
    /\ Return(c)
    /\ UNCHANGED <<chainVars, cache, granted>>

\* restoreAnchor: what the events tell replaces the cached anchor.
Restore(c) ==
    LET restored == Told(call[c].read, call[c].hash)
    IN  /\ call[c].stage = "reading"
        /\ call[c].pending = << >>
        /\ IF restored = NoEntry THEN UNCHANGED cache ELSE Remember(c, restored)

\* getAnchor, for its own sake or for a duplicate, returns what was restored.
RestoreAndReturn(c) ==
    /\ call[c].op = "get" \/ call[c].outcome = "duplicate"
    /\ Restore(c)
    /\ Return(c)
    /\ UNCHANGED <<chainVars, granted>>

RestoreAnchor(c) ==
    /\ call[c].outcome = "ok"
    /\ Restore(c)
    /\ call' = [call EXCEPT ![c].stage = "restored", ![c].read = {},
                            ![c].restored = Told(call[c].read, call[c].hash)]
    /\ UNCHANGED <<chainVars, granted>>

\* What the call goes on from: the restored anchor, or the cached one.
Basis(c) == IF call[c].restored # NoEntry THEN call[c].restored ELSE Cached(c)

\* With the clock read after the awaits.
FinishClaimLate(c) ==
    /\ call[c].stage = "restored"
    /\ call[c].op = "claim"
    /\ IF Basis(c) = NoEntry
       THEN UNCHANGED cache
       ELSE Remember(c, [Basis(c) EXCEPT !.claimant = SignerOf[Home(c)], !.status = "claimed",
                                         !.claimExpires = clock + call[c].lease])
    /\ granted' = [granted EXCEPT ![c][call[c].hash] = clock + call[c].lease]
    /\ Return(c)
    /\ UNCHANGED chainVars

FinishClaim(c) ==
    LET until == call[c].now + call[c].lease
    IN  /\ call[c].stage = "restored"
        /\ call[c].op = "claim"
        /\ IF Basis(c) = NoEntry
           THEN UNCHANGED cache
           ELSE Remember(c, [Basis(c) EXCEPT !.claimant = SignerOf[Home(c)],
                                             !.status = "claimed", !.claimExpires = until])
        /\ granted' = [granted EXCEPT ![c][call[c].hash] = until]
        /\ Return(c)
        /\ UNCHANGED chainVars

\* The restored statuses that complete and fail take for an answer.
Settles(c) == call[c].restored # NoEntry
              /\ \/ call[c].restored.status = "failed"
                 \/ call[c].op = "complete" /\ call[c].restored.status = "executed"

\* The status of its receipt that a call writes into the cache itself.
Says(c) == IF call[c].op = "fail" THEN {"failed"} ELSE {"executed", "failed"}

\* The events do not show the completion yet: updateAnchor amends the cache,
\* or throws when there is nothing to amend.
FinishClose(c) ==
    /\ call[c].stage = "restored"
    /\ call[c].op \in {"complete", "fail"}
    /\ IF Settles(c) \/ Cached(c) = NoEntry
       THEN UNCHANGED cache
       ELSE \E status \in Says(c) :
               Remember(c, [Cached(c) EXCEPT !.receipt = call[c].receipt,
                                             !.status = status])
    /\ Return(c)
    /\ UNCHANGED <<chainVars, granted>>

-----------------------------------------------------------------------------
\* The process of a driver ends and starts again: nothing is persisted.  A
\* transaction still under way then is one of those others send.
Restart(d) ==
    /\ cache' = [cache EXCEPT ![d] = [h \in Hashes |-> NoEntry]]
    /\ call' = [c \in Callers |-> IF Home(c) = d THEN NoCall ELSE call[c]]
    /\ granted' = [c \in Callers |->
                      IF Home(c) = d THEN [h \in Hashes |-> 0] ELSE granted[c]]
    /\ UNCHANGED chainVars

\* The chain moves on, and others use it without a driver.
Others == Next /\ UNCHANGED driverVars

CallStep(c) ==
    \/ Execute(c) \/ Refuse(c) \/ RefuseDuplicate(c)
    \/ RememberAnchor(c) \/ ReturnDuplicate(c) \/ RestoreDuplicate(c)
    \/ ReadEvents(c) \/ FailReading(c) \/ RestoreAndReturn(c)
    \/ RestoreAnchor(c) \/ FinishClaim(c) \/ FinishClose(c)

DriverNext ==
    \/ \E c \in Callers, h \in Hashes :
          \/ StartAnchor(c, h) \/ StartClaim(c, h) \/ StartComplete(c, h)
          \/ StartFail(c, h) \/ StartGet(c, h)
    \/ \E c \in Callers : CallStep(c)
    \/ \E d \in Drivers : Restart(d)
    \/ Others

DriverSpec == DriverInit /\ [][DriverNext]_allVars

-----------------------------------------------------------------------------
DriverTypeOK ==
    /\ TypeOK
    /\ cache \in [Drivers -> [Hashes -> Entry \cup {NoEntry}]]
    /\ call \in [Callers -> Call]
    /\ granted \in [Callers -> [Hashes -> Nat]]

\* No other registry of the package has an anchor of this action.
Sole(r, h) == \A i \in DOMAIN log : log[i].hash = h => log[i].registry = r

\* What the table of a registry says of an action, as a driver would keep it.
OnChain(r, h) ==
    LET a == anchors[r][h]
    IN  IF Anchored(r, h)
        THEN [status |-> a.status, executor |-> a.executor, claimant |-> a.claimant,
              expires |-> a.expires, claimExpires |-> a.claimExpires, receipt |-> a.receipt]
        ELSE NoEntry

(***************************************************************************)
(* restoreAnchorFromEvents: sorting the three event types by time and kind *)
(* loses nothing.  A driver that sees every event recovers exactly what    *)
(* the contract's table holds, across re-claims, completions and failures  *)
(* that fall into one instant.                                             *)
(***************************************************************************)
RestoresTheTable ==
    \A r \in Registries, h \in Hashes : Sole(r, h) => Told(DOMAIN log, h) = OnChain(r, h)

\* A completion the cache shows as the log does, ...
Recorded(i, e) == log[i].claimant = e.claimant /\ log[i].status = e.status

\* ... and one of the driver's own that no query had shown yet: updateAnchor
\* leaves the claimant it knew, and the status its receipt has, which is "failed"
\* for an unsuccessful receipt of an action the contract calls executed.
Amended(i, d, e) == /\ log[i].claimant = SignerOf[d]
                    /\ \/ e.status = log[i].status
                       \/ e.status = "failed" /\ log[i].status = "executed"

\* Every field of an entry but its lease was emitted for its action.
Backed(d, h, e) ==
    LET emitted == {i \in DOMAIN log : log[i].hash = h}
    IN  /\ \E i \in emitted : /\ log[i].type = "anchored"
                              /\ log[i].executor = e.executor
                              /\ log[i].expires = e.expires
        /\ e.claimant # ZeroAddress =>
              \E i \in emitted : log[i].type # "anchored" /\ log[i].claimant = e.claimant
        /\ e.status = "claimed" =>
              \E i \in emitted : log[i].type = "claimed" /\ log[i].claimant = e.claimant
        /\ e.status \in {"executed", "failed"} =>
              \E i \in emitted : /\ log[i].type = "completed"
                                 /\ log[i].receipt = e.receipt
                                 /\ Recorded(i, e) \/ Amended(i, d, e)

(***************************************************************************)
(* The cache never invents: whatever calls overlap, answers get lost and   *)
(* queries lag, a driver keeps the terms of an anchor that was made, a     *)
(* claimant who claimed or completed, and a completion that was made with  *)
(* its receipt.  That completion has the claimant and the status the cache *)
(* names, or is one the driver sent itself and amended its cache by: then  *)
(* only a "failed" may stand for the chain's "executed".                   *)
(***************************************************************************)
CacheHappened ==
    \A d \in Drivers, h \in Hashes : cache[d][h] # NoEntry => Backed(d, h, cache[d][h])

(***************************************************************************)
(* A lease the cache shows as running (executeApproved goes by it) runs on *)
(* the chain as well, and at least as long, but for what the local clock   *)
(* is ahead: also when the claim's answer, its event query or another call *)
(* that overlaps it came late.                                             *)
(***************************************************************************)
CachedLeaseRuns ==
    \A d \in Drivers, h \in Hashes :
        /\ cache[d][h] # NoEntry
        /\ Sole(RegistryOf[d], h)
        /\ cache[d][h].claimExpires > clock + MaxAhead
        => /\ LeaseRunning(RegistryOf[d], h)
           /\ cache[d][h].claimExpires <= anchors[RegistryOf[d]][h].claimExpires + MaxAhead

(***************************************************************************)
(* Two callers whose claims of one action were both returned as claimed    *)
(* never hold a running lease at the same time, whichever drivers of the   *)
(* registry they use and whatever was lost, retried or restarted between.  *)
(***************************************************************************)
GrantsExclusive ==
    \A c1, c2 \in Callers, h \in Hashes :
        /\ c1 # c2
        /\ RegistryOf[Home(c1)] = RegistryOf[Home(c2)]
        /\ granted[c1][h] > clock + MaxAhead
        /\ granted[c2][h] > clock + MaxAhead
        => FALSE

(***************************************************************************)
(* docs/protocol.md:479: "SDK drivers restore on-chain trace guard state   *)
(* from emitted Move events"; README.md:189 invites every app to create    *)
(* its own shared registry from the same package.  The restoring code      *)
(* picks the package's events by action hash alone, so a driver takes      *)
(* another registry's anchor for its own.                                  *)
(***************************************************************************)
CacheOfOwnRegistry ==
    \A d \in Drivers, h \in Hashes : cache[d][h] # NoEntry =>
        \E i \in DOMAIN log : About(log[i], RegistryOf[d], h)
=============================================================================
