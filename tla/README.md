# SuiMesh: a verification project

SuiMesh lets agents and people agree on a Sui transaction in a shared session and execute it under
a lock. This directory models the parts of the repository that decide *who may execute what, when,
and what the record of it is worth*: what a transaction does and whether a policy approves it, the
guard that locks it, the session that records it, how a participant finds and reads the session, and
how it is archived. The models are checked with TLC, and theorems about them are proved with TLAPS.

## 1. The system

### Components, their state and their operations

| Component (source) | State it keeps | Operations |
| --- | --- | --- |
| Move contract `contracts/suimesh_trace` | shared `Registry` objects: owner, table action hash → `Anchor`; emitted events | `create_shared_registry`, `anchor_action`, `claim_action`, `complete_action`, `fail_action` |
| `LocalTraceGuard` (`packages/trace-guard`, 54-203) | map action hash → anchor, in memory | `anchor`, `claim`, `complete`, `fail`, `getAnchor` |
| `SuiMoveTraceGuardDriver` (`packages/trace-guard`, 317-587) | cache action hash → anchor | the same five, as transactions and event queries |
| Heavy path of `SuiMeshClient` (`packages/sdk`) | none of its own; the caller holds decision and claim objects | `proposePtb`, `evaluateAndRecord`, `anchorAndRecord`, `claimAndRecord`, `executeApproved(AndRecord)` |
| Trace verification (`packages/sdk` 415-432, 469-591; `verifyHashChain`) | per trace: proposal seen, approved, anchored, claimed, executed actions | `trace.verify` |
| Event transports (`packages/transport`, `packages/sui-stack-adapter`) | events per session, handlers; the relayer's messages per group | `send`, `list`, `subscribe` |
| Session discovery (`sui-stack-adapter/session-discovery.ts`) | cursors, seen event ids, active sessions | `poll`, `start`, `discoverAuthorizedSessions` |
| PTB inspector, action registry, policy engine | registry entries | `inspect`, `validateManifest`, `register`, `resolve`; `evaluate`, `createDefaultPolicy` |
| Storage adapters (`packages/storage`) | blobs, in memory or on Walrus | `put`, `get`; `write`, `read` with retries |
| Live scripts (`scripts/live`) | where the run is | the agent's proposal, the relayer, the run that archives a session |
| Codec, memory adapter, protocol types | none | `encodeEvent`, `decodeEvent`; `recall`, `remember` |

### How they interact

Participants discover the session from membership events on chain. A client, or an agent that asked a
language model, proposes a transaction: the inspector derives facts from its bytes and from the
registry, and the manifest must agree with them (an event in the session). The action is inspected
again, perhaps simulated, and a policy judges the facts (an event). The trace guard anchors the approved action and the anchor is recorded (an event). Executors claim the
action on the guard, record the claim, execute, complete on the guard, and record the receipt.
`trace.verify` reads the session back. The guard and the session are two stores that no transaction
spans; the caller carries the facts, the decision, the claim and `previousEventHash` from one call to
the next. In the end the session is archived, read back, and an audit event refers to the archive.

### What is hard

* a lease that ends while its holder is at work, and the time that was read before the work;
* two executors, or one retrying, for the same action; late completions;
* a guard operation that succeeded and whose record failed, and the other way round; crashes;
* traces that interleave in one session;
* a cache that only its own calls refresh, answers that get lost, events of three kinds read one
  kind after the other, in pages, from a node that lags, and merged by timestamp;
* polls that overlap and set each other's cursors back, events read one kind after the other, cursors
  that advance before the work is done, restarts with old cursors;
* pages that are read while messages arrive, a handler slower than the senders;
* facts that rest on a registry that changes, on one entry for many commands, on amounts nobody knows;
  rules that overwrite what earlier rules decided;
* blobs that are late, lost or changed; events counted instead of recognized.

`PROJECT.json` lists the hazards one by one at their lines.

## 2. Modules

| Module | What it is | Depends on |
| --- | --- | --- |
| `ExecutionLock` | abstract specification of a trace guard: exclusive leases that end | |
| `TraceContract` | the Move contract | instance of `ExecutionLock` |
| `TraceContractProofs` | theorems about it | `TraceContract` |
| `LocalTraceGuard` | the in-process guard | instance of `ExecutionLock` |
| `TraceGuardDriver` | the driver: cache, transactions and event queries over the contract | `TraceContract` |
| `TraceGuardDriverProofs` | theorems about it | `TraceGuardDriver`, `TraceContractProofs` |
| `SessionLog` | what the events of a session say about each other | |
| `TraceVerify` | the audit that reads a session | `SessionLog` |
| `TraceVerifyProofs` | theorems about it | `TraceVerify` |
| `HeavyPath` | clients, guard and session together | `LocalTraceGuard`, `SessionLog` |
| `HeavyPathProofs` | theorems about it and about `LocalTraceGuard` | `HeavyPath` |
| `Protocol` | risk levels, rule names, manifest builders | |
| `PtbInspector` | facts of a transaction, validation of a manifest (operators) | `Protocol` |
| `PolicyEngine` | evaluation of a policy, rule by rule | `Protocol` |
| `ActionReview` | proposal, inspection, simulation and evaluation of one action | `PtbInspector`, `PolicyEngine` |
| `ActionReviewProofs` | theorems about it | `ActionReview` |
| `ReviewedPath` | the review in front of the heavy path: one action from proposal to receipt | `HeavyPath`, `ActionReview` |
| `ReviewedPathProofs` | theorems about both together | `ReviewedPath`, `HeavyPathProofs`, `ActionReviewProofs` |
| `SessionDiscovery` | overlapping polls and the start loop over a stream of events | |
| `SessionTransport` | the relayer transport: list, subscribe, wait for a message | |
| `MemoryTransport` | the in-memory transport: send and its delivery | |
| `AuditArchive` | the run that archives a session, over the storage adapters | |
| `SessionProofs` | theorems about discovery, both transports and the archiving run | `SessionDiscovery`, `SessionTransport`, `MemoryTransport`, `AuditArchive` |
| `MCComponents` | discovery, transports, archiving run, review and local guard side by side | the four above, `LocalTraceGuard`, `MCActionReview` |
| `ComponentsProofs` | theorems about them side by side | `MCComponents`, `SessionProofs`, `ActionReviewProofs` |
| `MC...` | instances for TLC, one `.cfg` per question | |

### ExecutionLock and TraceContract

`TraceContract` has one action per entry point. A transaction is atomic; a failed `assert!` aborts
it and leaves no trace, so it is an action that is not enabled. `anchors[r][h]` is the table of
registry `r`; `status = "absent"` says that `h` is no key of it. `log` is the sequence of emitted
events; its field `registry` is the object named in the transaction, which the Move events do not
carry. The addition `now + claim_lease_ms` aborts beyond u64 (`LeaseFits`).

The refinement maps an anchor to a grant of `ExecutionLock`: holder and end of lease once it has
been claimed, phase `closed` once it is executed or failed. The lock promises exclusive leases and
nothing about how often an action runs; that is deliberate, see the findings.

### LocalTraceGuard

The methods contain no `await`, so a call is one step. `at` is the caller's `nowMs`. On its own the
guard is called with the current time and then implements `ExecutionLock`; under `HeavyPath` the
same operators are called with a time that was read earlier.

### TraceGuardDriver

`cache[d]` is the `anchors` map of driver `d`; `call[c]` is the call that caller `c` awaits, and
callers of one driver overlap. A call is cut at its awaits:

```
sent -> answered            anchor: remember; duplicate claim: return, or restore first
     -> reading (3 queries) -> restored -> claim, complete and fail amend the cache
```

`Execute` runs the contract's entry point; its answer may get lost. `Refuse` is any other failure.
A transaction that is executed after its call has thrown, or after its process has ended, is one of
`Others`, which act on the chain with any signer. `Told` is `restoreAnchorFromEvents` applied to a
set of log positions, in the order of the sort (`Precedes`). Each query sees the first `QueryLimit`
events of its kind that the node has indexed, and a node is at most `MaxLag` events behind.
`granted` is the claim object a caller holds: the end of the lease it was told.

The timestamp that the node attaches to an event, by which events are sorted, is taken to be the
chain clock of its transaction; transactions of one checkpoint that differ in clock time but share
a node timestamp are outside the model. A receipt's own status counts only where `updateAnchor`
writes it (`Says`).

### TraceVerify and SessionLog

`verifyTraceState` is a loop over decoded events. `TraceVerify` reads one event per step, any event
at all, and keeps the state the loop keeps. `SessionLog` says, without that state, what an event of
a log rests on. `ReportsExactly` compares the two. An event is reduced to its kind, trace, action
hash and the part of the payload that counts (`says`). At most one error is pushed per event, so
`errors` is the set of positions reported.

### HeavyPath

Two kinds of actors share a `LocalTraceGuard` and a session. The coordinator takes an action
through `stage`; an executor's `call` holds its claim and where in `executeApprovedAndRecord` it is:

```
idle -> claiming -> holding -> executing -> effected -> recording -> holding
         refused                (execute)   (complete)   (send)
```

The steps are cut at the awaits. A send delivers, or throws; when it throws the event may be stored
all the same, because `InMemoryEventTransport.send` stores before it runs the subscribers. A call
that throws returns its caller to where it can call again. `Crash` forgets the claim. `grants` is a
history variable: it lists the granted claims of an action and how often each was closed.

`previousEventHash` is the last event of the action's own trace at the moment of the send; a real
caller may have an older one, which can only break more links.

### ActionReview, PtbInspector, PolicyEngine

A transaction is a sequence of command records; an argument is the gas coin, an object, a pure value
or a nested result. `Inspection` is `inspect` up to the simulation: `Normalize` is the body of the
loop in `parseSuiPtb`, `Entry` looks up the first call, and the facts of each kind are
`collectCommandFacts`. An array that the code builds from some of the commands (normalized commands,
calls, transfers, amounts of split coins) is a function on the places of these commands, whose first
element is that of the least place (`First`): filtering and mapping are then restriction and
composition, and sums over such arrays can be reasoned about. `ManifestValid` is `validateManifest`. In `PolicyEngine` the loop over the
rules takes one rule per step; `Objection` is what a rule makes the decision at least, `Overrides`
the one assignment that ignores the decision so far. `ActionReview` runs them: `Register` changes
the registry between `ProposePtb` and `Inspect` or `Simulate`, each of which looks it up anew, and
`ProposePlan` is the agent of openai-agent-proposal-live.ts: `buildTransfer` puts the amount into a u64
(`MaxU64`) and the recipient, written in hex, into an address (`AddressOf`, which knows every
spelling of an address and none for more than 64 digits). A plan that does not fit is not `Buildable`;
the script throws and ends there (`BuildFails`). With `EvaluateReturns` the caller has
its decision and the engine keeps nothing (`GiveDecision`); it may ask again, at another time or of
another policy. The properties speak of the bytes (`CommandsOf`, `SentSplits`, `Touched`), not of the
facts, so they cross every conversion between. An entry has the types of `ActionRegistryEntry`,
while a manifest's requirements are strings of any kind (`Checks`).

Worth knowing, since the properties are phrased around it:

* facts without a simulation are approved like facts with a good one, contrary to
  docs/protocol.md:464. The run `unsimulated_approval` shows it; `ApprovedByRules`, which holds, says of
  facts without a simulation only that no rule objects to them;
* neither `inspect` nor `simulate` validates the manifest again, so what it claimed was true of the
  registry of the proposal (`DangerReviewed` asks the entry that was consulted);
* a limit on the value binds amounts that are split off and named by nested results; objects sent
  along (ptb-inspector:228) have no amount, and every split coin is called SUI;
* a transfer of whole objects only has coin "unknown", and beside one of split coins the value of the
  transaction is "mixed" (ptb-inspector:311), which a limit for SUI does not compare
  (policy-engine:92): such a transaction may send more SUI than the limit. `WithinRule` excepts
  exactly this case (`MixedTransfers`). With the default rules the unknown type of two commands
  still asks for confirmation; a limit without a coin asks too, as the amount is unknown;
* an amount that is "unknown" turns a max-value rule into a request for confirmation, and overwrites
  a rejection (`RejectionStands` says exactly when);
* three kinds of plans pass the schema and `validatePlan` and become no proposal: an amount with leading
  zeros is refused by `proposePtb`, which compares amounts as text, and for an amount beyond u64 or a
  recipient of more than 64 digits `buildTransfer` throws. `PlansAccepted` says that there are no others.

Left out: inspectable transfers whose amount is no integer (`inspect` throws). Bytes that do not parse
and transactions without commands are the opaque one.

### ReviewedPath

`HeavyPath` leaves open whether a proposal passes and what a policy decides; `ReviewedPath` puts
`ActionReview` in that place, for the action with hash `Reviewed`. `draft` is what this hash stands
for, a transaction and a manifest, so it never changes. `SubmitReviewed` is proposePtb: the
validation of the one component and the send of the other; it can be called again after a send
that threw. `DecideReviewed` is evaluateAndRecord, which turns the decision into the payload by
`Verdict`; as long as nothing is recorded the reviewer may evaluate again. The coordinator is that
of heavy-action-live.ts, which anchors with the expiry of the manifest. Every step is a step of
both components, or of one while the other stands still. `approvals` is history: the approving
decisions in the session and the policy each was given for. What `execute()` sends is its caller's
business: the SDK ties it to the approved action by the hash alone, and so does the model.

### SessionDiscovery

`poll[p]` is a call of `poll` by `p`, cut at its two awaits: `querying` a page and `hydrating`. The
pollers share `cursors`, `seen` and `active`. An event's position in `stream` is its id and its
cursor; `Emit` keeps to what the contract allows (adds who is no member, removes, grants to and
revokes from members). The state changes of a page are one step, since there is no await between.
`FailPoll` throws what the call had found; what it stored stays. `Restart` begins with the cursors
of the last result or with none. `told`, `before`, `begun` and `overtaken` are history: events reported,
events an earlier process had handled, the cursors the process began with, and groups about which a second event was emitted before the
first was read, for which `KnowsMembership` promises nothing. A query that finds no events answers
with the cursor it was given, as Sui nodes do.

### SessionTransport and MemoryTransport

`SessionTransport` has the messages of one group in `group`; sessions share it, and some messages
are no envelopes. `listing[r]` is a call of `list`, or of `waitForMessage` around it, cut at each
page; `sub[s]` is the loop of `subscribe` over the relayer's generator. In `MemoryTransport`,
`handlers[n]` is the n-th registered handler with what it was given; `sending[c]` is the send a
client awaits, at its place in the set. JavaScript visits entries that are added to a set while it
is iterated and passes over removed ones (`NextHandler`).

### AuditArchive

The script full-business-live.ts, place by place, over the session and the storage. An archive is
known by the number of messages it holds, which stands for its bytes and digest. The relayer
serves any prefix of the session; a blob is `there` at once or later, and may be spoiled; others
write to the session. The in-memory adapter is an alternative to Walrus (`provider`).

## 3. Runs

| Run | Bounds | What it shows |
| --- | --- | --- |
| `contract` | 2 registries, 1 hash, 2 accounts, u64 = 0..2, leases 0..2 | leases are exclusive, completions are leased, terms are kept, table and log agree, the lock is implemented |
| `contract_twice` (violated) | 1 registry, time to 6 | an executed action is claimed and executed again |
| `driver` | 1 registry, 1 action, 1 driver, 2 callers, time to 2, leases of 1, `QueryLimit` 1, `MaxLag` 1 | the events restore the table; the cache invents nothing; cached leases run on chain; returned claims exclude each other |
| `driver_registry` (violated) | 2 registries, 1 caller | a driver takes another registry's anchor for its own |
| `trace_verify` | 5 events, 2 traces, 1 action, sessions with up to 2 errors | the audit is exact; acceptance means evidence |
| `heavy_path` | 1 action, 2 executors, 4 events, 2 grants, time to 2 | what holds under races, failing sends, crashes and late completions; every call ends |
| `heavy_path_own_lease` (violated) | as `heavy_path`, 5 events | an outlived claim starts an execution |
| `heavy_path_chain` (violated) | 2 actions | interleaved traces fail the hash chain |
| `reviewed_path` | 2 actions, one of them reviewed, 1 executor, 4 events, 1 grant, time to 1; more below | an action runs only behind an approval that its bytes keep to, and not after its manifest has expired |
| `components` | see below | discovery, both transports, the archiving run, the review of an action and the local guard keep their promises |
| `unsimulated_approval` (violated) | the review's instance of `components` | facts that were never simulated are approved |
| `discovery_removed` (violated) | 1 group, 4 events, no faults, the loop alone | a removed actor is left with an active session |

`components` explores the components that share no state one at a time: `part` says which of them
moves, so that the state spaces add up instead of multiplying, and each is explored as if alone.

* discovery: 1 group, 3 events of its actor or of a stranger, pages of 1, 2 pages per type, the loop and
  one caller of `poll`, 1 failure, stop or restart. Two pollers over three types overlap in every
  way; two pages of one event leave a third event of a type to the next poll; with three events a
  cursor that is set back has an event behind it and one before it.
* reader and subscriber: 2 sessions and a text that is no envelope, up to 4 messages, pages of 1, 3
  pages: the window is one message shorter than the group, and every page may be followed by a send.
  The subscriber's relayer serves 2 messages at once.
* in-memory: 2 clients, 3 sends, 2 handlers: two sends overlap at different handlers, a handler
  joins or leaves in between.
* archive: 3 own events, 2 of others, 2 polls, 2 read attempts, both providers.
* local guard: 2 actions, 2 executors, time to 3, leases of 0 to 2, expiries of 0, 2 and 3: claim, lapse,
  re-claim and a late completion, of an action that is bound to an executor or not, and one that
  expires before its lease ends.
* review: transactions of every command kind alone and in company, one manifest that is right,
  the builders' and ten that are wrong in one part each, plans with every risk, amounts of 0, 2 and 4
  around a `MaxU64` of 3, a recipient in another spelling and one that is too long, 7 policies with every rule,
  2 registry entries over 2 functions and one change of the registry, 2 instants, both simulators.
  A limit of 2 over amounts of 1 and 2 has sums on both sides of it.

`reviewed_path` has as its drafts a payment of two coins whose sum is over the limit, a call of code that the
registry may come to know, and the agent's plans, whose amount is within the limit, with or
without leading zeros, or beyond `MaxU64`, which makes no draft; the default policy is evaluated with limits and without. So one draft
is refused, one approved under the limits only, one without them only, and one only if the registry
vouches for it in time. The other action shares guard and session, so that events,
anchors and claims of two traces mix. Four events are proposal, decision, anchor and claim; with four
and one grant an execution completes, and the receipt falls on the last place when another record
is lost.

Why the other bounds suffice. In `contract`, three instants are enough for claim, lapse, re-claim and
late completion, a lease of 2 at time 1 overflows, and two registries with one hash are what tells
a table per registry from one table. In `trace_verify`, five events are exactly the chain proposal,
decision, anchor, claim, receipt. In `heavy_path` the record of a claim may be lost, so four events
hold a whole path as well as one without its receipt; with leases of 1 and time to 2 the second
grant follows the lapse of the first, and two executors that share an address, or have none, are the case
in which the guard cannot tell them apart. In `driver`, two leases fit one after the other, one
caller's claim can finish when the other's has begun, and the query limit hides the second claim
and completion from every query while the lag hides the newest event; others act with the same
signer, which is what a second process of the executor does. `MaxAhead` is 0 there: local clocks
are right or behind (the time is read before the transaction); with a clock ahead the properties
allow for the difference. Deadlock is not checked where the bounded clock, log or
session may simply be used up.

Fairness is assumed where liveness is checked. In `heavy_path`: weak fairness of the steps inside a call, because a
promise that was started settles. Nothing makes an executor claim, begin or retry, and nothing
keeps it from crashing. In `components`, weak fairness of the start loop (queries, metadata and
handlers settle, its timer fires), of the steps inside a call of `poll`, `list` or `waitForMessage`,
of the loop of `subscribe` and of the archiving script. Nobody needs to poll, list or send.
`LoopTells` holds as long as nothing throws, because a loop that threw is over (session-discovery.ts:223),
and for the events behind the cursors its process began with (`ToBeTold`). What an earlier process read
is not promised: its loop may have marked an event as seen when a poll beside it returned cursors beyond
it; with these saved and the process ended, nobody reports that event.
`RunEnds` needs no help from outside: the deadline and the number of attempts end every wait.

Each property has a mutant: a definition of the model changed the way a bug would change the code,
under which TLC finds the property violated. The mutated forms stand before the definitions they
replace (for example `MayCloseAgain` before `MayClose`) and are used nowhere else.

## 4. Findings

* `contract_twice`: `claim_action` never looks at the status, so an executed action can be claimed
  and executed again; docs/end-to-end-flow.md:271 says duplicate execution must be blocked by the
  claim.
* `heavy_path_own_lease`: `executeApproved` compares the time with the lease of the anchor, not
  with that of the claim it was given; a lapsed claim runs when somebody else's lease is live.
* `driver_registry`: a driver restores by action hash from all events of the package, so it caches
  the anchor of another registry, although the documents invite apps to share the package and
  create registries of their own.
* `heavy_path_chain`: `verifyHashChain` compares neighbours in the session, while docs/protocol.md
  says the hash links the chain of a trace; two interleaved traces are rejected.
* `discovery_removed`: `poll` reads all removals before all permission events, so an actor that was
  added, granted a permission and removed before a poll ends up with an active session, although a
  test is named "removes active sessions when the actor is removed from a group".

* `unsimulated_approval`: `inspect` returns facts without a simulation, and `evaluate` looks at a
  simulation only if there is one, so an action is approved that was never simulated;
  docs/protocol.md:464 says "No successful inspect/simulate, no policy approval."

## 5. Proofs

All theorems hold for every value of the constants under the named assumptions: numbers are
naturals, bounds lie within u64, and the names used for "nothing" are not real ones. Every safety
invariant that a run expects to hold is a theorem.

*TraceContract.* The invariants are not inductive: that a new lease starts after the last one ended
needs to know that the table holds the latest lease of the log, and that the log lies in the past.
`IInv` adds exactly this: `LogInThePast`, `LatestLeaseKept`, `ClaimedFlag` (the flag and the status
agree) and `TermsKept` (the table holds the anchored terms). The lemmas `EventFields`,
`EmitsLemma`, `StoresLemma` reduce each entry point to one appended event and one stored record;
`ClaimInv`, `CloseInv`, `AnchorInv` and `QuietInv` keep `IInv`. `ContractImplementsLock` maps each
entry point to `Acquire`, `Finish` or a stutter.

*LocalTraceGuard.* `CallCases` shows that a call either changes nothing or stores a record in one
of three ways (`Anchoring`, `Claiming`, `Closing`); invariance and refinement follow case by case.
`ClaimantIffClaimed` is the strengthening.

*TraceVerify.* `SeenExactly` ties the reader's sets to the log and makes `ReportsExactly`
inductive; it carries the types of the reader's state as well (`VerifyTypeCorrect`). `VerdictKept` says that later events never change a verdict, `LastVerdict` what is asked
of the newest event. `AcceptanceIsEvidence` needs no induction: founded events chain backwards from
receipt to proposal (`FoundedChains`).

*SessionDiscovery.* `ToldOnce` rests on `ToldIsSeen` (what is told or under way has been seen) and
on a page's events being fresh only when unseen: that check and the mark are in one step, so no
overlap comes between. `NothingSkipped` needs `QueriesHonest` beside `CursorsHonest`: also the
cursor inside a call that is under way has no unhandled event behind it, since it will be stored
later, perhaps over a newer one; and the cursors an application keeps are honest for the restart.
`KnowsMembership` needs `OneByOne`: of a group that was not overtaken at most the newest event is
unseen, so the event a page brings is newer than all that was handled. That a page has a newest
event is proved by well-founded induction on finite sets (`FiniteSetTheorems`). Any number of
groups, pollers, page sizes and kinds of events, failures and restarts included.

*TraceGuardDriver.* One idea carries `DriverInv`: nothing that a driver holds is without an event of
the log that backs it (`Backed`), and the log only grows. The terms of the anchor, the claimant, and the
receipt, status and claimant of a completion each have their event; where the driver amended its
cache by a completion of its own, a "failed" may stand for the chain's "executed"
(trace-guard:463), and nothing else may (`Amended`). It says so of the cache (`CacheTold`), of every claim
object returned (`GrantsMade`) and, since a cache entry is written only when a call comes back from
its awaits, of everything inside a call under way (`CallsFit`): an anchor restored from events, an
answer that has arrived. What others do in between adds events and disturbs none of it
(`FitsStays`, `CacheStays`). `GrantsExclusive` needs `HeldApart`, which counts a lease as held from
the moment the transaction runs, before its caller hears of it; at that moment the contract's own
`IInv` says that every earlier claim has lapsed (`ClaimsLapse`). Each step of the drivers is a step
of the contract or leaves the chain alone (`DriverOnChain`), hence `DriversUseTheContract`, and
everything proved about the contract holds under the drivers. `RestoresTheTable` is proved on the
contract and carried over: `ToldInv` adds that the driver's sort by timestamp and kind is the order
of the log within an action (`InOrder`: a claim is anchored before, a completion claimed before, also
at the same instant), and that the table keeps the lease of the last claim and the receipt of the
last completion (`LeaseOfLast`, `ReceiptOfLast`). Any number of drivers, callers and registries, any
lag, query limit and lead of local clocks.

*ActionReview.* `ApprovalIsExact` and `RejectionIsFinal` carry through the loop what the rules
before `next` did (`EngineInv`): the decision is "approved" exactly if none of them objected, and a
rejection stands unless a later one of them overrides it. `ApprovalIsExact` states the equivalence the
code computes, `ApprovedExactly`, and what the run checks of it, `ApprovedByRules`.
`ApprovedWithinLimits`, `DangerReviewed` and `PlansAccepted` rest on `ReviewInv`, which adds
`FactsFit`: the facts in hand are those of the proposed transaction under *some* registry, the one
of the moment of the inspection, and the entry consulted is that registry's. The rest is about
values: what the facts say is what the bytes say, for every transaction that parses (`WellFormed`):
which commands are found and of which kind (`CommandsFound`, `KindsFound`, `PackagesFound`), and what
a transfer sends (`TransferAmount`). A limit binds a sum over all transfers of sums over their split
coins, while the property sums over the coins themselves, so a small library about
`SumFunctionOnSet` comes first (`SumTakes`, `SumRenamed`, `SumOfParts`, `SumOfSums`), which the
community modules do not prove; its inductions over finite sets are by smallest counterexample
(`MinimalSet`). `ValueWithin` joins both ends, and `WithinEveryRule` goes through the rules one by
one. `PlanProposal` computes the facts of the agent's transaction and compares them with its
manifest: of the plans that can be built exactly those with leading zeros are refused. The others,
which `buildTransfer` throws for, are the two remaining exceptions of `PlansAccepted`
(`KeptByFailing`). Any transactions, manifests, plans, registries, policies and times; the assumptions are
that the transactions and plans are shaped as the SDK's types and the schema say. `ReviewInv` holds
in the run's instance too: TLC checked it before it was proved, and so was the "mixed" gap
found, where `WithinEveryRule` failed.

*SessionTransport.* While a call of `list` fetches, all its pages have been full (`Reads`): what it
has is `pages * PageSize` messages long. With a page that is not full, or behind which the relayer
has nothing, it has reached the end of the group as it is then; else the window is full
(`FetchPageKeeps`). `PageShape` says what a page is, `SendKeeps` that messages which arrive between
two pages do not disturb the beginning. Any page size, window and number of messages.
`GivenInOrder` is about the loop of `subscribe`: `StreamInv` says that the batch in hand goes on
exactly where the loop is (`BatchFollows`) and that the handler was given, of the messages passed,
those of its session, all of them, each once and in order (`GivenSoFar`); a handler that fails and a
signal that aborts leave the loop where it is.

*AuditArchive.* `ArchiveInv` ties what the session holds to the place of the script: what has been
sent by then (`SentByPlace`), that without others the messages are the run's own in order
(`OwnInOrder`; the next one lands right behind them, `AloneLength`), and that an archive that was
sealed or referred to has at least as many messages as the run had sent by then (`ArchiveLarge`), so
that only messages of others can keep the receipt out of it. What was read back and accepted is what
was stored. Any number of events, polls,
attempts and events of others.

*MemoryTransport.* That an event is given once when its send is over needs to know how far each
send has got (`Progress`): the handlers up to the one awaited were given the event once unless they
left or came too late, those behind it were not given it. `NextHandlerFact` says that an iteration
passes over nobody who is subscribed, `Ready` and `VisitKeeps` treat the first and the later visits
of a send alike. The first handler sees the stored order because only a new event is ever given to
it (`GivenAfterVisit`). Any number of clients, events and handlers that come, go and throw.

*HeavyPath.* All five safety invariants follow from one `IInv`. `RecordIsLast` says that the guard's
record of an action is that of its last grant, closed exactly when the record says so;
`EarlierOver`, that all earlier grants have lapsed or were closed. The guard's methods are reduced
to three facts about the record (`GuardAnchors`, `GuardClaims`, `GuardCloses`), and
`TableGrants` and `TableCloses` keep the two. The lapse cannot come undone since time only goes on
(`TableQuiet`). The evidence in the session needs `ActorsRest`: whoever is about to write an event
can point at the one it rests on, which is already there; a send that throws may or may not have
stored its event, and either is covered by `SendKeeps`. `OnlyAnchorsGoMissing` leaves claims out
because `Rests` cannot say of a claim that its anchor is recorded. Any number of actions, executors
and events, and any leases.

*ReviewedPath.* `HeavySide` and `ReviewSide` show that each step of the path is a step of the heavy
path, or leaves it alone, and likewise of the review; hence `PathIsHeavy` and `PathIsReview`, and by
`PartsKeepTheirWord` every safety invariant of either part holds of both together.
`ExecutedWithinPolicy` needs `PathInv`, which is what no part can say alone: the approving decisions
in the session are those listed (`ApprovalsListed`), and what was true of the transaction when it was
approved is true still (`ApprovalsHold`), because the facts are found once and the hash stands for
one transaction (`DraftIsReviewed`, `KeptStays`); nobody was granted a claim before an approval was
recorded (`GrantsRest`), and the anchor ends with the manifest, so that no run begins later
(`EndsInTime`). Any number of actions and executors beside the reviewed one, any drafts, policies,
registries, leases and events.

*Side by side.* `ComponentsProofs` is about `MCComponents` for all values of its constants. A step
moves one component (`OneMoves`), so the conjunction of the five invariants is inductive (`AllHold`),
and with it `ComponentsTypeCorrect` and `ComponentsKeepTheirWord`, which lists every safety invariant
of the run.

*Types.* The invariants above carry the shape of the state, with numbers that are only naturals. That
they stay within their limits is proved on top, by an invariant each that would not be inductive
alone: `Tight` (a poll keeps to its pages and kinds), `Limits` (a reader asks for messages that were
there), `Bounded` (a handler joined at a message that is stored), `Tidy` (attempts are counted anew at
each wait; what is archived is a beginning of the session), and `Proper` (facts rest on an entry that
was in the registry: the first call of a transaction is a function, `EntryFound`). For
`LocalTraceGuard`, the contract, the driver, `TraceVerify` and `HeavyPath` the types are part of
their invariants; `LocalTypeOK` is checked as a part of `HeavyTypeOK`.

*Only model-checked.* All liveness (`CallsEnd`, `LoopTells`, `MessagesArrive`, `RunEnds`) and
everything about ENABLED, which are beyond this prover, and the six disagreements of section 4,
which are counterexamples. Induction over data and recursive operators are outside what the prover
can do too; no module uses RECURSIVE.

## 6. What is not modelled

* the codec's byte formats (BCS, base64url) and hashes: data layout and library code; an event
  decodes or does not, and is known by its hash;
* the memory adapter, which forwards each call to a client it is given;
* the messaging client, encryption and signing; editing and deleting messages on the relayer, which
  SuiMesh never does;
* full-regression-live.ts, which calls the modelled operations in another fixed order, and the
  set-up in live-common.ts;
* `light.sendMessage` and the memory methods of the SDK, whose events the heavy path does not read.
