----------------------- MODULE TraceGuardDriverProofs -----------------------
(***************************************************************************)
(* Theorems about TraceGuardDriver, for every set of drivers, callers and  *)
(* registries, every lag of the node and every page limit.                 *)
(*                                                                         *)
(* A step of a driver is a step of the contract, so the contract's own     *)
(* invariant IInv holds throughout.  What it is strengthened by is one     *)
(* idea: nothing a driver holds (in a call under way, in its cache, or     *)
(* returned to a caller) is without an event of the log that backs it, and *)
(* the log only grows.                                                     *)
(***************************************************************************)
EXTENDS TraceGuardDriver, TraceContractProofs, FiniteSetTheorems, WellFoundedInduction

-----------------------------------------------------------------------------
(***************************************************************************)
(* The order of the events, and the latest of a set of them.               *)
(***************************************************************************)
LEMMA RankType ==
  ASSUME TypeOK, NEW i \in DOMAIN log
  PROVE  /\ Rank(i) \in Nat /\ i \in Nat
         /\ log[i] \in Event /\ log[i].at \in Nat
  <1>1. i \in Nat /\ log[i] \in Event
    BY DEF TypeOK
  <1>2. log[i].at \in Nat /\ log[i].type \in {"anchored", "claimed", "completed"}
    BY <1>1, EventFields
  <1> QED
    BY <1>1, <1>2 DEF Rank

LEMMA PrecedesOrders ==
  ASSUME TypeOK
  PROVE  /\ \A i \in DOMAIN log : ~Precedes(i, i)
         /\ \A i, j \in DOMAIN log : Precedes(i, j) \/ Precedes(j, i) \/ i = j
         /\ \A i, j, k \in DOMAIN log : Precedes(i, j) /\ Precedes(j, k) => Precedes(i, k)
  <1>1. \A i \in DOMAIN log : Rank(i) \in Nat /\ i \in Nat /\ log[i].at \in Nat
    BY RankType
  <1>2. \A i \in DOMAIN log : ~Precedes(i, i)
    BY <1>1 DEF Precedes
  <1>3. \A i, j \in DOMAIN log : Precedes(i, j) \/ Precedes(j, i) \/ i = j
    BY <1>1 DEF Precedes
  <1>4. ASSUME NEW i \in DOMAIN log, NEW j \in DOMAIN log, NEW k \in DOMAIN log,
               Precedes(i, j), Precedes(j, k)
        PROVE  Precedes(i, k)
    <2>1. /\ Rank(i) \in Nat /\ i \in Nat /\ log[i].at \in Nat
          /\ Rank(j) \in Nat /\ j \in Nat /\ log[j].at \in Nat
          /\ Rank(k) \in Nat /\ k \in Nat /\ log[k].at \in Nat
      BY <1>1
    <2> QED
      BY <1>4, <2>1 DEF Precedes
  <1> QED
    BY <1>2, <1>3, <1>4

\* A finite set of events has one that all others precede: Latest is defined.
LEMMA LatestExists ==
  ASSUME TypeOK, NEW S, S \subseteq DOMAIN log, S # {}
  PROVE  \E x \in S : \A y \in S \ {x} : Precedes(y, x)
  <1> DEFINE Above(x) == {y \in S : Precedes(x, y)}
             T == {Above(x) : x \in S}
             F == FiniteSubsetsOf(S)
  <1>0. IsFiniteSet(S)
    <2>1. DOMAIN log = 1 .. Len(log) /\ Len(log) \in Nat
      BY DEF TypeOK
    <2>2. IsFiniteSet(1 .. Len(log))
      BY <2>1, FS_Interval
    <2>3. IsFiniteSet(DOMAIN log)
      BY <2>1, <2>2
    <2> QED
      BY <2>3, FS_Subset
  <1>1. IsWellFoundedOn(StrictSubsetOrdering(S), F)
    BY <1>0, FS_StrictSubsetOrderingWellFounded
  <1>2. T \subseteq F /\ T # {}
    <2>1. F = SUBSET S
      BY <1>0, FS_FiniteSubsetsOfFinite
    <2> HIDE DEF F
    <2> QED
      BY <2>1
  <1>3. PICK U \in T : \A V \in T : ~(<<V, U>> \in StrictSubsetOrdering(S))
    <2> HIDE DEF T, F
    <2> QED
      BY <1>1, <1>2, WFMin
  <1>4. PICK x \in S : U = Above(x)
    BY <1>3
  <1>5. \A y \in S : ~Precedes(x, y)
    <2> SUFFICES ASSUME NEW y \in S, Precedes(x, y) PROVE FALSE
      OBVIOUS
    <2>1. \A z \in S : Precedes(y, z) => Precedes(x, z)
      BY PrecedesOrders
    <2>2. y \in Above(x) /\ y \notin Above(y)
      BY PrecedesOrders
    <2>3. Above(y) \subseteq Above(x) /\ Above(y) # Above(x)
      BY <2>1, <2>2
    <2>4. <<Above(y), Above(x)>> \in StrictSubsetOrdering(S)
      BY <2>3 DEF StrictSubsetOrdering
    <2>5. Above(y) \in T
      OBVIOUS
    <2> HIDE DEF T, Above
    <2> QED
      BY <1>3, <1>4, <2>4, <2>5
  <1> QED
    BY <1>5, PrecedesOrders

LEMMA LatestIsLast ==
  ASSUME TypeOK, NEW S, S \subseteq DOMAIN log, S # {}
  PROVE  /\ Latest(S) \in S
         /\ \A j \in S \ {Latest(S)} : Precedes(j, Latest(S))
  BY LatestExists DEF Latest

\* Only one event of a set is preceded by all the others.
LEMMA LatestUnique ==
  ASSUME TypeOK, NEW S, S \subseteq DOMAIN log, NEW x \in S,
         \A j \in S \ {x} : Precedes(j, x)
  PROVE  Latest(S) = x
  <1>1. Latest(S) \in S /\ \A j \in S \ {Latest(S)} : Precedes(j, Latest(S))
    BY LatestIsLast
  <1> HIDE DEF Latest
  <1>2. CASE Latest(S) # x
    <2>1. Precedes(x, Latest(S)) /\ Precedes(Latest(S), x)
      BY <1>1, <1>2
    <2> QED
      BY <1>1, <2>1, PrecedesOrders
  <1> QED
    BY <1>2

-----------------------------------------------------------------------------
(***************************************************************************)
(* What the log has to have told for a driver to know it.                  *)
(***************************************************************************)

\* A claim was emitted whose lease is u, but for what the local clock is ahead.
LeaseTold(h, u) ==
    u = 0 \/ \E i \in DOMAIN log : /\ log[i].hash = h /\ log[i].type = "claimed"
                                   /\ u <= log[i].claimExpires + MaxAhead

EntryTold(d, h, e) == Backed(d, h, e) /\ LeaseTold(h, e.claimExpires)

\* The caller's driver made that claim itself, in its own registry.
ClaimMade(c, h, u) ==
    \E i \in DOMAIN log : /\ About(log[i], RegistryOf[Home(c)], h)
                          /\ log[i].type = "claimed"
                          /\ log[i].claimant = SignerOf[Home(c)]
                          /\ u <= log[i].claimExpires + MaxAhead

\* What anchor, complete and fail wait for.
AnchorMade(h, executor, expires) ==
    \E i \in DOMAIN log : /\ log[i].hash = h /\ log[i].type = "anchored"
                          /\ log[i].executor = executor /\ log[i].expires = expires

\* The status complete and fail leave on the chain.
Closing(op) == IF op = "fail" THEN "failed" ELSE "executed"

ClosureMade(c, h, receipt, status) ==
    \E i \in DOMAIN log : /\ log[i].hash = h /\ log[i].type = "completed"
                          /\ log[i].claimant = SignerOf[Home(c)]
                          /\ log[i].receipt = receipt /\ log[i].status = status

\* The log of a step extends the one before it, and time does not go back.
Grows == /\ DOMAIN log \subseteq DOMAIN log'
         /\ \A i \in DOMAIN log : log'[i] = log[i]
         /\ clock \in Nat /\ clock' \in Nat /\ clock <= clock'

LEMMA ChainGrows ==
  ASSUME TypeOK, [Next]_vars
  PROVE  Grows
  <1>1. clock \in Nat
    BY BoundsAssumption DEF TypeOK
  <1>2. TypeOK' /\ clock' \in Nat
    BY StepType, BoundsAssumption DEF TypeOK
  <1>3. ASSUME NEW e \in Event, log' = Append(log, e), clock' = clock
        PROVE  Grows
    <2>1. Emits(Len(log) + 1, e)
      BY <1>3, EmitsLemma
    <2> QED
      BY <1>1, <1>3, <2>1 DEF Emits, Grows
  <1>4. CASE Tick
    BY <1>1, <1>2, <1>4 DEF Tick, Grows
  <1>5. ASSUME UNCHANGED <<clock, log>>
        PROVE  Grows
    BY <1>1, <1>2, <1>5 DEF Grows
  <1>6. ASSUME NEW r \in Registries, NEW h \in Hashes, NEW sender \in Addresses,
               Transaction(r, h, sender)
        PROVE  Grows
    <2>1. ASSUME NEW e, log' = Append(log, e), clock' = clock
          PROVE  Grows
      <3>1. log \in Seq(Event) /\ log' \in Seq(Event)
        BY <1>2 DEF TypeOK
      <3> QED
        BY <1>1, <2>1, <3>1 DEF Grows
    <2> QED
      BY <1>6, <2>1 DEF Transaction, AnchorAction, ClaimAction, CompleteAction, FailAction,
                        Close
  <1> QED
    BY <1>4, <1>5, <1>6 DEF Next, CreateSharedRegistry, vars

\* An entry the log backs is backed by a log that goes on from it.
LEMMA BackedStays ==
  ASSUME Grows, NEW d, NEW h, NEW e, Backed(d, h, e)
  PROVE  Backed(d, h, e)'
  <1>1. \A i \in DOMAIN log : i \in DOMAIN log' /\ log'[i] = log[i]
    BY DEF Grows
  <1>2. \E i \in DOMAIN log' : /\ log'[i].hash = h /\ log'[i].type = "anchored"
                               /\ log'[i].executor = e.executor
                               /\ log'[i].expires = e.expires
    BY <1>1 DEF Backed
  <1>3. e.claimant # ZeroAddress =>
          \E i \in DOMAIN log' : /\ log'[i].hash = h /\ log'[i].type # "anchored"
                                 /\ log'[i].claimant = e.claimant
    BY <1>1 DEF Backed
  <1>4. e.status = "claimed" =>
          \E i \in DOMAIN log' : /\ log'[i].hash = h /\ log'[i].type = "claimed"
                                 /\ log'[i].claimant = e.claimant
    BY <1>1 DEF Backed
  <1>5. e.status \in {"executed", "failed"} =>
          \E i \in DOMAIN log' : /\ log'[i].hash = h /\ log'[i].type = "completed"
                                 /\ log'[i].receipt = e.receipt
                                 /\ Recorded(i, e)' \/ Amended(i, d, e)'
    BY <1>1 DEF Backed, Recorded, Amended
  <1> QED
    BY <1>2, <1>3, <1>4, <1>5 DEF Backed, Recorded, Amended

\* What was told stays told.
LEMMA ToldStays ==
  ASSUME Grows, NEW c, NEW d, NEW h, NEW e, NEW u, NEW executor, NEW expires, NEW receipt,
         NEW status
  PROVE  /\ Backed(d, h, e) => Backed(d, h, e)'
         /\ LeaseTold(h, u) => LeaseTold(h, u)'
         /\ EntryTold(d, h, e) => EntryTold(d, h, e)'
         /\ ClaimMade(c, h, u) => ClaimMade(c, h, u)'
         /\ AnchorMade(h, executor, expires) => AnchorMade(h, executor, expires)'
         /\ ClosureMade(c, h, receipt, status) => ClosureMade(c, h, receipt, status)'
  <1>1. Backed(d, h, e) => Backed(d, h, e)'
    BY BackedStays
  <1>2. ASSUME NEW v PROVE LeaseTold(h, v) => LeaseTold(h, v)'
    BY DEF Grows, LeaseTold
  <1>3. EntryTold(d, h, e) => EntryTold(d, h, e)'
    BY <1>1, <1>2 DEF EntryTold
  <1>4. ClaimMade(c, h, u) => ClaimMade(c, h, u)'
    BY DEF Grows, ClaimMade, About, Home
  <1>5. AnchorMade(h, executor, expires) => AnchorMade(h, executor, expires)'
    BY DEF Grows, AnchorMade
  <1>6. ClosureMade(c, h, receipt, status) => ClosureMade(c, h, receipt, status)'
    BY DEF Grows, ClosureMade, Home
  <1> QED
    BY <1>1, <1>2, <1>3, <1>4, <1>5, <1>6

-----------------------------------------------------------------------------
\* An anchor restored from events is an entry those events tell of.
LEMMA ToldBacked ==
  ASSUME TypeOK, NEW S, S \subseteq DOMAIN log, NEW h \in Hashes, Told(S, h) # NoEntry, NEW d
  PROVE  Told(S, h) \in Entry /\ EntryTold(d, h, Told(S, h))
  <1> DEFINE mine   == {i \in S : log[i].hash = h}
             opened == {i \in mine : log[i].type = "anchored"}
             base   == Latest(opened)
             since  == {i \in mine : Precedes(base, i)}
             claims == {i \in since : log[i].type = "claimed"}
             ends   == {i \in since : log[i].type = "completed"}
             last   == Latest({base} \cup since)
             entry  == [status       |-> StatusAfter(last),
                        executor     |-> log[base].executor,
                        claimant     |-> IF since = {} THEN ZeroAddress ELSE log[last].claimant,
                        expires      |-> log[base].expires,
                        claimExpires |-> IF claims = {} THEN 0
                                         ELSE log[Latest(claims)].claimExpires,
                        receipt      |-> IF ends = {} THEN NoReceipt
                                         ELSE log[Latest(ends)].receipt]
  <1>1. opened # {} /\ Told(S, h) = entry
    BY DEF Told
  <1>2. /\ base \in opened
        /\ \A j \in opened \ {base} : Precedes(j, base)
    <2>1. opened \subseteq DOMAIN log
      OBVIOUS
    <2> HIDE DEF opened
    <2> QED
      BY <1>1, <2>1, LatestIsLast
  <1> HIDE DEF base
  <1>3. claims # {} => Latest(claims) \in claims
    <2>1. claims \subseteq DOMAIN log
      OBVIOUS
    <2> HIDE DEF claims
    <2> QED
      BY <2>1, LatestIsLast
  <1>4. ends # {} => Latest(ends) \in ends
    <2>1. ends \subseteq DOMAIN log
      OBVIOUS
    <2> HIDE DEF ends
    <2> QED
      BY <2>1, LatestIsLast
  <1>5. /\ last \in {base} \cup since
        /\ \A j \in ({base} \cup since) \ {last} : Precedes(j, last)
    <2>1. {base} \cup since \subseteq DOMAIN log
      BY <1>2
    <2> HIDE DEF since
    <2> QED
      BY <2>1, LatestIsLast
  <1>6. \A i \in since : i \in claims \/ i \in ends
    <2> SUFFICES ASSUME NEW i \in since, log[i].type = "anchored" PROVE FALSE
      BY EventFields DEF TypeOK
    <2>1. i \in opened /\ i \in DOMAIN log /\ base \in DOMAIN log
      BY <1>2
    <2>2. Precedes(base, i) /\ (i # base => Precedes(i, base))
      BY <1>2, <2>1
    <2> QED
      BY <2>1, <2>2, PrecedesOrders
  <1>7. since # {} => last \in since
    <2> SUFFICES ASSUME NEW i \in since, last = base PROVE FALSE
      BY <1>5
    <2>1. i \in DOMAIN log /\ base \in DOMAIN log /\ Precedes(base, i)
      BY <1>2
    <2>2. i # base
      BY <2>1, PrecedesOrders
    <2>3. Precedes(i, base)
      BY <1>5, <2>2
    <2> QED
      BY <2>1, <2>3, PrecedesOrders
  <1> HIDE DEF last
  <1>7a. last \in ends => Latest(ends) = last
    <2> SUFFICES ASSUME last \in ends PROVE Latest(ends) = last
      OBVIOUS
    <2>1. ends \subseteq DOMAIN log /\ ends \subseteq since
      OBVIOUS
    <2>2. \A j \in ends \ {last} : Precedes(j, last)
      BY <1>5, <2>1
    <2> HIDE DEF ends
    <2> QED
      BY <2>1, <2>2, LatestUnique
  <1>8. \A i \in DOMAIN log : log[i] \in Event
    BY DEF TypeOK
  <1>9. base \in DOMAIN log /\ log[base] \in ActionAnchored /\ log[base].hash = h
    BY <1>2, <1>8 DEF Event, ActionAnchored, ActionClaimed, ActionCompleted
  <1>10. \A i \in claims : /\ i \in DOMAIN log /\ log[i] \in ActionClaimed
                           /\ log[i].type = "claimed" /\ log[i].hash = h
    BY <1>8 DEF Event, ActionAnchored, ActionClaimed, ActionCompleted
  <1>11. \A i \in ends : /\ i \in DOMAIN log /\ log[i] \in ActionCompleted
                         /\ log[i].type = "completed" /\ log[i].hash = h
    BY <1>8 DEF Event, ActionAnchored, ActionClaimed, ActionCompleted
  <1>12. \/ since = {} /\ last = base
         \/ since # {} /\ last \in claims
         \/ since # {} /\ last \in ends
    BY <1>5, <1>6, <1>7
  <1>13. claims \subseteq since /\ ends \subseteq since /\ U64 \subseteq Nat
    BY BoundsAssumption DEF U64
  <1>14. /\ log[base].type = "anchored"
         /\ log[base].executor \in Accounts /\ log[base].expires \in Nat
    BY <1>9, <1>13 DEF ActionAnchored
  <1>15. \A i \in claims : log[i].claimant \in Accounts /\ log[i].claimExpires \in Nat
    BY <1>10, <1>13 DEF ActionClaimed
  <1>16. \A i \in ends : /\ log[i].claimant \in Accounts /\ log[i].receipt \in Receipts
                         /\ log[i].status \in {"executed", "failed"}
    BY <1>11 DEF ActionCompleted
  <1> HIDE DEF claims, ends, since, opened, mine
  <1>17. /\ StatusAfter(last) \in Status \ {"absent"}
         /\ StatusAfter(last) = "anchored" => last = base
         /\ StatusAfter(last) = "claimed" => since # {} /\ last \in claims
         /\ StatusAfter(last) \in {"executed", "failed"} => ends # {}
    BY <1>10, <1>11, <1>12, <1>14, <1>15, <1>16 DEF StatusAfter, Status
  <1>18. entry.claimExpires \in Nat /\ LeaseTold(h, entry.claimExpires)
    <2>1. CASE claims = {}
      BY <2>1 DEF LeaseTold
    <2>2. CASE claims # {}
      <3>1. /\ Latest(claims) \in DOMAIN log /\ log[Latest(claims)].hash = h
            /\ log[Latest(claims)].type = "claimed"
            /\ entry.claimExpires = log[Latest(claims)].claimExpires
            /\ entry.claimExpires \in Nat
        BY <1>3, <1>10, <1>15, <2>2
      <3>2. entry.claimExpires <= log[Latest(claims)].claimExpires + MaxAhead
        BY <3>1, DriverAssumption
      <3> HIDE DEF entry
      <3> QED
        BY <3>1, <3>2 DEF LeaseTold
    <2> QED
      BY <2>1, <2>2
  <1>19. entry.receipt \in Receipts \cup {NoReceipt} /\ entry.claimant \in Accounts
    BY <1>4, <1>12, <1>15, <1>16 DEF Accounts
  <1>20. entry \in Entry
    <2>1. \A st \in Status \ {"absent"}, ex, cl \in Accounts, xp, ce \in Nat,
             re \in Receipts \cup {NoReceipt} :
             [status |-> st, executor |-> ex, claimant |-> cl, expires |-> xp,
              claimExpires |-> ce, receipt |-> re] \in Entry
      BY DEF Entry
    <2> QED
      BY <1>14, <1>17, <1>18, <1>19, <2>1
  <1>21. Backed(d, h, entry)
    <2>1. entry.status = StatusAfter(last) /\ entry.executor = log[base].executor
          /\ entry.expires = log[base].expires
      OBVIOUS
    <2>2. entry.claimant = IF since = {} THEN ZeroAddress ELSE log[last].claimant
      OBVIOUS
    <2>3. ends # {} => entry.receipt = log[Latest(ends)].receipt
      OBVIOUS
    <2> HIDE DEF entry
    <2>4. \E i \in DOMAIN log : /\ log[i].hash = h /\ log[i].type = "anchored"
                                /\ log[i].executor = entry.executor
                                /\ log[i].expires = entry.expires
      BY <1>9, <1>14, <2>1
    <2>5. entry.claimant # ZeroAddress =>
            \E i \in DOMAIN log : /\ log[i].hash = h /\ log[i].type # "anchored"
                                  /\ log[i].claimant = entry.claimant
      BY <1>10, <1>11, <1>12, <2>2
    <2>6. entry.status = "claimed" =>
            \E i \in DOMAIN log : /\ log[i].hash = h /\ log[i].type = "claimed"
                                  /\ log[i].claimant = entry.claimant
      BY <1>10, <1>17, <2>1, <2>2
    <2>7. ASSUME entry.status \in {"executed", "failed"}
          PROVE  \E i \in DOMAIN log : /\ log[i].hash = h /\ log[i].type = "completed"
                                       /\ log[i].receipt = entry.receipt
                                       /\ Recorded(i, entry)
      <3>1. since # {} /\ last \in ends
        BY <1>10, <1>12, <1>14, <2>1, <2>7 DEF StatusAfter
      <3>2. last \in DOMAIN log /\ log[last].type = "completed" /\ log[last].hash = h
        BY <1>11, <3>1
      <3>3. entry.status = log[last].status /\ entry.claimant = log[last].claimant
        BY <2>1, <2>2, <3>1, <3>2 DEF StatusAfter
      <3>4. entry.receipt = log[last].receipt
        BY <1>7a, <2>3, <3>1
      <3> QED
        BY <3>2, <3>3, <3>4 DEF Recorded
    <2> QED
      BY <2>4, <2>5, <2>6, <2>7 DEF Backed
  <1> HIDE DEF entry
  <1> QED
    BY <1>1, <1>18, <1>20, <1>21 DEF EntryTold

-----------------------------------------------------------------------------
(***************************************************************************)
(* The inductive invariant of a driver: what a call under way has behind   *)
(* it on the chain, and the same of what it left in the cache and returned.*)
(***************************************************************************)
CallFits(c, k) ==
    /\ k \in Call
    /\ k.stage # "idle" => k.hash \in Hashes
    /\ k.op = "claim" => k.lease \in Leases
    /\ k.op = "anchor" => k.expires \in Expiries
    /\ k.op \in {"complete", "fail"} => k.receipt \in Receipts
    /\ k.stage = "sent" => k.outcome = "none"
    /\ k.stage = "restored" => k.outcome = "ok"
    /\ k.op = "claim" /\ k.stage = "sent" => k.now <= clock + MaxAhead
    /\ k.op = "claim" /\ k.outcome = "ok" => ClaimMade(c, k.hash, k.now + k.lease)
    /\ k.op = "anchor" /\ k.stage = "answered" =>
          AnchorMade(k.hash, k.executor, k.expires)
    /\ k.op \in {"complete", "fail"} /\ k.outcome = "ok" =>
          ClosureMade(c, k.hash, k.receipt, Closing(k.op))
    /\ k.restored # NoEntry => EntryTold(Home(c), k.hash, k.restored)

CallsFit == \A c \in Callers : CallFits(c, call[c])

CacheTold == \A d \in Drivers, h \in Hashes :
                cache[d][h] # NoEntry => EntryTold(d, h, cache[d][h])

GrantsMade == \A c \in Callers, h \in Hashes :
                 granted[c][h] = 0 \/ ClaimMade(c, h, granted[c][h])

\* The leases of h a caller was granted, or will be once its call returns.
HeldIn(k, h) == {u \in {k.now + k.lease} : k.op = "claim" /\ k.outcome = "ok" /\ k.hash = h}
Held(c, h) == {granted[c][h]} \cup HeldIn(call[c], h)

Neighbours(b, c) == b # c /\ RegistryOf[Home(b)] = RegistryOf[Home(c)]

HeldApart ==
    \A b, c \in Callers, h \in Hashes : Neighbours(b, c) =>
        \A u \in Held(b, h), v \in Held(c, h) :
            u <= clock + MaxAhead \/ v <= clock + MaxAhead

DriverInv == /\ IInv
             /\ DriverTypeOK
             /\ CallsFit
             /\ CacheTold
             /\ GrantsMade
             /\ HeldApart

LEMMA NoCallFits ==
  ASSUME NEW c
  PROVE  CallFits(c, NoCall) /\ CallFits(c, NoCall)'
  <1>1. NoCall \in Call /\ NoCall \in Call'
    BY DEF NoCall, Call, Accounts
  <1> QED
    BY <1>1 DEF NoCall, CallFits

LEMMA HomeType ==
  ASSUME NEW c \in Callers
  PROVE  /\ Home(c) \in Drivers /\ RegistryOf[Home(c)] \in Registries
         /\ SignerOf[Home(c)] \in Addresses /\ MaxAhead \in Nat
  BY DriverAssumption DEF Home

\* The fields of a call that arithmetic and tables are about.
LEMMA CallFields ==
  ASSUME NEW k \in Call
  PROVE  /\ k.now \in Nat /\ k.lease \in Nat /\ k.read \subseteq DOMAIN log
         /\ k.executor \in Accounts /\ k.expires \in Nat
         /\ k.receipt \in Receipts \cup {NoReceipt}
         /\ k.restored \in Entry \cup {NoEntry}
         /\ k.hash \in Hashes \cup {NoEntry}
         /\ k.op \in {"none", "anchor", "claim", "complete", "fail", "get"}
         /\ k.stage \in {"idle", "sent", "answered", "reading", "restored"}
         /\ k.outcome \in {"none", "ok", "duplicate"}
  <1>1. Leases \subseteq Nat /\ Expiries \subseteq Nat
    BY BoundsAssumption
  <1>2. /\ k.now \in Nat /\ k.lease \in Leases \cup {0} /\ k.read \subseteq DOMAIN log
        /\ k.executor \in Accounts /\ k.expires \in Expiries \cup {0}
        /\ k.receipt \in Receipts \cup {NoReceipt}
        /\ k.restored \in Entry \cup {NoEntry}
        /\ k.hash \in Hashes \cup {NoEntry}
        /\ k.op \in {"none", "anchor", "claim", "complete", "fail", "get"}
        /\ k.stage \in {"idle", "sent", "answered", "reading", "restored"}
        /\ k.outcome \in {"none", "ok", "duplicate"}
    BY DEF Call
  <1>3. k.lease \in Nat /\ k.expires \in Nat
    <2>1. PICK l, x : l = k.lease /\ x = k.expires
      OBVIOUS
    <2>2. l \in Leases \cup {0} /\ x \in Expiries \cup {0}
      BY <1>2, <2>1
    <2>3. l \in Nat /\ x \in Nat
      BY <1>1, <2>2
    <2> QED
      BY <2>1, <2>3
  <1> QED
    BY <1>2, <1>3

\* Time passing and events added leave a call what it was.
LEMMA FitsStays ==
  ASSUME Grows, NEW c \in Callers, NEW k, CallFits(c, k)
  PROVE  CallFits(c, k)'
  <1>1. k \in Call'
    BY DEF CallFits, Call, Grows
  <1>2. k.op = "claim" /\ k.stage = "sent" => k.now <= clock' + MaxAhead
    BY HomeType DEF CallFits, Call, Grows
  <1>3. /\ ClaimMade(c, k.hash, k.now + k.lease) => ClaimMade(c, k.hash, k.now + k.lease)'
        /\ AnchorMade(k.hash, k.executor, k.expires)
              => AnchorMade(k.hash, k.executor, k.expires)'
        /\ ClosureMade(c, k.hash, k.receipt, Closing(k.op))
              => ClosureMade(c, k.hash, k.receipt, Closing(k.op))'
        /\ EntryTold(Home(c), k.hash, k.restored)
              => EntryTold(Home(c), k.hash, k.restored)'
    BY ToldStays DEF Home, Closing
  <1> QED
    BY <1>1, <1>2, <1>3 DEF CallFits, Home, Closing

\* One call becomes k.
Becomes(c, k) == call' = [call EXCEPT ![c] = k]

LEMMA CallBecomes ==
  ASSUME DriverInv, Grows, NEW c \in Callers, NEW k, Becomes(c, k), CallFits(c, k)'
  PROVE  /\ CallsFit' /\ call' \in [Callers -> Call']
         /\ call'[c] = k /\ \A b \in Callers \ {c} : call'[b] = call[b]
  <1>1. call \in [Callers -> Call]
    BY DEF DriverInv, DriverTypeOK
  <1>2. /\ DOMAIN call' = Callers /\ call' = [b \in Callers |-> call'[b]]
        /\ call'[c] = k /\ \A b \in Callers \ {c} : call'[b] = call[b]
    BY <1>1 DEF Becomes
  <1>3. ASSUME NEW b \in Callers
        PROVE  CallFits(b, call[b])'
    <2>1. CASE b = c
      BY <1>2, <2>1
    <2>2. CASE b # c
      <3>1. PICK m : m = call[b]
        OBVIOUS
      <3>2. CallFits(b, m)
        BY <3>1 DEF DriverInv, CallsFit
      <3>3. CallFits(b, m)'
        BY <3>2, FitsStays
      <3> QED
        BY <1>2, <2>2, <3>1, <3>3
    <2> QED
      BY <2>1, <2>2
  <1>4. CallsFit'
    BY <1>3 DEF CallsFit
  <1>5. \A b \in Callers : call'[b] \in Call'
    BY <1>3 DEF CallFits
  <1> QED
    BY <1>2, <1>4, <1>5

\* One cached anchor becomes e.
LEMMA CacheBecomes ==
  ASSUME DriverInv, Grows, NEW d \in Drivers, NEW h \in Hashes, NEW e \in Entry \cup {NoEntry},
         cache' = [cache EXCEPT ![d][h] = e], EntryTold(d, h, e)'
  PROVE  CacheTold' /\ cache' \in [Drivers -> [Hashes -> Entry \cup {NoEntry}]]
  <1>1. cache \in [Drivers -> [Hashes -> Entry \cup {NoEntry}]]
    BY DEF DriverInv, DriverTypeOK
  <1>2. cache' \in [Drivers -> [Hashes -> Entry \cup {NoEntry}]]
    BY <1>1
  <1>3. /\ cache'[d][h] = e
        /\ \A q \in Drivers, g \in Hashes :
              ~(q = d /\ g = h) => cache'[q][g] = cache[q][g]
    BY <1>1
  <1>4. ASSUME NEW q \in Drivers, NEW g \in Hashes, cache'[q][g] # NoEntry
        PROVE  EntryTold(q, g, cache[q][g])'
    <2>1. CASE q = d /\ g = h
      BY <1>3, <2>1
    <2>2. CASE ~(q = d /\ g = h)
      <3>1. PICK m : m = cache[q][g]
        OBVIOUS
      <3>2. cache'[q][g] = m /\ EntryTold(q, g, m)
        BY <1>3, <1>4, <2>2, <3>1 DEF DriverInv, CacheTold
      <3>3. EntryTold(q, g, m)'
        BY <3>2, ToldStays
      <3> QED
        BY <3>2, <3>3
    <2> QED
      BY <2>1, <2>2
  <1> QED
    BY <1>2, <1>4 DEF CacheTold

LEMMA CacheStays ==
  ASSUME DriverInv, Grows, UNCHANGED cache
  PROVE  CacheTold' /\ cache' \in [Drivers -> [Hashes -> Entry \cup {NoEntry}]]
  <1>1. cache' \in [Drivers -> [Hashes -> Entry \cup {NoEntry}]]
    BY DEF DriverInv, DriverTypeOK
  <1>2. ASSUME NEW q \in Drivers, NEW g \in Hashes, cache'[q][g] # NoEntry
        PROVE  EntryTold(q, g, cache[q][g])'
    <2>1. PICK m : m = cache[q][g]
      OBVIOUS
    <2>2. cache'[q][g] = m /\ EntryTold(q, g, m)
      BY <1>2, <2>1 DEF DriverInv, CacheTold
    <2>3. EntryTold(q, g, m)'
      BY <2>2, ToldStays
    <2> QED
      BY <2>2, <2>3
  <1> QED
    BY <1>1, <1>2 DEF CacheTold

\* Whatever a caller holds was claimed on the chain for it.
LEMMA HeldMade ==
  ASSUME DriverInv, NEW c \in Callers, NEW h \in Hashes, NEW u \in Held(c, h)
  PROVE  u \in Nat /\ (u = 0 \/ ClaimMade(c, h, u))
  <1>1. CASE u = granted[c][h]
    <2>1. granted[c][h] \in Nat
      BY DEF DriverInv, DriverTypeOK
    <2> QED
      BY <1>1, <2>1 DEF DriverInv, GrantsMade
  <1>2. CASE u \in HeldIn(call[c], h)
    <2>1. CallFits(c, call[c])
      BY DEF DriverInv, CallsFit
    <2>2. /\ u = call[c].now + call[c].lease
          /\ call[c].op = "claim" /\ call[c].outcome = "ok" /\ call[c].hash = h
      BY <1>2 DEF HeldIn
    <2>3. call[c].now \in Nat /\ call[c].lease \in Nat
      BY <2>1, CallFields DEF CallFits
    <2> QED
      BY <2>1, <2>2, <2>3 DEF CallFits
  <1> QED
    BY <1>1, <1>2 DEF Held

\* Leases kept apart stay so as long as nobody holds a new one.
LEMMA ApartStays ==
  ASSUME DriverInv, Grows,
         \A c \in Callers, h \in Hashes : Held(c, h)' \subseteq Held(c, h) \cup {0}
  PROVE  HeldApart'
  <1> SUFFICES ASSUME NEW b \in Callers, NEW c \in Callers, NEW h \in Hashes,
                      Neighbours(b, c), NEW u \in Held(b, h)', NEW v \in Held(c, h)'
               PROVE  u <= clock' + MaxAhead \/ v <= clock' + MaxAhead
    BY DEF HeldApart, Neighbours, Home
  <1>1. clock \in Nat /\ clock' \in Nat /\ clock <= clock' /\ MaxAhead \in Nat
    BY DriverAssumption DEF Grows
  <1>2. CASE u = 0 \/ v = 0
    BY <1>1, <1>2
  <1>3. CASE u \in Held(b, h) /\ v \in Held(c, h)
    <2>0. PICK s, t \in Nat : s = clock /\ t = clock'
      BY <1>1
    <2>1. u <= s + MaxAhead \/ v <= s + MaxAhead
      BY <1>3, <2>0 DEF DriverInv, HeldApart
    <2>2. u \in Nat
      BY <1>3, HeldMade
    <2>3. v \in Nat
      BY <1>3, HeldMade
    <2>4. s <= t
      BY <1>1, <2>0
    <2>5. u <= t + MaxAhead \/ v <= t + MaxAhead
      <3>1. MaxAhead \in Nat
        BY <1>1
      <3> QED
        BY <2>1, <2>2, <2>3, <2>4, <3>1
    <2> QED
      BY <2>0, <2>5
  <1> QED
    BY <1>2, <1>3

-----------------------------------------------------------------------------
(***************************************************************************)
(* Every step of a driver is a step of the contract, or none: a driver can *)
(* do on the chain only what the entry points let its signer do.           *)
(***************************************************************************)
LEMMA DriverOnChain ==
  ASSUME DriverTypeOK, CallsFit, [DriverNext]_allVars
  PROVE  [Next]_vars
  <1>1. ASSUME NEW c \in Callers, call[c].stage = "sent", EntryPoint(c)
        PROVE  Next
    <2>1. PICK k \in Call : k = call[c]
      BY DEF DriverTypeOK
    <2>2. PICK r, s : r = RegistryOf[Home(c)] /\ s = SignerOf[Home(c)]
      OBVIOUS
    <2>3. r \in Registries /\ s \in Addresses
      BY <2>2, HomeType
    <2>4. /\ k.hash \in Hashes
          /\ k.executor \in Accounts
          /\ k.op = "claim" => k.lease \in Leases
          /\ k.op = "anchor" => k.expires \in Expiries
          /\ k.op \in {"complete", "fail"} => k.receipt \in Receipts
      BY <1>1, <2>1, CallFields DEF CallsFit, CallFits
    <2>5. \/ k.op = "anchor" /\ AnchorAction(r, k.hash, s, TRUE, k.executor, k.expires)
          \/ k.op = "claim" /\ ClaimAction(r, k.hash, s, k.lease)
          \/ k.op = "complete" /\ CompleteAction(r, k.hash, s, k.receipt)
          \/ k.op = "fail" /\ FailAction(r, k.hash, s, k.receipt)
      BY <1>1, <2>1, <2>2 DEF EntryPoint
    <2>6. Transaction(r, k.hash, s)
      <3>1. CASE k.op = "anchor" /\ AnchorAction(r, k.hash, s, TRUE, k.executor, k.expires)
        BY <2>4, <3>1 DEF Transaction
      <3>2. CASE k.op = "claim" /\ ClaimAction(r, k.hash, s, k.lease)
        BY <2>4, <3>2 DEF Transaction
      <3>3. CASE k.op = "complete" /\ CompleteAction(r, k.hash, s, k.receipt)
        BY <2>4, <3>3 DEF Transaction
      <3>4. CASE k.op = "fail" /\ FailAction(r, k.hash, s, k.receipt)
        BY <2>4, <3>4 DEF Transaction
      <3> QED
        BY <2>5, <3>1, <3>2, <3>3, <3>4
    <2> QED
      BY <2>3, <2>4, <2>6 DEF Next
  <1>2. ASSUME NEW c \in Callers, CallStep(c)
        PROVE  Next \/ UNCHANGED vars
    <2>1. CASE Execute(c)
      BY <1>1, <2>1 DEF Execute
    <2>2. CASE ~Execute(c)
      BY <1>2, <2>2 DEF CallStep, Refuse, RefuseDuplicate, RememberAnchor,
         ReturnDuplicate, RestoreDuplicate, ReadEvents, FailReading, RestoreAndReturn,
         RestoreAnchor, FinishClaim, FinishClose, chainVars, vars
    <2> QED
      BY <2>1, <2>2
  <1>3. ASSUME NEW c \in Callers, NEW h \in Hashes,
               \/ StartAnchor(c, h) \/ StartClaim(c, h) \/ StartComplete(c, h)
               \/ StartFail(c, h) \/ StartGet(c, h)
        PROVE  UNCHANGED vars
    BY <1>3 DEF StartAnchor, StartClaim, StartComplete, StartFail, StartGet, Begin,
                chainVars, vars
  <1>4. ASSUME NEW d \in Drivers, Restart(d)
        PROVE  UNCHANGED vars
    BY <1>4 DEF Restart, chainVars, vars
  <1>5. CASE UNCHANGED allVars
    BY <1>5 DEF allVars, vars
  <1> QED
    BY <1>2, <1>3, <1>4, <1>5 DEF DriverNext, Others

-----------------------------------------------------------------------------
(***************************************************************************)
(* A step of one caller that grants it no lease it did not hold already.   *)
(***************************************************************************)
LEMMA CallerStep ==
  ASSUME DriverInv, Grows, IInv', NEW c \in Callers, NEW k,
         Becomes(c, k), CallFits(c, k)',
         CacheTold', cache' \in [Drivers -> [Hashes -> Entry \cup {NoEntry}]],
         granted' \in [Callers -> [Hashes -> Nat]],
         \A b \in Callers \ {c} : granted'[b] = granted[b],
         \A h \in Hashes : {granted'[c][h]} \cup HeldIn(k, h) \subseteq Held(c, h)
  PROVE  DriverInv'
  <1>1. /\ CallsFit' /\ call' \in [Callers -> Call']
        /\ call'[c] = k /\ \A b \in Callers \ {c} : call'[b] = call[b]
    BY CallBecomes
  <1>2. ASSUME NEW b \in Callers, NEW h \in Hashes
        PROVE  Held(b, h)' \subseteq Held(b, h)
    <2>1. CASE b = c
      <3>1. Held(b, h)' = {granted'[c][h]} \cup HeldIn(k, h)
        BY <1>1, <2>1 DEF Held, HeldIn
      <3> QED
        BY <2>1, <3>1
    <2>2. CASE b # c
      BY <1>1, <2>2 DEF Held, HeldIn
    <2> QED
      BY <2>1, <2>2
  <1>3. HeldApart'
    BY <1>2, ApartStays
  <1>4. GrantsMade'
    <2> SUFFICES ASSUME NEW b \in Callers, NEW h \in Hashes
                 PROVE  granted'[b][h] = 0 \/ ClaimMade(b, h, granted[b][h])'
      BY DEF GrantsMade
    <2>1. PICK u : u = granted'[b][h]
      OBVIOUS
    <2>2. u \in Held(b, h)'
      BY <2>1 DEF Held
    <2>3. u \in Held(b, h)
      BY <1>2, <2>2
    <2>4. u = 0 \/ ClaimMade(b, h, u)
      BY <2>3, HeldMade
    <2>5. u = 0 \/ ClaimMade(b, h, u)'
      BY <2>4, ToldStays
    <2> QED
      BY <2>1, <2>5
  <1>5. DriverTypeOK'
    BY <1>1 DEF DriverTypeOK, IInv
  <1> QED
    BY <1>1, <1>3, <1>4, <1>5 DEF DriverInv

\* The same of a step that returns nothing as claimed.
LEMMA QuietCallerStep ==
  ASSUME DriverInv, Grows, IInv', NEW c \in Callers, NEW k,
         Becomes(c, k), CallFits(c, k)',
         CacheTold', cache' \in [Drivers -> [Hashes -> Entry \cup {NoEntry}]],
         UNCHANGED granted,
         \A h \in Hashes : HeldIn(k, h) \subseteq HeldIn(call[c], h)
  PROVE  DriverInv'
  <1>1. granted' \in [Callers -> [Hashes -> Nat]]
    BY DEF DriverInv, DriverTypeOK
  <1>2. \A h \in Hashes : {granted'[c][h]} \cup HeldIn(k, h) \subseteq Held(c, h)
    BY DEF Held
  <1>3. \A b \in Callers \ {c} : granted'[b] = granted[b]
    OBVIOUS
  <1> QED
    BY <1>1, <1>2, <1>3, CallerStep

\* A caller that is not under way to a claim holds what it was granted.
LEMMA HoldsNothing ==
  ASSUME NEW k, NEW h, k.op # "claim" \/ k.outcome # "ok"
  PROVE  HeldIn(k, h) = {}
  BY DEF HeldIn

LEMMA ReturnStep ==
  ASSUME DriverInv, Grows, IInv', NEW c \in Callers, Return(c), CacheTold',
         cache' \in [Drivers -> [Hashes -> Entry \cup {NoEntry}]], UNCHANGED granted
  PROVE  DriverInv'
  <1>1. CallFits(c, NoCall)'
    BY NoCallFits
  <1>2. Becomes(c, NoCall)
    BY DEF Return, Becomes
  <1>3. \A h : HeldIn(NoCall, h) = {}
    BY HoldsNothing DEF NoCall
  <1> HIDE DEF NoCall
  <1> QED
    BY <1>1, <1>2, <1>3, QuietCallerStep

-----------------------------------------------------------------------------
LEMMA DriverInitInv == DriverInit => DriverInv
  <1> SUFFICES ASSUME DriverInit PROVE DriverInv
    OBVIOUS
  <1>1. IInv
    BY InitInv DEF DriverInit
  <1>2. \A c : CallFits(c, NoCall)
    BY NoCallFits
  <1>3. \A c \in Callers : call[c] = NoCall
    BY DEF DriverInit
  <1>4. CallsFit
    BY <1>2, <1>3 DEF CallsFit
  <1>5. CacheTold
    BY DEF DriverInit, CacheTold
  <1>6. GrantsMade
    BY DEF DriverInit, GrantsMade
  <1>7. DriverTypeOK
    <2>1. \A c : NoCall \in Call
      BY <1>2 DEF CallFits
    <2> QED
      BY <1>1, <2>1 DEF IInv, DriverInit, DriverTypeOK
  <1>8. HeldApart
    <2>1. \A h : HeldIn(NoCall, h) = {}
      BY HoldsNothing DEF NoCall
    <2>2. \A c \in Callers, h \in Hashes : Held(c, h) = {0}
      BY <1>3, <2>1 DEF Held, DriverInit
    <2>3. 0 <= clock + MaxAhead
      BY <1>1, BoundsAssumption, DriverAssumption DEF IInv, TypeOK
    <2> QED
      BY <2>2, <2>3 DEF HeldApart
  <1> QED
    BY <1>1, <1>4, <1>5, <1>6, <1>7, <1>8 DEF DriverInv

-----------------------------------------------------------------------------
\* A call that begins has nothing to show for it yet.
LEMMA BeginningFits ==
  ASSUME NEW c, NEW k \in Call', k.hash \in Hashes, k.outcome = "none",
         k.stage \in {"sent", "reading"}, k.restored = NoEntry,
         k.op = "claim" => k.lease \in Leases /\ k.now <= clock' + MaxAhead,
         k.op = "anchor" => k.expires \in Expiries,
         k.op \in {"complete", "fail"} => k.receipt \in Receipts
  PROVE  CallFits(c, k)'
  BY DEF CallFits

LEMMA StartsInv ==
  ASSUME DriverInv, Grows, IInv', NEW c \in Callers, NEW k, CallFits(c, k)',
         Begin(c, k), k.outcome = "none"
  PROVE  DriverInv'
  <1>1. Becomes(c, k) /\ UNCHANGED <<cache, granted>>
    BY DEF Begin, Becomes
  <1>2. \A h : HeldIn(k, h) = {}
    BY HoldsNothing
  <1> QED
    BY <1>1, <1>2, CacheStays, QuietCallerStep

LEMMA StartInv ==
  ASSUME DriverInv, Grows, IInv', NEW c \in Callers, NEW h \in Hashes,
         \/ StartAnchor(c, h) \/ StartClaim(c, h) \/ StartComplete(c, h)
         \/ StartFail(c, h) \/ StartGet(c, h)
  PROVE  DriverInv'
  <1>1. NoCall \in Call'
    BY NoCallFits DEF CallFits
  <1>2. CASE StartAnchor(c, h)
    <2>1. PICK executor \in Addresses, expires \in Expiries :
            Begin(c, [NoCall EXCEPT !.op = "anchor", !.stage = "sent", !.hash = h,
                                    !.executor = executor, !.expires = expires])
      BY <1>2 DEF StartAnchor
    <2> DEFINE k == [NoCall EXCEPT !.op = "anchor", !.stage = "sent", !.hash = h,
                                   !.executor = executor, !.expires = expires]
    <2>2. CallFits(c, k)' /\ k.outcome = "none"
      <3>1. k \in Call'
        BY <1>1 DEF Call, Accounts
      <3>2. /\ k.hash = h /\ k.outcome = "none" /\ k.restored = NoEntry
            /\ k.op = "anchor" /\ k.stage = "sent" /\ k.expires = expires
        BY DEF NoCall
      <3> HIDE DEF k
      <3> QED
        BY <3>1, <3>2, BeginningFits
    <2> HIDE DEF k
    <2> QED
      BY <2>1, <2>2, StartsInv DEF k
  <1>3. CASE StartClaim(c, h)
    <2>1. PICK lease \in Leases, now \in clock .. clock + MaxAhead :
            Begin(c, [NoCall EXCEPT !.op = "claim", !.stage = "sent", !.hash = h,
                                    !.lease = lease, !.now = now])
      BY <1>3 DEF StartClaim
    <2> DEFINE k == [NoCall EXCEPT !.op = "claim", !.stage = "sent", !.hash = h,
                                   !.lease = lease, !.now = now]
    <2>2. now \in Nat /\ now <= clock' + MaxAhead
      <3>1. clock' = clock /\ clock \in Nat /\ MaxAhead \in Nat
        BY <2>1, DriverAssumption DEF Begin, chainVars, Grows
      <3> QED
        BY <3>1
    <2>3. CallFits(c, k)' /\ k.outcome = "none"
      <3>1. k \in Call'
        BY <1>1, <2>2 DEF Call, Accounts
      <3>2. /\ k.hash = h /\ k.outcome = "none" /\ k.restored = NoEntry
            /\ k.op = "claim" /\ k.stage = "sent" /\ k.lease = lease /\ k.now = now
        BY DEF NoCall
      <3> HIDE DEF k
      <3> QED
        BY <3>1, <3>2, <2>2, BeginningFits
    <2> HIDE DEF k
    <2> QED
      BY <2>1, <2>3, StartsInv DEF k
  <1>4. ASSUME NEW receipt \in Receipts, NEW op \in {"complete", "fail"},
               Begin(c, [NoCall EXCEPT !.op = op, !.stage = "sent", !.hash = h,
                                       !.receipt = receipt])
        PROVE  DriverInv'
    <2> DEFINE k == [NoCall EXCEPT !.op = op, !.stage = "sent", !.hash = h,
                                   !.receipt = receipt]
    <2>1. CallFits(c, k)' /\ k.outcome = "none"
      <3>1. k \in Call'
        BY <1>1 DEF Call, Accounts
      <3>2. /\ k.hash = h /\ k.outcome = "none" /\ k.restored = NoEntry
            /\ k.op = op /\ k.stage = "sent" /\ k.receipt = receipt
        BY DEF NoCall
      <3> HIDE DEF k
      <3> QED
        BY <3>1, <3>2, BeginningFits
    <2> HIDE DEF k
    <2> QED
      BY <1>4, <2>1, StartsInv DEF k
  <1>5. CASE StartGet(c, h)
    <2> DEFINE k == [NoCall EXCEPT !.op = "get", !.stage = "reading", !.hash = h,
                                   !.pending = QueryOrder]
    <2>1. QueryOrder \in Seq(EventTypes)
      BY DEF QueryOrder, EventTypes
    <2>2. CallFits(c, k)' /\ k.outcome = "none"
      <3>1. k \in Call'
        BY <1>1, <2>1 DEF Call, Accounts
      <3>2. /\ k.hash = h /\ k.outcome = "none" /\ k.restored = NoEntry
            /\ k.op = "get" /\ k.stage = "reading"
        BY DEF NoCall
      <3> HIDE DEF k
      <3> QED
        BY <3>1, <3>2, <2>1, BeginningFits
    <2>3. Begin(c, k)
      BY <1>5 DEF StartGet
    <2> HIDE DEF k
    <2> QED
      BY <2>2, <2>3, StartsInv
  <1> QED
    BY <1>2, <1>3, <1>4, <1>5 DEF StartComplete, StartFail

-----------------------------------------------------------------------------
\* A call moving on: it keeps what it was given, and what it has read stays typed.
MovesOn(k, j) ==
    /\ j.op = k.op /\ j.hash = k.hash /\ j.now = k.now /\ j.lease = k.lease
    /\ j.executor = k.executor /\ j.expires = k.expires /\ j.receipt = k.receipt

Advanced(k, stage, outcome, pending) ==
    [k EXCEPT !.stage = stage, !.outcome = outcome, !.pending = pending]

LEMMA AdvanceType ==
  ASSUME NEW k \in Call, Grows,
         NEW stage \in {"idle", "sent", "answered", "reading", "restored"},
         NEW outcome \in {"none", "ok", "duplicate"}, NEW pending \in Seq(EventTypes),
         NEW j, j = Advanced(k, stage, outcome, pending)
  PROVE  /\ j \in Call' /\ MovesOn(k, j)
         /\ j.stage = stage /\ j.outcome = outcome /\ j.restored = k.restored
  <1> USE DEF Advanced
  <1>1. k \in Call'
    BY DEF Call, Grows
  <1>2. j \in Call'
    BY <1>1 DEF Call
  <1> QED
    BY <1>2 DEF Call, MovesOn

\* Answering, and moving on to the queries, as one update of the call.
LEMMA AnswerAsUpdate ==
  ASSUME DriverTypeOK, NEW c \in Callers, NEW k \in Call, k = call[c], NEW outcome
  PROVE  /\ Reading(c, outcome) =>
              Becomes(c, Advanced(k, "reading", outcome, QueryOrder))
         /\ Answered(c, outcome) /\ (k.op = "anchor" \/ outcome = "duplicate") =>
              Becomes(c, Advanced(k, "answered", outcome, k.pending))
         /\ Answered(c, outcome) /\ ~(k.op = "anchor" \/ outcome = "duplicate") =>
              Becomes(c, Advanced(k, "reading", outcome, QueryOrder))
  <1> USE DEF Advanced
  <1>1. call \in [Callers -> Call]
    BY DEF DriverTypeOK
  <1>2. ASSUME Reading(c, outcome)
        PROVE  Becomes(c, Advanced(k, "reading", outcome, QueryOrder))
    BY <1>1, <1>2 DEF Reading, Becomes
  <1>3. [k EXCEPT !.stage = "answered", !.outcome = outcome]
          = Advanced(k, "answered", outcome, k.pending)
    BY DEF Call
  <1>4. ASSUME call' = [call EXCEPT ![c].stage = "answered", ![c].outcome = outcome]
        PROVE  Becomes(c, Advanced(k, "answered", outcome, k.pending))
    <2>1. call' = [call EXCEPT ![c] = [k EXCEPT !.stage = "answered", !.outcome = outcome]]
      BY <1>1, <1>4
    <2> QED
      BY <1>3, <2>1 DEF Becomes
  <1> QED
    BY <1>2, <1>4 DEF Answered

LEMMA QueriesType == QueryOrder \in Seq(EventTypes)
  BY DEF QueryOrder, EventTypes

\* A transaction executed is what the call goes on from.
LEMMA ExecutedFits ==
  ASSUME DriverInv, Grows, NEW c \in Callers, NEW k \in Call, CallFits(c, k),
         k.stage = "sent", k.op \in {"anchor", "claim", "complete", "fail"},
         k.op = "claim" => ClaimMade(c, k.hash, k.now + k.lease)',
         k.op = "anchor" => AnchorMade(k.hash, k.executor, k.expires)',
         k.op \in {"complete", "fail"} =>
            ClosureMade(c, k.hash, k.receipt, Closing(k.op))',
         NEW j \in Call', MovesOn(k, j), j.outcome = "ok", j.restored = k.restored,
         j.stage \in {"answered", "reading"}
  PROVE  CallFits(c, j)'
  <1>1. k.restored # NoEntry => EntryTold(Home(c), k.hash, k.restored)'
    BY ToldStays DEF CallFits, Home
  <1> QED
    BY <1>1 DEF CallFits, MovesOn, Home, Closing

\* The entry point a call runs leaves the event the call waits for.
LEMMA EntryPointMakes ==
  ASSUME DriverInv, Grows, TypeOK', NEW c \in Callers, NEW k \in Call, k = call[c],
         CallFits(c, k),
         k.stage = "sent", EntryPoint(c)
  PROVE  /\ k.op \in {"anchor", "claim", "complete", "fail"}
         /\ k.op = "claim" => ClaimMade(c, k.hash, k.now + k.lease)'
         /\ k.op = "anchor" => AnchorMade(k.hash, k.executor, k.expires)'
         /\ k.op \in {"complete", "fail"} =>
               ClosureMade(c, k.hash, k.receipt, Closing(k.op))'
  <1>1. k.op \in {"anchor", "claim", "complete", "fail"}
    BY DEF EntryPoint
  <1>2. ASSUME NEW e, log' = Append(log, e)
        PROVE  \E i \in DOMAIN log' : log'[i] = e
    <2>1. log \in Seq(Event) /\ log' \in Seq(Event)
      BY DEF DriverInv, DriverTypeOK, TypeOK
    <2>2. Len(log) + 1 \in DOMAIN log' /\ log'[Len(log) + 1] = e
      BY <1>2, <2>1
    <2> QED
      BY <2>2
  <1>3. ASSUME k.op = "claim"
        PROVE  ClaimMade(c, k.hash, k.now + k.lease)'
    <2> DEFINE e == [type |-> "claimed", registry |-> RegistryOf[Home(c)], hash |-> k.hash,
                     claimant |-> SignerOf[Home(c)], claimExpires |-> clock + k.lease,
                     at |-> clock]
    <2>1. log' = Append(log, e)
      BY <1>3 DEF EntryPoint, ClaimAction
    <2>2. PICK i \in DOMAIN log' : log'[i] = e
      BY <1>2, <2>1
    <2>3. /\ About(e, RegistryOf[Home(c)], k.hash) /\ e.type = "claimed"
          /\ e.claimant = SignerOf[Home(c)] /\ e.claimExpires = clock + k.lease
      BY DEF About
    <2> HIDE DEF e
    <2>4. k.now + k.lease <= e.claimExpires + MaxAhead
      <3>1. PICK l, n, t \in Nat : l = k.lease /\ n = k.now /\ t = clock
        <4>1. clock \in Nat /\ k.lease \in Nat /\ k.now \in Nat
          BY CallFields DEF Grows
        <4> QED
          BY <4>1
      <3>2. n <= t + MaxAhead /\ MaxAhead \in Nat
        BY <1>3, <3>1, DriverAssumption DEF CallFits
      <3>3. n + l <= (t + l) + MaxAhead
        BY <3>2
      <3> QED
        BY <2>3, <3>1, <3>3
    <2>5. /\ About(log'[i], RegistryOf[Home(c)], k.hash) /\ log'[i].type = "claimed"
          /\ log'[i].claimant = SignerOf[Home(c)]
          /\ k.now + k.lease <= log'[i].claimExpires + MaxAhead
      BY <2>2, <2>3, <2>4
    <2> QED
      BY <2>5 DEF ClaimMade, About, Home
  <1>4. ASSUME k.op = "anchor"
        PROVE  AnchorMade(k.hash, k.executor, k.expires)'
    <2>1. PICK e : /\ log' = Append(log, e) /\ e.type = "anchored" /\ e.hash = k.hash
                   /\ e.executor = k.executor /\ e.expires = k.expires
      BY <1>4 DEF EntryPoint, AnchorAction
    <2> QED
      BY <1>2, <2>1 DEF AnchorMade
  <1>5. ASSUME k.op \in {"complete", "fail"}
        PROVE  ClosureMade(c, k.hash, k.receipt, Closing(k.op))'
    <2>1. PICK status : /\ status = Closing(k.op)
                        /\ Close(RegistryOf[Home(c)], k.hash, SignerOf[Home(c)], k.receipt,
                                 status)
      BY <1>5 DEF EntryPoint, CompleteAction, FailAction, Closing
    <2> DEFINE e == [type |-> "completed", registry |-> RegistryOf[Home(c)], hash |-> k.hash,
                     claimant |-> SignerOf[Home(c)], status |-> status,
                     receipt |-> k.receipt, at |-> clock]
    <2>2. log' = Append(log, e)
      BY <2>1 DEF Close
    <2>3. /\ e.type = "completed" /\ e.hash = k.hash /\ e.receipt = k.receipt
          /\ e.claimant = SignerOf[Home(c)] /\ e.status = Closing(k.op)
      BY <2>1
    <2> HIDE DEF e
    <2>4. PICK i \in DOMAIN log' : log'[i] = e
      BY <1>2, <2>2
    <2> QED
      BY <2>3, <2>4 DEF ClosureMade, Home, Closing
  <1> QED
    BY <1>1, <1>3, <1>4, <1>5

\* A claim that was executed: all leases held until then have run out.
LEMMA ClaimsLapse ==
  ASSUME DriverInv, NEW r \in Registries, NEW h \in Hashes, ~LeaseRunning(r, h),
         NEW b \in Callers, RegistryOf[Home(b)] = r, NEW u \in Held(b, h)
  PROVE  u <= clock + MaxAhead
  <1>1. PICK t \in Nat : t = clock
    BY BoundsAssumption DEF DriverInv, DriverTypeOK, TypeOK
  <1>2. MaxAhead \in Nat /\ u \in Nat
    BY DriverAssumption, HeldMade
  <1>3. CASE u = 0
    BY <1>1, <1>2, <1>3
  <1>4. CASE ClaimMade(b, h, u)
    <2>1. PICK i \in DOMAIN log : /\ About(log[i], r, h) /\ log[i].type = "claimed"
                                  /\ u <= log[i].claimExpires + MaxAhead
      BY <1>4 DEF ClaimMade
    <2>2. anchors[r][h].claimed /\ log[i].claimExpires <= anchors[r][h].claimExpires
      BY <2>1 DEF DriverInv, IInv, LatestLeaseKept, About
    <2>3. log[i].claimExpires \in Nat /\ anchors[r][h].claimExpires \in Nat
      <3>1. log[i] \in Event /\ anchors[r][h] \in Anchor
        BY DEF DriverInv, DriverTypeOK, TypeOK
      <3>2. log[i].claimExpires \in Nat
        BY <2>1, <3>1, EventFields
      <3>3. anchors[r][h].claimExpires \in U64
        BY <3>1 DEF Anchor
      <3> QED
        BY <3>2, <3>3, BoundsAssumption DEF U64
    <2>4. PICK p, q \in Nat : p = log[i].claimExpires /\ q = anchors[r][h].claimExpires
      BY <2>3
    <2>5. ~(q > t)
      BY <1>1, <2>2, <2>4 DEF LeaseRunning
    <2>6. u <= p + MaxAhead /\ p <= q
      BY <2>1, <2>2, <2>4
    <2>7. u <= t + MaxAhead
      BY <1>2, <2>5, <2>6
    <2> QED
      BY <1>1, <2>7
  <1> QED
    BY <1>3, <1>4, HeldMade

LEMMA ExecuteClaimInv ==
  ASSUME DriverInv, Grows, IInv', NEW c \in Callers, NEW k \in Call, k = call[c],
         k.stage = "sent", k.op = "claim", EntryPoint(c), UNCHANGED <<cache, granted>>,
         NEW j, Becomes(c, j), CallFits(c, j)', MovesOn(k, j)
  PROVE  DriverInv'
  <1>1. /\ CallsFit' /\ call' \in [Callers -> Call']
        /\ call'[c] = j /\ \A b \in Callers \ {c} : call'[b] = call[b]
    BY CallBecomes
  <1>2. CacheTold' /\ cache' \in [Drivers -> [Hashes -> Entry \cup {NoEntry}]]
    BY CacheStays
  <1>3. DriverTypeOK'
    BY <1>1, <1>2 DEF DriverTypeOK, IInv, DriverInv
  <1>4. GrantsMade'
    <2> SUFFICES ASSUME NEW b \in Callers, NEW h \in Hashes
                 PROVE  granted'[b][h] = 0 \/ ClaimMade(b, h, granted[b][h])'
      BY DEF GrantsMade
    <2>1. PICK u : u = granted[b][h]
      OBVIOUS
    <2>2. u = 0 \/ ClaimMade(b, h, u)
      BY <2>1 DEF DriverInv, GrantsMade
    <2>3. u = 0 \/ ClaimMade(b, h, u)'
      BY <2>2, ToldStays
    <2> QED
      BY <2>1, <2>3
  <1>5. PICK r \in Registries : r = RegistryOf[Home(c)]
    BY HomeType
  <1>6. ~LeaseRunning(r, k.hash) /\ clock' = clock
    BY <1>5 DEF EntryPoint, ClaimAction
  <1>7. \A b \in Callers \ {c}, h \in Hashes : Held(b, h)' = Held(b, h)
    BY <1>1 DEF Held, HeldIn
  <1>8. \A h \in Hashes : h # k.hash => Held(c, h)' \subseteq Held(c, h)
    <2>1. j.hash = k.hash
      BY DEF MovesOn
    <2> QED
      BY <1>1, <2>1 DEF Held, HeldIn
  <1>9. HeldApart'
    <2> SUFFICES ASSUME NEW b \in Callers, NEW d \in Callers, NEW h \in Hashes,
                        Neighbours(b, d), NEW u \in Held(b, h)', NEW v \in Held(d, h)'
                 PROVE  u <= clock + MaxAhead \/ v <= clock + MaxAhead
      BY <1>6 DEF HeldApart, Neighbours, Home
    <2>1. CASE h = k.hash /\ b = c
      <3>1. d \in Callers \ {c} /\ RegistryOf[Home(d)] = r
        BY <1>5, <2>1 DEF Neighbours
      <3>2. v \in Held(d, h)
        BY <1>7, <3>1
      <3> QED
        BY <1>6, <2>1, <3>1, <3>2, ClaimsLapse
    <2>2. CASE h = k.hash /\ d = c
      <3>1. b \in Callers \ {c} /\ RegistryOf[Home(b)] = r
        BY <1>5, <2>2 DEF Neighbours
      <3>2. u \in Held(b, h)
        BY <1>7, <3>1
      <3> QED
        BY <1>6, <2>2, <3>1, <3>2, ClaimsLapse
    <2>3. CASE h # k.hash \/ (b # c /\ d # c)
      <3>1. u \in Held(b, h) /\ v \in Held(d, h)
        BY <1>7, <1>8, <2>3
      <3> QED
        BY <3>1 DEF DriverInv, HeldApart
    <2> QED
      BY <2>1, <2>2, <2>3
  <1> QED
    BY <1>1, <1>2, <1>3, <1>4, <1>9 DEF DriverInv

LEMMA ExecuteInv ==
  ASSUME DriverInv, Grows, IInv', NEW c \in Callers, Execute(c)
  PROVE  DriverInv'
  <1>1. PICK k \in Call : k = call[c]
    BY DEF DriverInv, DriverTypeOK
  <1>2. CallFits(c, k) /\ k.stage = "sent" /\ EntryPoint(c) /\ UNCHANGED <<cache, granted>>
    BY <1>1 DEF DriverInv, CallsFit, Execute
  <1>3. CacheTold' /\ cache' \in [Drivers -> [Hashes -> Entry \cup {NoEntry}]]
    BY <1>2, CacheStays
  <1>4. CASE Return(c)
    BY <1>2, <1>3, <1>4, ReturnStep
  <1>5. CASE Answered(c, "ok")
    <2>1. /\ k.op \in {"anchor", "claim", "complete", "fail"}
          /\ k.op = "claim" => ClaimMade(c, k.hash, k.now + k.lease)'
          /\ k.op = "anchor" => AnchorMade(k.hash, k.executor, k.expires)'
          /\ k.op \in {"complete", "fail"} =>
                ClosureMade(c, k.hash, k.receipt, Closing(k.op))'
      BY <1>1, <1>2, EntryPointMakes DEF IInv
    <2>2. PICK stage \in {"answered", "reading"}, pending \in Seq(EventTypes) :
             Becomes(c, Advanced(k, stage, "ok", pending))
      <3>1. k.pending \in Seq(EventTypes)
        BY DEF Call
      <3>2. DriverTypeOK
        BY DEF DriverInv
      <3> QED
        BY <1>1, <1>5, <3>1, <3>2, AnswerAsUpdate, QueriesType
    <2>3. PICK j : j = Advanced(k, stage, "ok", pending)
      OBVIOUS
    <2>4. /\ j \in Call' /\ MovesOn(k, j)
          /\ j.stage = stage /\ j.outcome = "ok" /\ j.restored = k.restored
      <3>1. /\ stage \in {"idle", "sent", "answered", "reading", "restored"}
            /\ "ok" \in {"none", "ok", "duplicate"}
        OBVIOUS
      <3> QED
        BY <2>3, <3>1, AdvanceType
    <2>5. CallFits(c, j)' /\ Becomes(c, j)
      BY <1>2, <2>1, <2>2, <2>3, <2>4, ExecutedFits
    <2>6. CASE k.op = "claim"
      BY <1>1, <1>2, <2>4, <2>5, <2>6, ExecuteClaimInv
    <2>7. CASE k.op # "claim"
      <3>1. \A h : HeldIn(j, h) = {}
        BY <2>4, <2>7, HoldsNothing DEF MovesOn
      <3> QED
        BY <1>2, <1>3, <2>5, <3>1, QuietCallerStep
    <2> QED
      BY <2>6, <2>7
  <1> QED
    BY <1>4, <1>5 DEF Execute

\* A duplicate is no claim of the caller's own.
LEMMA DuplicateFits ==
  ASSUME Grows, NEW c \in Callers, NEW k \in Call, CallFits(c, k), k.stage # "idle",
         NEW j \in Call', MovesOn(k, j), j.outcome = "duplicate", j.restored = k.restored,
         j.stage \in {"answered", "reading"}, j.stage = "answered" => k.op # "anchor"
  PROVE  CallFits(c, j)'
  <1>1. k.restored # NoEntry => EntryTold(Home(c), k.hash, k.restored)'
    BY ToldStays DEF CallFits, Home
  <1> QED
    BY <1>1 DEF CallFits, MovesOn, Home, Closing

LEMMA DuplicateInv ==
  ASSUME DriverInv, Grows, IInv', NEW c \in Callers, RefuseDuplicate(c) \/ RestoreDuplicate(c)
  PROVE  DriverInv'
  <1>1. PICK k \in Call : k = call[c]
    BY DEF DriverInv, DriverTypeOK
  <1>2. /\ CallFits(c, k) /\ k.stage # "idle" /\ UNCHANGED <<cache, granted>>
        /\ \/ k.op = "claim" /\ Answered(c, "duplicate")
           \/ Reading(c, "duplicate")
    BY <1>1 DEF DriverInv, CallsFit, RefuseDuplicate, RestoreDuplicate
  <1>3. CacheTold' /\ cache' \in [Drivers -> [Hashes -> Entry \cup {NoEntry}]]
    BY <1>2, CacheStays
  <1>4. PICK stage \in {"answered", "reading"}, pending \in Seq(EventTypes) :
           /\ stage = "answered" => k.op = "claim"
           /\ Becomes(c, Advanced(k, stage, "duplicate", pending))
    <2>1. k.pending \in Seq(EventTypes)
      BY DEF Call
    <2>2. DriverTypeOK
      BY DEF DriverInv
    <2> QED
      BY <1>1, <1>2, <2>1, <2>2, AnswerAsUpdate, QueriesType
  <1>5. PICK j : j = Advanced(k, stage, "duplicate", pending)
    OBVIOUS
  <1>6. /\ j \in Call' /\ MovesOn(k, j)
        /\ j.stage = stage /\ j.outcome = "duplicate" /\ j.restored = k.restored
    <2>1. /\ stage \in {"idle", "sent", "answered", "reading", "restored"}
          /\ "duplicate" \in {"none", "ok", "duplicate"}
      OBVIOUS
    <2> QED
      BY <1>5, <2>1, AdvanceType
  <1>7. CallFits(c, j)' /\ Becomes(c, j)
    BY <1>2, <1>4, <1>5, <1>6, DuplicateFits
  <1>8. \A h : HeldIn(j, h) = {}
    BY <1>6, HoldsNothing
  <1> QED
    BY <1>2, <1>3, <1>7, <1>8, QuietCallerStep

LEMMA ReturnInv ==
  ASSUME DriverInv, Grows, IInv', NEW c \in Callers,
         Refuse(c) \/ ReturnDuplicate(c) \/ FailReading(c)
  PROVE  DriverInv'
  <1>1. Return(c) /\ UNCHANGED <<cache, granted>>
    BY DEF Refuse, ReturnDuplicate, FailReading
  <1> QED
    BY <1>1, CacheStays, ReturnStep

LEMMA RememberAnchorInv ==
  ASSUME DriverInv, Grows, IInv', NEW c \in Callers, RememberAnchor(c)
  PROVE  DriverInv'
  <1>1. PICK k \in Call : k = call[c]
    BY DEF DriverInv, DriverTypeOK
  <1>2. /\ CallFits(c, k) /\ k.stage = "answered" /\ k.op = "anchor"
        /\ Return(c) /\ UNCHANGED granted
    BY <1>1 DEF DriverInv, CallsFit, RememberAnchor
  <1>3. k.hash \in Hashes /\ AnchorMade(k.hash, k.executor, k.expires)
    BY <1>2 DEF CallFits
  <1>4. PICK e : e = FreshEntry(c)
    OBVIOUS
  <1>5. e = [status |-> "anchored", executor |-> k.executor, claimant |-> ZeroAddress,
             expires |-> k.expires, claimExpires |-> 0, receipt |-> NoReceipt]
    BY <1>1, <1>4 DEF FreshEntry
  <1>6. e \in Entry
    <2>1. k.executor \in Accounts /\ k.expires \in Nat
      BY CallFields
    <2> QED
      BY <1>5, <2>1 DEF Entry, Accounts, Status
  <1>7. EntryTold(Home(c), k.hash, e)
    <2>1. /\ e.status = "anchored" /\ e.claimExpires = 0 /\ e.claimant = ZeroAddress
          /\ e.executor = k.executor /\ e.expires = k.expires
      BY <1>5
    <2> QED
      BY <1>3, <2>1 DEF EntryTold, Backed, LeaseTold, AnchorMade
  <1>8. EntryTold(Home(c), k.hash, e)'
    BY <1>7, ToldStays DEF Home
  <1>9. cache' = [cache EXCEPT ![Home(c)][k.hash] = e]
    BY <1>1, <1>4 DEF RememberAnchor, Remember
  <1>10. CacheTold' /\ cache' \in [Drivers -> [Hashes -> Entry \cup {NoEntry}]]
    BY <1>3, <1>6, <1>8, <1>9, CacheBecomes, HomeType
  <1> QED
    BY <1>2, <1>10, ReturnStep

LEMMA ReadEventsInv ==
  ASSUME DriverInv, Grows, IInv', NEW c \in Callers, ReadEvents(c)
  PROVE  DriverInv'
  <1>1. PICK k \in Call : k = call[c]
    BY DEF DriverInv, DriverTypeOK
  <1>2. PICK n \in 0 .. Len(log) :
           call' = [call EXCEPT ![c].pending = Tail(@),
                                ![c].read = @ \cup Pages(Head(call[c].pending), n)]
    BY DEF ReadEvents
  <1>3. /\ CallFits(c, k) /\ k.pending # << >> /\ UNCHANGED <<cache, granted>>
    BY <1>1 DEF DriverInv, CallsFit, ReadEvents
  <1>4. PICK p : p = Pages(Head(k.pending), n)
    OBVIOUS
  <1>5. p \subseteq DOMAIN log
    <2>1. p \subseteq 1 .. n
      BY <1>4 DEF Pages
    <2>2. DOMAIN log = 1 .. Len(log) /\ Len(log) \in Nat
      BY DEF DriverInv, DriverTypeOK, TypeOK
    <2> QED
      BY <2>1, <2>2
  <1> DEFINE j == [k EXCEPT !.pending = Tail(k.pending), !.read = k.read \cup p]
  <1>6. Becomes(c, j)
    <2>1. call \in [Callers -> Call]
      BY DEF DriverInv, DriverTypeOK
    <2>2. call' = [call EXCEPT ![c] = [call[c] EXCEPT !.pending = Tail(call[c].pending),
                     !.read = call[c].read \cup Pages(Head(call[c].pending), n)]]
      BY <1>2, <2>1
    <2> QED
      BY <1>1, <1>4, <2>2 DEF Becomes
  <1>7. j \in Call
    <2>1. Tail(k.pending) \in Seq(EventTypes) /\ k.read \cup p \subseteq DOMAIN log
      BY <1>3, <1>5 DEF Call
    <2> QED
      BY <2>1 DEF Call
  <1>8. /\ MovesOn(k, j) /\ j.stage = k.stage /\ j.outcome = k.outcome
        /\ j.restored = k.restored
    BY DEF MovesOn, Call
  <1> HIDE DEF j
  <1>9. CallFits(c, j)
    BY <1>3, <1>7, <1>8 DEF CallFits, MovesOn
  <1>10. CallFits(c, j)'
    BY <1>9, FitsStays
  <1>11. \A h : HeldIn(j, h) = HeldIn(call[c], h)
    BY <1>1, <1>8 DEF HeldIn, MovesOn
  <1> QED
    BY <1>3, <1>6, <1>10, <1>11, CacheStays, QuietCallerStep

\* What a restoration puts into the cache was told.
LEMMA RestoreTold ==
  ASSUME DriverInv, Grows, NEW c \in Callers, NEW k \in Call, k = call[c], CallFits(c, k),
         Restore(c)
  PROVE  CacheTold' /\ cache' \in [Drivers -> [Hashes -> Entry \cup {NoEntry}]]
  <1>1. PICK e : e = Told(k.read, k.hash)
    OBVIOUS
  <1>2. CASE e = NoEntry
    <2>1. UNCHANGED cache
      BY <1>1, <1>2 DEF Restore
    <2> QED
      BY <2>1, CacheStays
  <1>3. CASE e # NoEntry
    <2>1. cache' = [cache EXCEPT ![Home(c)][k.hash] = e]
      BY <1>1, <1>3 DEF Restore, Remember
    <2>2. k.hash \in Hashes /\ k.read \subseteq DOMAIN log /\ TypeOK
      BY CallFields DEF Restore, CallFits, DriverInv, DriverTypeOK
    <2>3. e \in Entry /\ EntryTold(Home(c), k.hash, e)
      BY <1>1, <1>3, <2>2, ToldBacked
    <2>4. EntryTold(Home(c), k.hash, e)'
      BY <2>3, ToldStays DEF Home
    <2> QED
      BY <2>1, <2>2, <2>3, <2>4, CacheBecomes, HomeType
  <1> QED
    BY <1>2, <1>3

LEMMA RestoreAndReturnInv ==
  ASSUME DriverInv, Grows, IInv', NEW c \in Callers, RestoreAndReturn(c)
  PROVE  DriverInv'
  <1>1. PICK k \in Call : k = call[c]
    BY DEF DriverInv, DriverTypeOK
  <1>2. CallFits(c, k)
    BY <1>1 DEF DriverInv, CallsFit
  <1>3. Restore(c) /\ Return(c) /\ UNCHANGED granted
    BY DEF RestoreAndReturn
  <1>4. CacheTold' /\ cache' \in [Drivers -> [Hashes -> Entry \cup {NoEntry}]]
    BY <1>1, <1>2, <1>3, RestoreTold
  <1> QED
    BY <1>3, <1>4, ReturnStep

LEMMA RestoreAnchorInv ==
  ASSUME DriverInv, Grows, IInv', NEW c \in Callers, RestoreAnchor(c)
  PROVE  DriverInv'
  <1>1. PICK k \in Call : k = call[c]
    BY DEF DriverInv, DriverTypeOK
  <1>2. /\ CallFits(c, k) /\ k.outcome = "ok" /\ k.stage = "reading" /\ UNCHANGED granted
        /\ Restore(c)
    BY <1>1 DEF DriverInv, CallsFit, RestoreAnchor, Restore
  <1>3. CacheTold' /\ cache' \in [Drivers -> [Hashes -> Entry \cup {NoEntry}]]
    BY <1>1, <1>2, RestoreTold
  <1>4. PICK e : e = Told(k.read, k.hash)
    OBVIOUS
  <1>5. e # NoEntry => e \in Entry /\ EntryTold(Home(c), k.hash, e)
    <2>1. k.hash \in Hashes /\ k.read \subseteq DOMAIN log /\ TypeOK
      BY <1>2, CallFields DEF CallFits, DriverInv, DriverTypeOK
    <2> QED
      BY <1>4, <2>1, ToldBacked
  <1> DEFINE j == [k EXCEPT !.stage = "restored", !.read = {}, !.restored = e]
  <1>6. Becomes(c, j)
    <2>1. call \in [Callers -> Call]
      BY DEF DriverInv, DriverTypeOK
    <2>2. call' = [call EXCEPT ![c].stage = "restored", ![c].read = {}, ![c].restored = e]
      BY <1>1, <1>4 DEF RestoreAnchor
    <2>3. call' = [call EXCEPT ![c] = [call[c] EXCEPT !.stage = "restored", !.read = {},
                                                     !.restored = e]]
      BY <2>1, <2>2
    <2> QED
      BY <1>1, <2>3 DEF Becomes
  <1>7. j \in Call
    BY <1>5 DEF Call
  <1>8. /\ MovesOn(k, j) /\ j.stage = "restored" /\ j.outcome = "ok" /\ j.restored = e
    BY <1>2 DEF MovesOn, Call
  <1> HIDE DEF j
  <1>9. CallFits(c, j)
    BY <1>2, <1>5, <1>7, <1>8 DEF CallFits, MovesOn
  <1>10. CallFits(c, j)'
    BY <1>9, FitsStays
  <1>11. \A h : HeldIn(j, h) = HeldIn(call[c], h)
    BY <1>1, <1>2, <1>8 DEF HeldIn, MovesOn
  <1> QED
    BY <1>2, <1>3, <1>6, <1>10, <1>11, QuietCallerStep

\* What a call that has restored goes on from is an entry that was told.
LEMMA BasisTold ==
  ASSUME DriverInv, NEW c \in Callers, NEW k \in Call, k = call[c], CallFits(c, k),
         k.stage # "idle"
  PROVE  /\ Cached(c) = cache[Home(c)][k.hash] /\ k.hash \in Hashes
         /\ Cached(c) # NoEntry => Cached(c) \in Entry /\ EntryTold(Home(c), k.hash, Cached(c))
         /\ Basis(c) # NoEntry => Basis(c) \in Entry /\ EntryTold(Home(c), k.hash, Basis(c))
  <1>1. k.hash \in Hashes /\ Cached(c) = cache[Home(c)][k.hash]
    BY DEF CallFits, Cached
  <1>2. Cached(c) # NoEntry => Cached(c) \in Entry /\ EntryTold(Home(c), k.hash, Cached(c))
    <2>1. PICK d \in Drivers : d = Home(c)
      BY HomeType
    <2>2. cache[d][k.hash] \in Entry \cup {NoEntry}
      BY <1>1 DEF DriverInv, DriverTypeOK
    <2>3. cache[d][k.hash] # NoEntry => EntryTold(d, k.hash, cache[d][k.hash])
      BY <1>1 DEF DriverInv, CacheTold
    <2> QED
      BY <1>1, <2>1, <2>2, <2>3
  <1>3. Basis(c) # NoEntry => Basis(c) \in Entry /\ EntryTold(Home(c), k.hash, Basis(c))
    BY <1>2, CallFields DEF Basis, CallFits
  <1> QED
    BY <1>1, <1>2, <1>3

LEMMA FinishClaimInv ==
  ASSUME DriverInv, Grows, IInv', NEW c \in Callers, FinishClaim(c)
  PROVE  DriverInv'
  <1>1. PICK k \in Call : k = call[c]
    BY DEF DriverInv, DriverTypeOK
  <1>2. CallFits(c, k) /\ k.stage = "restored" /\ k.op = "claim" /\ Return(c)
    BY <1>1 DEF DriverInv, CallsFit, FinishClaim
  <1>3. PICK u : u = k.now + k.lease
    OBVIOUS
  <1>4. k.outcome = "ok" /\ k.hash \in Hashes /\ u \in Nat /\ ClaimMade(c, k.hash, u)
    BY <1>2, <1>3, CallFields DEF CallFits
  <1>5. /\ granted' = [granted EXCEPT ![c][k.hash] = u]
        /\ Basis(c) = NoEntry => UNCHANGED cache
        /\ Basis(c) # NoEntry =>
             cache' = [cache EXCEPT ![Home(c)][k.hash] =
               [Basis(c) EXCEPT !.claimant = SignerOf[Home(c)], !.status = "claimed",
                                !.claimExpires = u]]
    BY <1>1, <1>3 DEF FinishClaim, Remember
  <1>6. granted \in [Callers -> [Hashes -> Nat]]
    BY DEF DriverInv, DriverTypeOK
  <1>7. CacheTold' /\ cache' \in [Drivers -> [Hashes -> Entry \cup {NoEntry}]]
    <2>1. CASE Basis(c) = NoEntry
      BY <1>5, <2>1, CacheStays
    <2>2. CASE Basis(c) # NoEntry
      <3>1. PICK b \in Entry : b = Basis(c)
        BY <1>1, <1>2, <2>2, BasisTold
      <3>2. PICK s \in Addresses : s = SignerOf[Home(c)]
        BY HomeType
      <3> DEFINE e == [b EXCEPT !.claimant = s, !.status = "claimed", !.claimExpires = u]
      <3>3. cache' = [cache EXCEPT ![Home(c)][k.hash] = e]
        BY <1>5, <2>2, <3>1, <3>2
      <3>4. e \in Entry
        BY <1>4 DEF Entry, Accounts, Status
      <3>5. /\ e.status = "claimed" /\ e.claimant = s /\ e.claimExpires = u
            /\ e.executor = b.executor /\ e.expires = b.expires
        BY DEF Entry
      <3> HIDE DEF e
      <3>6. EntryTold(Home(c), k.hash, e)
        <4>1. Backed(Home(c), k.hash, b)
          BY <1>1, <1>2, <2>2, <3>1, BasisTold DEF EntryTold
        <4>2. \E i \in DOMAIN log : /\ log[i].hash = k.hash /\ log[i].type = "claimed"
                                    /\ log[i].claimant = s /\ u <= log[i].claimExpires + MaxAhead
          BY <1>4, <3>2 DEF ClaimMade, About
        <4>3. Backed(Home(c), k.hash, e)
          BY <3>5, <4>1, <4>2 DEF Backed
        <4> QED
          BY <3>5, <4>2, <4>3 DEF EntryTold, LeaseTold
      <3>7. EntryTold(Home(c), k.hash, e)'
        BY <3>6, ToldStays DEF Home
      <3> QED
        BY <1>4, <3>3, <3>4, <3>7, CacheBecomes, HomeType
    <2> QED
      BY <2>1, <2>2
  <1>8. granted' \in [Callers -> [Hashes -> Nat]]
    BY <1>4, <1>5, <1>6
  <1>9. \A b \in Callers \ {c} : granted'[b] = granted[b]
    BY <1>5, <1>6
  <1>10. \A h : HeldIn(NoCall, h) = {}
    BY HoldsNothing DEF NoCall
  <1>11. ASSUME NEW h \in Hashes
         PROVE  {granted'[c][h]} \cup HeldIn(NoCall, h) \subseteq Held(c, h)
    <2>1. CASE h = k.hash
      <3>1. granted'[c][h] = u
        BY <1>5, <1>6, <2>1
      <3>2. u \in HeldIn(k, h)
        BY <1>2, <1>3, <1>4, <2>1 DEF HeldIn
      <3> QED
        BY <1>1, <1>10, <3>1, <3>2 DEF Held
    <2>2. CASE h # k.hash
      <3>1. granted'[c][h] = granted[c][h]
        BY <1>5, <1>6, <2>2
      <3> QED
        BY <1>10, <3>1 DEF Held
    <2> QED
      BY <2>1, <2>2
  <1>12. CallFits(c, NoCall)' /\ Becomes(c, NoCall)
    BY <1>2, NoCallFits DEF Return, Becomes
  <1> HIDE DEF NoCall
  <1> QED
    BY <1>7, <1>8, <1>9, <1>11, <1>12, CallerStep

LEMMA FinishCloseInv ==
  ASSUME DriverInv, Grows, IInv', NEW c \in Callers, FinishClose(c)
  PROVE  DriverInv'
  <1>1. PICK k \in Call : k = call[c]
    BY DEF DriverInv, DriverTypeOK
  <1>2. /\ CallFits(c, k) /\ k.stage = "restored" /\ k.op \in {"complete", "fail"}
        /\ Return(c) /\ UNCHANGED granted
    BY <1>1 DEF DriverInv, CallsFit, FinishClose
  <1>3. /\ k.hash \in Hashes /\ k.receipt \in Receipts
        /\ ClosureMade(c, k.hash, k.receipt, Closing(k.op))
    BY <1>2 DEF CallFits
  <1>4. CacheTold' /\ cache' \in [Drivers -> [Hashes -> Entry \cup {NoEntry}]]
    <2>1. CASE UNCHANGED cache
      BY <2>1, CacheStays
    <2>2. CASE ~(UNCHANGED cache)
      <3>1. PICK status \in {"executed", "failed"} :
               /\ status # "failed" => status = Closing(k.op)
               /\ Cached(c) # NoEntry
               /\ Remember(c, [Cached(c) EXCEPT !.receipt = call[c].receipt, !.status = status])
        BY <1>1, <1>2, <2>2 DEF FinishClose, Says, Closing
      <3>2. PICK b \in Entry : b = Cached(c) /\ EntryTold(Home(c), k.hash, b)
        BY <1>1, <1>2, <3>1, BasisTold
      <3> DEFINE e == [b EXCEPT !.receipt = k.receipt, !.status = status]
      <3>3. cache' = [cache EXCEPT ![Home(c)][k.hash] = e]
        BY <1>1, <3>1, <3>2 DEF Remember
      <3>4. e \in Entry
        BY <1>3 DEF Entry, Status
      <3>5. /\ e.status = status /\ e.receipt = k.receipt /\ e.claimExpires = b.claimExpires
            /\ e.executor = b.executor /\ e.expires = b.expires /\ e.claimant = b.claimant
        BY DEF Entry
      <3> HIDE DEF e
      <3>6. EntryTold(Home(c), k.hash, e)
        <4>1. \E i \in DOMAIN log : /\ log[i].hash = k.hash /\ log[i].type = "completed"
                                    /\ log[i].receipt = e.receipt /\ Amended(i, Home(c), e)
          BY <1>3, <3>1, <3>5 DEF ClosureMade, Amended, Closing
        <4>2. Backed(Home(c), k.hash, b) /\ LeaseTold(k.hash, b.claimExpires)
          BY <3>2 DEF EntryTold
        <4>3. Backed(Home(c), k.hash, e)
          BY <3>1, <3>5, <4>1, <4>2 DEF Backed
        <4> QED
          BY <3>5, <4>2, <4>3 DEF EntryTold
      <3>7. EntryTold(Home(c), k.hash, e)'
        BY <3>6, ToldStays DEF Home
      <3> QED
        BY <1>3, <3>3, <3>4, <3>7, CacheBecomes, HomeType
    <2> QED
      BY <2>1, <2>2
  <1> QED
    BY <1>2, <1>4, ReturnStep

\* A driver that starts again has forgotten everything, and the others nothing.
LEMMA RestartInv ==
  ASSUME DriverInv, Grows, IInv', NEW d \in Drivers, Restart(d)
  PROVE  DriverInv'
  <1>1. /\ cache \in [Drivers -> [Hashes -> Entry \cup {NoEntry}]]
        /\ granted \in [Callers -> [Hashes -> Nat]]
    BY DEF DriverInv, DriverTypeOK
  <1>2. /\ cache' = [cache EXCEPT ![d] = [h \in Hashes |-> NoEntry]]
        /\ \A c \in Callers :
              /\ call'[c] = IF Home(c) = d THEN NoCall ELSE call[c]
              /\ granted'[c] = IF Home(c) = d THEN [h \in Hashes |-> 0] ELSE granted[c]
        /\ DOMAIN call' = Callers /\ call' = [c \in Callers |-> call'[c]]
        /\ granted' = [c \in Callers |-> granted'[c]]
    BY DEF Restart
  <1>3. ASSUME NEW c \in Callers
        PROVE  CallFits(c, call[c])'
    <2>1. CASE Home(c) = d
      BY <1>2, <2>1, NoCallFits
    <2>2. CASE Home(c) # d
      <3>1. PICK k : k = call[c]
        OBVIOUS
      <3>2. CallFits(c, k)
        BY <3>1 DEF DriverInv, CallsFit
      <3>3. CallFits(c, k)'
        BY <3>2, FitsStays
      <3>4. call'[c] = k
        BY <1>2, <2>2, <3>1
      <3> QED
        BY <3>3, <3>4
    <2> QED
      BY <2>1, <2>2
  <1>4. CallsFit'
    BY <1>3 DEF CallsFit
  <1>5. call' \in [Callers -> Call']
    <2>1. \A c \in Callers : call'[c] \in Call'
      BY <1>3 DEF CallFits
    <2> QED
      BY <1>2, <2>1
  <1>6. cache' \in [Drivers -> [Hashes -> Entry \cup {NoEntry}]]
    BY <1>1, <1>2
  <1>7. CacheTold'
    <2> SUFFICES ASSUME NEW q \in Drivers, NEW g \in Hashes, cache'[q][g] # NoEntry
                 PROVE  EntryTold(q, g, cache[q][g])'
      BY DEF CacheTold
    <2>1. q # d /\ cache'[q][g] = cache[q][g]
      BY <1>1, <1>2
    <2>2. PICK m : m = cache[q][g]
      OBVIOUS
    <2>3. EntryTold(q, g, m)
      BY <2>1, <2>2 DEF DriverInv, CacheTold
    <2>4. EntryTold(q, g, m)'
      BY <2>3, ToldStays
    <2> QED
      BY <2>1, <2>2, <2>4
  <1>8. granted' \in [Callers -> [Hashes -> Nat]]
    <2>1. \A c \in Callers : granted'[c] \in [Hashes -> Nat]
      BY <1>1, <1>2
    <2> QED
      BY <1>2, <2>1
  <1>9. ASSUME NEW c \in Callers, NEW h \in Hashes
        PROVE  /\ granted'[c][h] = 0 \/ granted'[c][h] = granted[c][h]
               /\ Held(c, h)' \subseteq Held(c, h) \cup {0}
    <2>1. CASE Home(c) = d
      <3>1. HeldIn(NoCall, h) = {}
        BY HoldsNothing DEF NoCall
      <3>2. granted'[c][h] = 0 /\ call'[c] = NoCall
        BY <1>2, <2>1
      <3>3. Held(c, h)' = {granted'[c][h]} \cup HeldIn(NoCall, h)
        BY <3>2 DEF Held, HeldIn
      <3> QED
        BY <3>1, <3>2, <3>3
    <2>2. CASE Home(c) # d
      <3>1. granted'[c] = granted[c] /\ call'[c] = call[c]
        BY <1>2, <2>2
      <3> QED
        BY <3>1 DEF Held, HeldIn
    <2> QED
      BY <2>1, <2>2
  <1>10. HeldApart'
    BY <1>9, ApartStays
  <1>11. GrantsMade'
    <2> SUFFICES ASSUME NEW c \in Callers, NEW h \in Hashes
                 PROVE  granted'[c][h] = 0 \/ ClaimMade(c, h, granted[c][h])'
      BY DEF GrantsMade
    <2>1. PICK u : u = granted'[c][h]
      OBVIOUS
    <2>2. u = 0 \/ ClaimMade(c, h, u)
      BY <1>9, <2>1 DEF DriverInv, GrantsMade
    <2>3. u = 0 \/ ClaimMade(c, h, u)'
      BY <2>2, ToldStays
    <2> QED
      BY <2>1, <2>3
  <1> QED
    BY <1>4, <1>5, <1>6, <1>7, <1>8, <1>10, <1>11 DEF DriverInv, DriverTypeOK, IInv

\* The chain moving on without the drivers.
LEMMA OthersInv ==
  ASSUME DriverInv, Grows, IInv', UNCHANGED driverVars
  PROVE  DriverInv'
  <1>1. UNCHANGED <<cache, call, granted>>
    BY DEF driverVars
  <1>2. CacheTold' /\ cache' \in [Drivers -> [Hashes -> Entry \cup {NoEntry}]]
    BY <1>1, CacheStays
  <1>3. ASSUME NEW c \in Callers
        PROVE  CallFits(c, call[c])'
    <2>1. PICK k : k = call[c]
      OBVIOUS
    <2>2. CallFits(c, k)
      BY <2>1 DEF DriverInv, CallsFit
    <2>3. CallFits(c, k)'
      BY <2>2, FitsStays
    <2> QED
      BY <1>1, <2>1, <2>3
  <1>4. CallsFit'
    BY <1>3 DEF CallsFit
  <1>5. call' \in [Callers -> Call']
    <2>1. \A c \in Callers : call'[c] \in Call'
      BY <1>3 DEF CallFits
    <2>2. call' = [c \in Callers |-> call'[c]]
      BY <1>1 DEF DriverInv, DriverTypeOK
    <2> QED
      BY <2>1, <2>2
  <1>6. HeldApart'
    <2>1. \A c \in Callers, h \in Hashes : Held(c, h)' = Held(c, h)
      BY <1>1 DEF Held, HeldIn
    <2> QED
      BY <2>1, ApartStays
  <1>7. GrantsMade'
    <2> SUFFICES ASSUME NEW c \in Callers, NEW h \in Hashes
                 PROVE  granted'[c][h] = 0 \/ ClaimMade(c, h, granted[c][h])'
      BY DEF GrantsMade
    <2>1. PICK u : u = granted[c][h]
      OBVIOUS
    <2>2. u = 0 \/ ClaimMade(c, h, u)
      BY <2>1 DEF DriverInv, GrantsMade
    <2>3. u = 0 \/ ClaimMade(c, h, u)'
      BY <2>2, ToldStays
    <2> QED
      BY <1>1, <2>1, <2>3
  <1>8. DriverTypeOK'
    BY <1>1, <1>2, <1>5 DEF DriverInv, DriverTypeOK, IInv
  <1> QED
    BY <1>2, <1>4, <1>6, <1>7, <1>8 DEF DriverInv

LEMMA DriverStepInv == DriverInv /\ [DriverNext]_allVars => DriverInv'
  <1> SUFFICES ASSUME DriverInv, [DriverNext]_allVars PROVE DriverInv'
    OBVIOUS
  <1>1. [Next]_vars
    BY DriverOnChain DEF DriverInv
  <1>2. Grows
    BY <1>1, ChainGrows DEF DriverInv, DriverTypeOK
  <1>3. IInv'
    BY <1>1, StepInv DEF DriverInv
  <1>4. ASSUME NEW c \in Callers, NEW h \in Hashes,
               \/ StartAnchor(c, h) \/ StartClaim(c, h) \/ StartComplete(c, h)
               \/ StartFail(c, h) \/ StartGet(c, h)
        PROVE  DriverInv'
    BY <1>2, <1>3, <1>4, StartInv
  <1>5. ASSUME NEW c \in Callers, CallStep(c)
        PROVE  DriverInv'
    <2>1. CASE Execute(c)
      BY <1>2, <1>3, <2>1, ExecuteInv
    <2>2. CASE Refuse(c) \/ ReturnDuplicate(c) \/ FailReading(c)
      BY <1>2, <1>3, <2>2, ReturnInv
    <2>3. CASE RefuseDuplicate(c) \/ RestoreDuplicate(c)
      BY <1>2, <1>3, <2>3, DuplicateInv
    <2>4. CASE RememberAnchor(c)
      BY <1>2, <1>3, <2>4, RememberAnchorInv
    <2>5. CASE ReadEvents(c)
      BY <1>2, <1>3, <2>5, ReadEventsInv
    <2>6. CASE RestoreAndReturn(c)
      BY <1>2, <1>3, <2>6, RestoreAndReturnInv
    <2>7. CASE RestoreAnchor(c)
      BY <1>2, <1>3, <2>7, RestoreAnchorInv
    <2>8. CASE FinishClaim(c)
      BY <1>2, <1>3, <2>8, FinishClaimInv
    <2>9. CASE FinishClose(c)
      BY <1>2, <1>3, <2>9, FinishCloseInv
    <2> QED
      BY <1>5, <2>1, <2>2, <2>3, <2>4, <2>5, <2>6, <2>7, <2>8, <2>9 DEF CallStep
  <1>6. ASSUME NEW d \in Drivers, Restart(d)
        PROVE  DriverInv'
    BY <1>2, <1>3, <1>6, RestartInv
  <1>7. CASE Others
    BY <1>2, <1>3, <1>7, OthersInv DEF Others
  <1>8. CASE UNCHANGED allVars
    BY <1>2, <1>3, <1>8, OthersInv DEF allVars, driverVars
  <1> QED
    BY <1>4, <1>5, <1>6, <1>7, <1>8 DEF DriverNext

LEMMA DriverInvariance == DriverSpec => []DriverInv
  BY DriverInitInv, DriverStepInv, PTL DEF DriverSpec

-----------------------------------------------------------------------------
(***************************************************************************)
(* Calls, cache and grants of a driver stay well typed, whatever overlaps. *)
(***************************************************************************)
THEOREM DriverTypeCorrect == DriverSpec => []DriverTypeOK
  <1>1. DriverInv => DriverTypeOK
    BY DEF DriverInv
  <1> QED
    BY <1>1, DriverInvariance, PTL

(***************************************************************************)
(* Everything a driver keeps but leases happened on the chain, through     *)
(* lost answers, lagging queries, restarts and any number of calls at      *)
(* once: the terms, the claimant, and a completion with its receipt, which *)
(* is the one the cache names or the driver's own, and never a failure     *)
(* kept as executed.                                                       *)
(***************************************************************************)
THEOREM CacheNeverInvents == DriverSpec => []CacheHappened
  <1>1. DriverInv => CacheHappened
    BY DEF DriverInv, CacheTold, EntryTold, CacheHappened
  <1> QED
    BY <1>1, DriverInvariance, PTL

(***************************************************************************)
(* A lease the cache shows running runs on the chain as long or longer,    *)
(* but for the skew of the local clocks, when the registry is alone with   *)
(* the action.                                                             *)
(***************************************************************************)
THEOREM CachedLeasesRun == DriverSpec => []CachedLeaseRuns
  <1>1. ASSUME DriverInv
        PROVE  CachedLeaseRuns
    <2> SUFFICES ASSUME NEW d \in Drivers, NEW h \in Hashes, cache[d][h] # NoEntry,
                        Sole(RegistryOf[d], h), cache[d][h].claimExpires > clock + MaxAhead
                 PROVE  /\ LeaseRunning(RegistryOf[d], h)
                        /\ cache[d][h].claimExpires
                             <= anchors[RegistryOf[d]][h].claimExpires + MaxAhead
      BY DEF CachedLeaseRuns
    <2>1. PICK r \in Registries : r = RegistryOf[d]
      BY DriverAssumption
    <2>2. PICK t \in Nat : t = clock
      BY <1>1, BoundsAssumption DEF DriverInv, DriverTypeOK, TypeOK
    <2>3. PICK u \in Nat : u = cache[d][h].claimExpires
      <3>1. cache[d][h] \in Entry
        BY <1>1 DEF DriverInv, DriverTypeOK
      <3> QED
        BY <3>1 DEF Entry
    <2>4. MaxAhead \in Nat /\ u > t + MaxAhead
      BY <2>2, <2>3, DriverAssumption
    <2>5. LeaseTold(h, u) /\ u # 0
      BY <1>1, <2>3, <2>4 DEF DriverInv, CacheTold, EntryTold
    <2>6. PICK i \in DOMAIN log : /\ log[i].hash = h /\ log[i].type = "claimed"
                                  /\ u <= log[i].claimExpires + MaxAhead
      BY <2>5 DEF LeaseTold
    <2>7. log[i].registry = r
      BY <2>1, <2>6 DEF Sole
    <2>8. anchors[r][h].claimed /\ log[i].claimExpires <= anchors[r][h].claimExpires
      BY <1>1, <2>6, <2>7 DEF DriverInv, IInv, LatestLeaseKept
    <2>9. PICK p, q \in Nat : p = log[i].claimExpires /\ q = anchors[r][h].claimExpires
      <3>1. log[i] \in Event /\ anchors[r][h] \in Anchor
        BY <1>1 DEF DriverInv, DriverTypeOK, TypeOK
      <3>2. log[i].claimExpires \in Nat
        BY <2>6, <3>1, EventFields
      <3>3. anchors[r][h].claimExpires \in Nat
        BY <3>1, BoundsAssumption DEF Anchor, U64
      <3> QED
        BY <3>2, <3>3
    <2>10. u <= p + MaxAhead /\ p <= q
      BY <2>6, <2>8, <2>9
    <2>11. q > t /\ u <= q + MaxAhead
      BY <2>4, <2>10
    <2> QED
      BY <2>1, <2>2, <2>3, <2>8, <2>9, <2>11 DEF LeaseRunning
  <1> QED
    BY <1>1, DriverInvariance, PTL

(***************************************************************************)
(* No two callers of a registry are ever granted a running lease of one    *)
(* action, for any number of callers, drivers, restarts and retries.       *)
(***************************************************************************)
THEOREM GrantsAreExclusive == DriverSpec => []GrantsExclusive
  <1>1. ASSUME DriverInv
        PROVE  GrantsExclusive
    <2> SUFFICES ASSUME NEW b \in Callers, NEW c \in Callers, NEW h \in Hashes, b # c,
                        RegistryOf[Home(b)] = RegistryOf[Home(c)],
                        granted[b][h] > clock + MaxAhead, granted[c][h] > clock + MaxAhead
                 PROVE  FALSE
      BY DEF GrantsExclusive
    <2>1. PICK t, u, v \in Nat : t = clock /\ u = granted[b][h] /\ v = granted[c][h]
      <3>1. clock \in Nat
        BY <1>1, BoundsAssumption DEF DriverInv, DriverTypeOK, TypeOK
      <3>2. granted[b][h] \in Nat /\ granted[c][h] \in Nat
        BY <1>1 DEF DriverInv, DriverTypeOK
      <3> QED
        BY <3>1, <3>2
    <2>2. MaxAhead \in Nat
      BY DriverAssumption
    <2>3. u \in Held(b, h) /\ v \in Held(c, h)
      BY <2>1 DEF Held
    <2>4. u <= t + MaxAhead \/ v <= t + MaxAhead
      BY <1>1, <2>1, <2>3 DEF DriverInv, HeldApart, Neighbours
    <2>5. u > t + MaxAhead /\ v > t + MaxAhead
      BY <2>1
    <2> QED
      BY <2>2, <2>4, <2>5
  <1> QED
    BY <1>1, DriverInvariance, PTL

-----------------------------------------------------------------------------
(***************************************************************************)
(* Restoring from events.  The order a driver sorts by is the order of the *)
(* log within one action, and the table keeps of an action the lease of    *)
(* its last claim and the receipt of its last completion.                  *)
(***************************************************************************)
InOrder == \A i, j \in DOMAIN log : i < j /\ SameAction(log[i], log[j]) => Precedes(i, j)

LastOfKind(i, r, h, type) ==
    /\ About(log[i], r, h) /\ log[i].type = type
    /\ \A k \in DOMAIN log : About(log[k], r, h) /\ log[k].type = type => k <= i

LeaseOfLast ==
    \A r \in Registries, h \in Hashes :
        \/ \E i \in DOMAIN log : /\ LastOfKind(i, r, h, "claimed")
                                 /\ anchors[r][h].claimExpires = log[i].claimExpires
        \/ /\ anchors[r][h].claimExpires = 0
           /\ \A i \in DOMAIN log : About(log[i], r, h) => log[i].type # "claimed"

ReceiptOfLast ==
    \A r \in Registries, h \in Hashes :
        \/ \E i \in DOMAIN log : /\ LastOfKind(i, r, h, "completed")
                                 /\ anchors[r][h].receipt = log[i].receipt
        \/ /\ anchors[r][h].receipt = NoReceipt
           /\ \A i \in DOMAIN log : About(log[i], r, h) => log[i].type # "completed"

NobodyYet == \A r \in Registries, h \in Hashes :
                anchors[r][h].status = "anchored" => anchors[r][h].claimant = ZeroAddress

ToldInv == IInv /\ InOrder /\ LeaseOfLast /\ ReceiptOfLast /\ NobodyYet

LEMMA ToldInitInv == Init => ToldInv
  <1> SUFFICES ASSUME Init PROVE ToldInv
    OBVIOUS
  <1>1. DOMAIN log = {} /\ \A r \in Registries, h \in Hashes : anchors[r][h] = Absent
    BY DEF Init
  <1>2. InOrder /\ LeaseOfLast /\ ReceiptOfLast /\ NobodyYet
    BY <1>1 DEF InOrder, LeaseOfLast, ReceiptOfLast, NobodyYet, Absent
  <1> QED
    BY <1>2, InitInv DEF ToldInv

\* Two events keep their order as the log grows.
LEMMA OrderStays ==
  ASSUME NEW n, NEW e, Emits(n, e), NEW i \in DOMAIN log, NEW j \in DOMAIN log
  PROVE  Precedes(i, j) => Precedes(i, j)'
  <1>1. log'[i] = log[i] /\ log'[j] = log[j]
    BY DEF Emits
  <1>2. Rank(i)' = Rank(i) /\ Rank(j)' = Rank(j)
    BY <1>1 DEF Rank
  <1> QED
    BY <1>1, <1>2 DEF Precedes

\* The new event comes last of its action, unless one of a later kind is as late.
LEMMA InOrderKept ==
  ASSUME IInv, TypeOK', InOrder, NEW n, NEW e, Emits(n, e), e.at = clock,
         \A i \in DOMAIN log : SameAction(log[i], e) =>
            log[i].at < clock \/ log[i].type = e.type \/ e.type = "completed"
               \/ (e.type = "claimed" /\ log[i].type = "anchored")
  PROVE  InOrder'
  <1> SUFFICES ASSUME NEW i \in DOMAIN log', NEW j \in DOMAIN log', i < j,
                      SameAction(log'[i], log'[j])
               PROVE  Precedes(i, j)'
    BY DEF InOrder, SameAction, About
  <1>1. CASE i \in DOMAIN log /\ j \in DOMAIN log
    <2>1. log'[i] = log[i] /\ log'[j] = log[j]
      BY <1>1 DEF Emits
    <2>2. Precedes(i, j)
      BY <1>1, <2>1 DEF InOrder
    <2> QED
      BY <1>1, <2>2, OrderStays
  <1>2. CASE i \in DOMAIN log /\ j = n
    <2>1. log'[i] = log[i] /\ log'[j] = e /\ SameAction(log[i], e)
      BY <1>2 DEF Emits
    <2>2. log[i].at <= clock
      BY <1>2 DEF IInv, LogInThePast
    <2>3. PICK s, t \in Nat : s = log[i].at /\ t = clock
      BY <1>2, BoundsAssumption DEF Emits, IInv, TypeOK
    <2>4. log[i].type \in {"anchored", "claimed", "completed"}
      BY <1>2, EventFields DEF IInv, TypeOK
    <2>5. s < t \/ log[i].type = e.type \/ e.type = "completed"
               \/ (e.type = "claimed" /\ log[i].type = "anchored")
      BY <1>2, <2>1, <2>3
    <2>6. s < t \/ s = t
      BY <2>2, <2>3
    <2>7. log'[i].at = s /\ log'[j].at = t
      BY <2>1, <2>3
    <2>8. Rank(i)' < Rank(j)' \/ Rank(i)' = Rank(j)' \/ s < t
      BY <2>1, <2>4, <2>5 DEF Rank
    <2> QED
      BY <2>6, <2>7, <2>8 DEF Precedes
  <1>3. ~(i = n)
    BY DEF Emits
  <1> QED
    BY <1>1, <1>2, <1>3 DEF Emits

\* A completion ends its action for the instant: no lease is claimed in it again.
LEMMA NothingClosedNow ==
  ASSUME IInv, NEW r \in Registries, NEW h \in Hashes, ~LeaseRunning(r, h),
         NEW j \in DOMAIN log, About(log[j], r, h), log[j].type = "completed"
  PROVE  log[j].at < clock
  <1>1. PICK i \in DOMAIN log : /\ log[i].type = "claimed" /\ SameAction(log[i], log[j])
                                /\ log[j].at < log[i].claimExpires
    BY DEF IInv, CompletionUnderLease
  <1>2. About(log[i], r, h)
    BY <1>1 DEF SameAction, About
  <1>3. anchors[r][h].claimed /\ log[i].claimExpires <= anchors[r][h].claimExpires
    BY <1>1, <1>2 DEF IInv, LatestLeaseKept, About
  <1>4. log[i] \in Event /\ log[j] \in Event /\ anchors[r][h] \in Anchor /\ clock \in Nat
    BY BoundsAssumption DEF IInv, TypeOK
  <1>5. log[i].claimExpires \in Nat /\ log[j].at \in Nat
    BY <1>1, <1>4, EventFields
  <1>6. anchors[r][h].claimExpires \in Nat
    BY <1>4, BoundsAssumption DEF Anchor, U64
  <1>7. PICK s, p, q, t \in Nat : /\ s = log[j].at /\ p = log[i].claimExpires
                                  /\ q = anchors[r][h].claimExpires /\ t = clock
    BY <1>4, <1>5, <1>6
  <1>8. s < p /\ p <= q /\ ~(q > t)
    BY <1>1, <1>3, <1>7 DEF LeaseRunning
  <1>9. s < t
    BY <1>8
  <1> QED
    BY <1>7, <1>9

\* One kind of event, and what the table keeps of the last of that kind.
LEMMA LastOfKindGrows ==
  ASSUME NEW n, NEW e, Emits(n, e), NEW r, NEW h, NEW type
  PROVE  /\ About(e, r, h) /\ e.type = type => LastOfKind(n, r, h, type)'
         /\ \A i \in DOMAIN log :
               LastOfKind(i, r, h, type) /\ ~(About(e, r, h) /\ e.type = type)
               => LastOfKind(i, r, h, type)'
         /\ (\A i \in DOMAIN log : About(log[i], r, h) => log[i].type # type)
               /\ ~(About(e, r, h) /\ e.type = type)
               => \A i \in DOMAIN log' : About(log'[i], r, h) => log'[i].type # type
  <1>1. ASSUME About(e, r, h), e.type = type
        PROVE  LastOfKind(n, r, h, type)'
    <2>1. About(log'[n], r, h) /\ log'[n].type = type
      BY <1>1 DEF Emits
    <2>2. \A k \in DOMAIN log' : k <= n
      BY DEF Emits
    <2> QED
      BY <2>1, <2>2 DEF LastOfKind, About
  <1>2. ASSUME NEW i \in DOMAIN log, LastOfKind(i, r, h, type),
               ~(About(e, r, h) /\ e.type = type)
        PROVE  LastOfKind(i, r, h, type)'
    <2>1. About(log'[i], r, h) /\ log'[i].type = type
      BY <1>2 DEF Emits, LastOfKind
    <2>2. \A k \in DOMAIN log' : About(log'[k], r, h) /\ log'[k].type = type => k <= i
      BY <1>2 DEF Emits, LastOfKind
    <2> QED
      BY <2>1, <2>2 DEF LastOfKind, About
  <1>3. ASSUME \A i \in DOMAIN log : About(log[i], r, h) => log[i].type # type,
               ~(About(e, r, h) /\ e.type = type)
        PROVE  \A i \in DOMAIN log' : About(log'[i], r, h) => log'[i].type # type
    BY <1>3 DEF Emits
  <1> QED
    BY <1>1, <1>2, <1>3

LEMMA LastsKept ==
  ASSUME IInv, LeaseOfLast, ReceiptOfLast, NEW r \in Registries, NEW h \in Hashes, NEW b,
         NEW e, NEW n, Emits(n, e), Stores(r, h, b), About(e, r, h),
         b.claimExpires = IF e.type = "claimed" THEN e.claimExpires
                                                ELSE anchors[r][h].claimExpires,
         b.receipt = IF e.type = "completed" THEN e.receipt ELSE anchors[r][h].receipt
  PROVE  LeaseOfLast' /\ ReceiptOfLast'
  <1>1. ASSUME NEW q \in Registries, NEW g \in Hashes
        PROVE  \/ \E i \in DOMAIN log' : /\ LastOfKind(i, q, g, "claimed")'
                                         /\ anchors'[q][g].claimExpires = log'[i].claimExpires
               \/ /\ anchors'[q][g].claimExpires = 0
                  /\ \A i \in DOMAIN log' : About(log'[i], q, g) => log'[i].type # "claimed"
    <2>1. CASE q = r /\ g = h /\ e.type = "claimed"
      <3>1. n \in DOMAIN log' /\ log'[n] = e /\ LastOfKind(n, q, g, "claimed")'
        BY <2>1, LastOfKindGrows DEF Emits
      <3>2. anchors'[q][g].claimExpires = e.claimExpires
        BY <2>1 DEF Stores
      <3> QED
        BY <3>1, <3>2
    <2>2. CASE ~(q = r /\ g = h /\ e.type = "claimed")
      <3>1. anchors'[q][g].claimExpires = anchors[q][g].claimExpires
        BY <2>2 DEF Stores
      <3>2. ~(About(e, q, g) /\ e.type = "claimed")
        BY <2>2 DEF About
      <3>3. CASE \E i \in DOMAIN log : /\ LastOfKind(i, q, g, "claimed")
                                       /\ anchors[q][g].claimExpires = log[i].claimExpires
        <4>1. PICK i \in DOMAIN log : /\ LastOfKind(i, q, g, "claimed")
                                      /\ anchors[q][g].claimExpires = log[i].claimExpires
          BY <3>3
        <4>2. i \in DOMAIN log' /\ log'[i] = log[i]
          BY DEF Emits
        <4>3. LastOfKind(i, q, g, "claimed")'
          BY <3>2, <4>1, LastOfKindGrows
        <4> QED
          BY <3>1, <4>1, <4>2, <4>3
      <3>4. CASE /\ anchors[q][g].claimExpires = 0
                 /\ \A i \in DOMAIN log : About(log[i], q, g) => log[i].type # "claimed"
        BY <3>1, <3>2, <3>4, LastOfKindGrows
      <3> QED
        BY <3>3, <3>4 DEF LeaseOfLast
    <2> QED
      BY <2>1, <2>2
  <1>2. ASSUME NEW q \in Registries, NEW g \in Hashes
        PROVE  \/ \E i \in DOMAIN log' : /\ LastOfKind(i, q, g, "completed")'
                                         /\ anchors'[q][g].receipt = log'[i].receipt
               \/ /\ anchors'[q][g].receipt = NoReceipt
                  /\ \A i \in DOMAIN log' : About(log'[i], q, g) => log'[i].type # "completed"
    <2>1. CASE q = r /\ g = h /\ e.type = "completed"
      <3>1. n \in DOMAIN log' /\ log'[n] = e /\ LastOfKind(n, q, g, "completed")'
        BY <2>1, LastOfKindGrows DEF Emits
      <3>2. anchors'[q][g].receipt = e.receipt
        BY <2>1 DEF Stores
      <3> QED
        BY <3>1, <3>2
    <2>2. CASE ~(q = r /\ g = h /\ e.type = "completed")
      <3>1. anchors'[q][g].receipt = anchors[q][g].receipt
        BY <2>2 DEF Stores
      <3>2. ~(About(e, q, g) /\ e.type = "completed")
        BY <2>2 DEF About
      <3>3. CASE \E i \in DOMAIN log : /\ LastOfKind(i, q, g, "completed")
                                       /\ anchors[q][g].receipt = log[i].receipt
        <4>1. PICK i \in DOMAIN log : /\ LastOfKind(i, q, g, "completed")
                                      /\ anchors[q][g].receipt = log[i].receipt
          BY <3>3
        <4>2. i \in DOMAIN log' /\ log'[i] = log[i]
          BY DEF Emits
        <4>3. LastOfKind(i, q, g, "completed")'
          BY <3>2, <4>1, LastOfKindGrows
        <4> QED
          BY <3>1, <4>1, <4>2, <4>3
      <3>4. CASE /\ anchors[q][g].receipt = NoReceipt
                 /\ \A i \in DOMAIN log : About(log[i], q, g) => log[i].type # "completed"
        BY <3>1, <3>2, <3>4, LastOfKindGrows
      <3> QED
        BY <3>3, <3>4 DEF ReceiptOfLast
    <2> QED
      BY <2>1, <2>2
  <1> QED
    BY <1>1, <1>2 DEF LeaseOfLast, ReceiptOfLast, About

LEMMA ToldClaim ==
  ASSUME ToldInv, TypeOK', NEW r \in Registries, NEW h \in Hashes, NEW sender \in Addresses,
         NEW lease \in Leases, ClaimAction(r, h, sender, lease)
  PROVE  InOrder' /\ LeaseOfLast' /\ ReceiptOfLast' /\ NobodyYet'
  <1> DEFINE n == Len(log) + 1
             e == [type |-> "claimed", registry |-> r, hash |-> h, claimant |-> sender,
                   claimExpires |-> clock + lease, at |-> clock]
             a == anchors[r][h]
             b == [a EXCEPT !.claimed = TRUE, !.claimant = sender, !.status = "claimed",
                            !.claimExpires = clock + lease, !.updated = clock]
  <1>1. e \in Event
    <2>1. clock \in U64 /\ clock + lease \in U64 /\ sender \in Accounts
      BY BoundsAssumption DEF ClaimAction, LeaseFits, ToldInv, IInv, TypeOK, U64, Accounts
    <2> QED
      BY <2>1 DEF Event, ActionClaimed
  <1>2. Emits(n, e) /\ Stores(r, h, b)
    BY <1>1, EmitsLemma, StoresLemma DEF ClaimAction, ToldInv, IInv
  <1>3. a \in Anchor
    BY DEF ToldInv, IInv, TypeOK
  <1>4. /\ e.type = "claimed" /\ About(e, r, h) /\ e.at = clock
        /\ e.claimExpires = clock + lease
    BY DEF About
  <1>5. /\ b.status = "claimed" /\ b.claimExpires = clock + lease /\ b.receipt = a.receipt
    BY <1>3 DEF Anchor
  <1>6. ~LeaseRunning(r, h)
    BY DEF ClaimAction
  <1> HIDE DEF e, b, n, a
  <1>7. InOrder'
    <2>1. ASSUME NEW i \in DOMAIN log, SameAction(log[i], e)
          PROVE  log[i].at < clock \/ log[i].type = "claimed" \/ log[i].type = "anchored"
      <3>1. About(log[i], r, h)
        BY <1>4, <2>1 DEF SameAction, About
      <3>2. log[i].type \in {"anchored", "claimed", "completed"}
        BY EventFields DEF ToldInv, IInv, TypeOK
      <3> QED
        BY <1>6, <3>1, <3>2, NothingClosedNow DEF ToldInv
    <2> QED
      BY <1>2, <1>4, <2>1, InOrderKept DEF ToldInv
  <1>8. LeaseOfLast' /\ ReceiptOfLast'
    BY <1>2, <1>4, <1>5, LastsKept DEF ToldInv, a
  <1>9. NobodyYet'
    BY <1>2, <1>5 DEF Stores, ToldInv, NobodyYet
  <1> QED
    BY <1>7, <1>8, <1>9

LEMMA ToldClose ==
  ASSUME ToldInv, TypeOK', NEW r \in Registries, NEW h \in Hashes, NEW sender \in Addresses,
         NEW receipt \in Receipts, NEW status \in {"executed", "failed"},
         Close(r, h, sender, receipt, status)
  PROVE  InOrder' /\ LeaseOfLast' /\ ReceiptOfLast' /\ NobodyYet'
  <1> DEFINE n == Len(log) + 1
             e == [type |-> "completed", registry |-> r, hash |-> h, claimant |-> sender,
                   status |-> status, receipt |-> receipt, at |-> clock]
             a == anchors[r][h]
             b == [a EXCEPT !.receipt = receipt, !.status = status, !.updated = clock]
  <1>1. e \in Event
    <2>1. clock \in U64 /\ sender \in Accounts
      BY BoundsAssumption DEF ToldInv, IInv, TypeOK, U64, Accounts
    <2> QED
      BY <2>1 DEF Event, ActionCompleted
  <1>2. Emits(n, e) /\ Stores(r, h, b)
    BY <1>1, EmitsLemma, StoresLemma DEF Close, ToldInv, IInv
  <1>3. a \in Anchor
    BY DEF ToldInv, IInv, TypeOK
  <1>4. e.type = "completed" /\ About(e, r, h) /\ e.at = clock /\ e.receipt = receipt
    BY DEF About
  <1>5. b.status = status /\ b.receipt = receipt /\ b.claimExpires = a.claimExpires
    BY <1>3 DEF Anchor
  <1> HIDE DEF e, b, n, a
  <1>6. InOrder'
    BY <1>2, <1>4, InOrderKept DEF ToldInv
  <1>7. LeaseOfLast' /\ ReceiptOfLast'
    BY <1>2, <1>4, <1>5, LastsKept DEF ToldInv, a
  <1>8. NobodyYet'
    BY <1>2, <1>5 DEF Stores, ToldInv, NobodyYet
  <1> QED
    BY <1>6, <1>7, <1>8

LEMMA ToldAnchor ==
  ASSUME ToldInv, TypeOK', NEW r \in Registries, NEW h \in Hashes, NEW sender \in Addresses,
         NEW approved \in BOOLEAN, NEW executor \in Accounts, NEW expires \in Expiries,
         AnchorAction(r, h, sender, approved, executor, expires)
  PROVE  InOrder' /\ LeaseOfLast' /\ ReceiptOfLast' /\ NobodyYet'
  <1> DEFINE n == Len(log) + 1
             e == [type |-> "anchored", registry |-> r, hash |-> h, owner |-> owner[r],
                   executor |-> executor, approved |-> approved, expires |-> expires,
                   at |-> clock]
             b == [Absent EXCEPT !.status = "anchored", !.owner = owner[r],
                      !.executor = executor, !.approved = approved,
                      !.expires = expires, !.updated = clock]
  <1>1. e \in Event
    <2>1. clock \in U64 /\ expires \in U64 /\ owner[r] \in Accounts
      BY BoundsAssumption DEF ToldInv, IInv, TypeOK, U64
    <2> QED
      BY <2>1 DEF Event, ActionAnchored
  <1>2. Emits(n, e) /\ Stores(r, h, b)
    BY <1>1, EmitsLemma, StoresLemma DEF AnchorAction, ToldInv, IInv
  <1>3. \A i \in DOMAIN log : ~About(log[i], r, h)
    BY DEF AnchorAction, ToldInv, IInv, TableMatchesLog
  <1>4. e.type = "anchored" /\ About(e, r, h) /\ e.at = clock
    BY DEF About
  <1>5. b.claimant = ZeroAddress /\ b.claimExpires = 0 /\ b.receipt = NoReceipt
    BY DEF Absent
  <1>6. anchors[r][h].claimExpires = 0 /\ anchors[r][h].receipt = NoReceipt
    BY <1>3 DEF ToldInv, LeaseOfLast, ReceiptOfLast, LastOfKind
  <1> HIDE DEF e, b, n
  <1>7. InOrder'
    <2>1. \A i \in DOMAIN log : ~SameAction(log[i], e)
      BY <1>3, <1>4 DEF SameAction, About
    <2> QED
      BY <1>2, <1>4, <2>1, InOrderKept DEF ToldInv
  <1>8. LeaseOfLast' /\ ReceiptOfLast'
    BY <1>2, <1>4, <1>5, <1>6, LastsKept DEF ToldInv
  <1>9. NobodyYet'
    BY <1>2, <1>5 DEF Stores, ToldInv, NobodyYet
  <1> QED
    BY <1>7, <1>8, <1>9

LEMMA ToldQuiet ==
  ASSUME ToldInv, anchors' = anchors, log' = log
  PROVE  InOrder' /\ LeaseOfLast' /\ ReceiptOfLast' /\ NobodyYet'
  <1>1. \A i, j : Precedes(i, j)' <=> Precedes(i, j)
    BY DEF Precedes, Rank
  <1>2. InOrder'
    BY <1>1 DEF ToldInv, InOrder, SameAction, About
  <1>3. LeaseOfLast' /\ ReceiptOfLast' /\ NobodyYet'
    BY DEF ToldInv, LeaseOfLast, ReceiptOfLast, NobodyYet, LastOfKind, About
  <1> QED
    BY <1>2, <1>3

LEMMA ToldStepInv == ToldInv /\ [Next]_vars => ToldInv'
  <1> SUFFICES ASSUME ToldInv, [Next]_vars PROVE ToldInv'
    OBVIOUS
  <1>1. IInv' /\ TypeOK'
    BY StepInv DEF ToldInv, IInv
  <1>2. ASSUME NEW r \in Registries, NEW h \in Hashes, NEW sender \in Addresses,
               Transaction(r, h, sender)
        PROVE  InOrder' /\ LeaseOfLast' /\ ReceiptOfLast' /\ NobodyYet'
    BY <1>1, <1>2, ToldAnchor, ToldClaim, ToldClose
       DEF Transaction, CompleteAction, FailAction
  <1>3. ASSUME anchors' = anchors, log' = log
        PROVE  InOrder' /\ LeaseOfLast' /\ ReceiptOfLast' /\ NobodyYet'
    BY <1>3, ToldQuiet
  <1>4. \/ anchors' = anchors /\ log' = log
        \/ \E r \in Registries, h \in Hashes, sender \in Addresses :
              Transaction(r, h, sender)
    BY DEF Next, Tick, CreateSharedRegistry, vars
  <1> QED
    BY <1>1, <1>2, <1>3, <1>4 DEF ToldInv

-----------------------------------------------------------------------------
\* Among the events of one action the latest of a kind is the last of that kind.
LEMMA LatestOfKind ==
  ASSUME ToldInv, NEW r \in Registries, NEW h \in Hashes, NEW type, NEW i \in DOMAIN log,
         LastOfKind(i, r, h, type), NEW S,
         S = {k \in DOMAIN log : About(log[k], r, h) /\ log[k].type = type}
  PROVE  i \in S /\ Latest(S) = i
  <1>1. i \in S
    BY DEF LastOfKind
  <1>2. ASSUME NEW k \in S \ {i}
        PROVE  Precedes(k, i)
    <2>1. k \in DOMAIN log /\ About(log[k], r, h) /\ k <= i /\ k # i
      BY <1>2 DEF LastOfKind
    <2>2. k \in Nat /\ i \in Nat
      BY <2>1 DEF ToldInv, IInv, TypeOK
    <2>3. k < i
      BY <2>1, <2>2
    <2>4. SameAction(log[k], log[i])
      BY <2>1 DEF SameAction, About, LastOfKind
    <2> QED
      BY <2>1, <2>3, <2>4 DEF ToldInv, InOrder
  <1> QED
    BY <1>1, <1>2, LatestUnique DEF ToldInv, IInv

LEMMA RestoredIsStored ==
  ASSUME ToldInv, NEW r \in Registries, NEW h \in Hashes, Sole(r, h)
  PROVE  Told(DOMAIN log, h) = OnChain(r, h)
  <1> DEFINE mine   == {i \in DOMAIN log : log[i].hash = h}
             opened == {i \in mine : log[i].type = "anchored"}
             base   == Latest(opened)
             since  == {i \in mine : Precedes(base, i)}
             claims == {i \in since : log[i].type = "claimed"}
             ends   == {i \in since : log[i].type = "completed"}
             last   == Latest({base} \cup since)
             a      == anchors[r][h]
  <1>1. mine = {i \in DOMAIN log : About(log[i], r, h)}
    BY DEF Sole, About
  <1>2. CASE ~Anchored(r, h)
    <2>1. \A i \in DOMAIN log : ~About(log[i], r, h)
      BY <1>2 DEF ToldInv, IInv, TableMatchesLog
    <2>2. opened = {}
      BY <1>1, <2>1
    <2>3. Told(DOMAIN log, h) = NoEntry
      BY <2>2 DEF Told
    <2> QED
      BY <1>2, <2>3 DEF OnChain
  <1>3. CASE Anchored(r, h)
    <2>1. TypeOK /\ \A i \in DOMAIN log : i \in Nat /\ log[i] \in Event
      BY DEF ToldInv, IInv, TypeOK
    <2>2. PICK x \in DOMAIN log :
            /\ log[x].type = "anchored" /\ About(log[x], r, h)
            /\ log[x].executor = a.executor /\ log[x].expires = a.expires
            /\ \A k \in DOMAIN log : log[k].type = "anchored" /\ About(log[k], r, h) => k = x
      BY <1>3 DEF ToldInv, IInv, TermsKept
    <2>3. opened = {x}
      BY <1>1, <2>2
    <2>4. base = x
      <3> HIDE DEF opened
      <3> QED
        BY <2>1, <2>3, LatestIsLast
    <2> HIDE DEF base
    <2>5. \A j \in mine : j # x => Precedes(x, j)
      <3> SUFFICES ASSUME NEW j \in mine, j # x PROVE Precedes(x, j)
        OBVIOUS
      <3>1. j \in DOMAIN log /\ About(log[j], r, h) /\ log[j].type # "anchored"
        BY <1>1, <2>2
      <3>2. PICK i \in DOMAIN log :
               i < j /\ log[i].type = "anchored" /\ SameAction(log[i], log[j])
        BY <3>1 DEF ToldInv, IInv, WithinAnchoredTerms
      <3>3. i = x
        BY <2>2, <3>1, <3>2 DEF SameAction, About
      <3> QED
        BY <3>1, <3>2, <3>3 DEF ToldInv, InOrder
    <2>6. ~Precedes(x, x)
      BY <2>1, PrecedesOrders
    <2>7. since = mine \ {x} /\ x \in mine
      BY <1>1, <2>2, <2>4, <2>5, <2>6
    <2>8. /\ {base} \cup since = mine
          /\ claims = {k \in DOMAIN log : About(log[k], r, h) /\ log[k].type = "claimed"}
          /\ ends = {k \in DOMAIN log : About(log[k], r, h) /\ log[k].type = "completed"}
      BY <1>1, <2>2, <2>4, <2>7
    <2> HIDE DEF claims, ends
    <2>9. (IF claims = {} THEN 0 ELSE log[Latest(claims)].claimExpires) = a.claimExpires
      <3>1. CASE \E i \in DOMAIN log : /\ LastOfKind(i, r, h, "claimed")
                                       /\ a.claimExpires = log[i].claimExpires
        <4>1. PICK i \in DOMAIN log : /\ LastOfKind(i, r, h, "claimed")
                                      /\ a.claimExpires = log[i].claimExpires
          BY <3>1
        <4>2. i \in claims /\ Latest(claims) = i
          BY <2>8, <4>1, LatestOfKind
        <4> QED
          BY <4>1, <4>2
      <3>2. CASE /\ a.claimExpires = 0
                 /\ \A i \in DOMAIN log : About(log[i], r, h) => log[i].type # "claimed"
        BY <2>8, <3>2
      <3> QED
        BY <3>1, <3>2 DEF ToldInv, LeaseOfLast
    <2>10. (IF ends = {} THEN NoReceipt ELSE log[Latest(ends)].receipt) = a.receipt
      <3>1. CASE \E i \in DOMAIN log : /\ LastOfKind(i, r, h, "completed")
                                       /\ a.receipt = log[i].receipt
        <4>1. PICK i \in DOMAIN log : /\ LastOfKind(i, r, h, "completed")
                                      /\ a.receipt = log[i].receipt
          BY <3>1
        <4>2. i \in ends /\ Latest(ends) = i
          BY <2>8, <4>1, LatestOfKind
        <4> QED
          BY <4>1, <4>2
      <3>2. CASE /\ a.receipt = NoReceipt
                 /\ \A i \in DOMAIN log : About(log[i], r, h) => log[i].type # "completed"
        BY <2>8, <3>2
      <3> QED
        BY <3>1, <3>2 DEF ToldInv, ReceiptOfLast
    <2>11. PICK y \in DOMAIN log : About(log[y], r, h) /\ LastAbout(y, r, h) /\ Tells(log[y], a)
      BY <1>3 DEF ToldInv, IInv, TableMatchesLog
    <2>12. last = y
      <3>1. y \in mine /\ mine \subseteq DOMAIN log
        BY <1>1, <2>11
      <3>2. ASSUME NEW k \in mine \ {y}
            PROVE  Precedes(k, y)
        <4>1. k \in DOMAIN log /\ About(log[k], r, h) /\ k # y
          BY <1>1, <3>2
        <4>2. ~(k > y) /\ k \in Nat /\ y \in Nat
          BY <2>1, <2>11, <4>1 DEF LastAbout
        <4>3. k < y
          BY <4>1, <4>2
        <4>4. SameAction(log[k], log[y])
          BY <2>11, <4>1 DEF SameAction, About
        <4> QED
          BY <4>1, <4>3, <4>4 DEF ToldInv, InOrder
      <3>3. Latest(mine) = y
        <4> HIDE DEF mine
        <4> QED
          BY <2>1, <3>1, <3>2, LatestUnique
      <3> QED
        BY <2>8, <3>3
    <2> HIDE DEF last
    <2>13. StatusAfter(last) = a.status
      BY <2>11, <2>12 DEF StatusAfter, Tells
    <2>14. (IF since = {} THEN ZeroAddress ELSE log[last].claimant) = a.claimant
      <3>1. CASE y = x
        <4>1. a.status = "anchored"
          BY <2>2, <2>11, <3>1 DEF Tells
        <4>2. a.claimant = ZeroAddress
          BY <4>1 DEF ToldInv, NobodyYet
        <4>3. since = {}
          <5> SUFFICES ASSUME NEW k \in since PROVE FALSE
            OBVIOUS
          <5>1. k \in DOMAIN log /\ About(log[k], r, h) /\ k # x
            BY <1>1, <2>7
          <5>2. ~(k > x) /\ k \in Nat /\ x \in Nat
            BY <2>1, <2>11, <3>1, <5>1 DEF LastAbout
          <5>3. Precedes(x, k) /\ Precedes(k, x)
            <6>1. k < x /\ SameAction(log[k], log[x])
              BY <2>2, <5>1, <5>2 DEF SameAction, About
            <6>2. Precedes(k, x)
              BY <5>1, <6>1 DEF ToldInv, InOrder
            <6>3. Precedes(x, k)
              BY <1>1, <2>5, <5>1
            <6> QED
              BY <6>2, <6>3
          <5> QED
            BY <2>1, <5>1, <5>3, PrecedesOrders
        <4> QED
          BY <4>2, <4>3
      <3>2. CASE y # x
        <4>1. y \in since
          BY <1>1, <2>7, <2>11, <3>2
        <4>2. log[y].type # "anchored"
          BY <2>2, <2>11, <3>2
        <4>3. a.claimant = log[y].claimant
          BY <2>11, <4>2 DEF Tells
        <4> QED
          BY <2>12, <4>1, <4>3
      <3> QED
        BY <3>1, <3>2
    <2>15. log[base].executor = a.executor /\ log[base].expires = a.expires
      BY <2>2, <2>4
    <2>16. opened # {}
      BY <2>3
    <2>17. Told(DOMAIN log, h)
             = [status       |-> StatusAfter(last),
                executor     |-> log[base].executor,
                claimant     |-> IF since = {} THEN ZeroAddress ELSE log[last].claimant,
                expires      |-> log[base].expires,
                claimExpires |-> IF claims = {} THEN 0 ELSE log[Latest(claims)].claimExpires,
                receipt      |-> IF ends = {} THEN NoReceipt ELSE log[Latest(ends)].receipt]
      BY <2>16 DEF Told, base, claims, ends, last
    <2>18. OnChain(r, h)
             = [status |-> a.status, executor |-> a.executor, claimant |-> a.claimant,
                expires |-> a.expires, claimExpires |-> a.claimExpires, receipt |-> a.receipt]
      BY <1>3 DEF OnChain
    <2> HIDE DEF since, opened, mine, a
    <2> QED
      BY <2>9, <2>10, <2>13, <2>14, <2>15, <2>17, <2>18
  <1> QED
    BY <1>2, <1>3

(***************************************************************************)
(* A driver is a user of the contract like any other: what is proved of    *)
(* the contract holds of every system of drivers.                          *)
(***************************************************************************)
THEOREM DriversUseTheContract == DriverSpec => Spec
  <1>1. DriverInit => Init
    BY DEF DriverInit
  <1>2. DriverInv /\ [DriverNext]_allVars => [Next]_vars
    BY DriverOnChain DEF DriverInv
  <1> QED
    BY <1>1, <1>2, DriverInvariance, PTL DEF DriverSpec, Spec

(***************************************************************************)
(* Restoring loses nothing: from all the events of an action, sorted as    *)
(* the driver sorts them, comes the very anchor the table holds.           *)
(***************************************************************************)
THEOREM RestoringIsExact == DriverSpec => []RestoresTheTable
  <1>1. Spec => []ToldInv
    BY ToldInitInv, ToldStepInv, PTL DEF Spec
  <1>2. ToldInv => RestoresTheTable
    BY RestoredIsStored DEF RestoresTheTable
  <1> QED
    BY <1>1, <1>2, DriversUseTheContract, PTL
=============================================================================
