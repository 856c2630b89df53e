--------------------------- MODULE HeavyPathProofs ---------------------------
(***************************************************************************)
(* Proofs about LocalTraceGuard and about HeavyPath, which is built on it, *)
(* for any actions, addresses, executors, times and leases.                *)
(***************************************************************************)
EXTENDS HeavyPath, SequenceTheorems, FiniteSetTheorems, WellFoundedInduction, TLAPS

(***************************************************************************)
(* The guard by itself is well typed, keeps an action with its executor,   *)
(* and implements the lock.                                                *)
(***************************************************************************)
\* Only a claim names a claimant.
ClaimantIffClaimed ==
    \A h \in Hashes :
        /\ anchors[h].status \in {"absent", "anchored"}
              => anchors[h].claimant = NoAddress /\ anchors[h].claimExpires = 0
        /\ anchors[h].status \in {"claimed", "executed", "failed"}
              => anchors[h].claimant # NoAddress

LocalIInv == LocalTypeOK /\ ClaimantIffClaimed /\ OnlyExecutorHolds

(***************************************************************************)
(* The three ways in which a method changes the record a of an action.     *)
(***************************************************************************)
Anchoring(a, b) == /\ a.status = "absent" /\ b.status = "anchored"
                   /\ b.claimant = NoAddress /\ b.claimExpires = 0

Claiming(a, b) == /\ ~(a.status = "claimed" /\ a.claimExpires > now)
                  /\ a.status # "absent" /\ b.status = "claimed"
                  /\ b.claimant # NoAddress /\ b.executor = a.executor
                  /\ b.executor # NoAddress => b.claimant = b.executor
                  /\ b.claimExpires > now

Closing(a, b) == /\ a.status = "claimed" /\ a.claimExpires > now
                 /\ b.status \in {"executed", "failed"}
                 /\ b.claimant = a.claimant /\ b.executor = a.executor
                 /\ b.claimExpires = a.claimExpires

LEMMA CallCases ==
  ASSUME LocalIInv, NEW h \in Hashes, LocalCall(h)
  PROVE  \/ anchors' = anchors
         \/ \E b \in LocalAnchor :
               /\ anchors' = [anchors EXCEPT ![h] = b]
               /\ Anchoring(anchors[h], b) \/ Claiming(anchors[h], b) \/ Closing(anchors[h], b)
<1> DEFINE a == anchors[h]
<1>1. a \in LocalAnchor /\ now \in Nat
  BY LocalBounds DEF LocalIInv, LocalTypeOK
<1>2. ASSUME NEW executor \in Optional \cup {ZeroAddress}, NEW expires \in Expiries,
             LocalAnchorAction(h, executor, expires, now)
      PROVE  \E b \in LocalAnchor : anchors' = [anchors EXCEPT ![h] = b] /\ Anchoring(a, b)
  <2> DEFINE b == [Unanchored EXCEPT !.status = "anchored", !.executor = executor,
                                     !.expires = expires]
  <2>1. anchors' = [anchors EXCEPT ![h] = b] /\ a.status = "absent"
    BY <1>2 DEF LocalAnchorAction, Known
  <2>2. executor \in Optional /\ expires \in Nat
    BY <1>2, LocalBounds DEF LocalAnchorAction
  <2>3. b \in LocalAnchor
    BY <2>2 DEF Unanchored, LocalAnchor, Optional
  <2>4. b.status = "anchored" /\ b.claimant = NoAddress /\ b.claimExpires = 0
    BY DEF Unanchored
  <2> HIDE DEF b
  <2> QED
    BY <2>1, <2>3, <2>4 DEF Anchoring
<1>3. ASSUME NEW decision \in PolicyDecisions, NEW claimant \in Optional, NEW lease \in Leases,
             LocalClaim(h, decision, claimant, lease, now), ~Duplicate(h, now)
      PROVE  \E b \in LocalAnchor : anchors' = [anchors EXCEPT ![h] = b] /\ Claiming(a, b)
  <2> DEFINE who == ClaimantFor(h, claimant)
             b == [a EXCEPT !.claimant = who, !.status = "claimed",
                            !.claimExpires = now + lease]
  <2>1. anchors' = [anchors EXCEPT ![h] = b]
    BY <1>3 DEF LocalClaim
  <2>2. lease \in Nat /\ lease > 0 /\ now + lease \in Nat /\ now + lease > now
    BY <1>1, <1>3, LocalBounds DEF LocalClaim, Accepts
  <2>3. a.executor \in Optional
    BY <1>1 DEF LocalAnchor
  <2>4. /\ who \in Addresses \cup {Anonymous}
        /\ who # NoAddress
        /\ a.executor # NoAddress => who = a.executor
    BY <1>3, <2>3, DistinctAddresses DEF LocalClaim, Accepts, Mismatch, ClaimantFor, Optional
  <2>5. /\ a.status # "absent"
        /\ ~(a.status = "claimed" /\ a.claimExpires > now)
    BY <1>3 DEF LocalClaim, Accepts, Known, Duplicate
  <2> HIDE DEF who
  <2>6. b \in LocalAnchor
    BY <1>1, <2>2, <2>4 DEF LocalAnchor, Optional
  <2>7. /\ b.status = "claimed" /\ b.claimant = who /\ b.executor = a.executor
        /\ b.claimExpires = now + lease
    BY <1>1 DEF LocalAnchor
  <2> HIDE DEF b
  <2> QED
    BY <2>1, <2>2, <2>4, <2>5, <2>6, <2>7 DEF Claiming
<1>4. ASSUME NEW by, NEW status \in {"executed", "failed"}, Closable(h, by, now),
             anchors' = [anchors EXCEPT ![h] = [@ EXCEPT !.status = status]]
      PROVE  \E b \in LocalAnchor : anchors' = [anchors EXCEPT ![h] = b] /\ Closing(a, b)
  <2> DEFINE b == [a EXCEPT !.status = status]
  <2>1. anchors' = [anchors EXCEPT ![h] = b]
    BY <1>4
  <2>2. b \in LocalAnchor
    BY <1>1 DEF LocalAnchor
  <2>3. a.status = "claimed" /\ a.claimExpires > now
    BY <1>1, <1>4 DEF Closable, LocalAnchor
  <2>4. /\ b.status = status /\ b.claimant = a.claimant /\ b.executor = a.executor
        /\ b.claimExpires = a.claimExpires
    BY <1>1 DEF LocalAnchor
  <2> HIDE DEF b
  <2> QED
    BY <2>1, <2>2, <2>3, <2>4 DEF Closing
<1>5. ASSUME NEW decision, NEW claimant, NEW lease,
             LocalClaim(h, decision, claimant, lease, now), Duplicate(h, now)
      PROVE  anchors' = anchors
  BY <1>5 DEF LocalClaim
<1>6. ASSUME NEW receipt, LocalComplete(h, receipt, now)
      PROVE  \E b \in LocalAnchor : anchors' = [anchors EXCEPT ![h] = b] /\ Closing(a, b)
  BY <1>4, <1>6 DEF LocalComplete
<1>7. ASSUME NEW claimant, LocalFail(h, claimant, now)
      PROVE  \E b \in LocalAnchor : anchors' = [anchors EXCEPT ![h] = b] /\ Closing(a, b)
  BY <1>4, <1>7 DEF LocalFail
<1> QED
  BY <1>2, <1>3, <1>5, <1>6, <1>7 DEF LocalCall

LEMMA LocalInitInv == LocalInit => LocalIInv
  BY LocalBounds DEF LocalInit, LocalIInv, LocalTypeOK, LocalAnchor, Unanchored, Optional,
                     ClaimantIffClaimed, OnlyExecutorHolds

LEMMA LocalCallInv ==
  ASSUME LocalIInv, NEW h \in Hashes, LocalCall(h)
  PROVE  LocalIInv'
<1>1. now' = now
  BY DEF LocalCall
<1>2. CASE anchors' = anchors
  BY <1>1, <1>2 DEF LocalIInv, LocalTypeOK, ClaimantIffClaimed, OnlyExecutorHolds
<1>3. ASSUME NEW b \in LocalAnchor, anchors' = [anchors EXCEPT ![h] = b],
             Anchoring(anchors[h], b) \/ Claiming(anchors[h], b) \/ Closing(anchors[h], b)
      PROVE  LocalIInv'
  <2>1. anchors \in [Hashes -> LocalAnchor] /\ now \in 0 .. MaxTime
    BY DEF LocalIInv, LocalTypeOK
  <2>2. \A g \in Hashes : anchors'[g] = IF g = h THEN b ELSE anchors[g]
    BY <1>3, <2>1
  <2>3. LocalTypeOK'
    BY <1>1, <1>3, <2>1 DEF LocalTypeOK
  <2>4. /\ b.status \in {"absent", "anchored"} => b.claimant = NoAddress /\ b.claimExpires = 0
        /\ b.status \in {"claimed", "executed", "failed"} => b.claimant # NoAddress
        /\ b.status \in {"claimed", "executed", "failed"} /\ b.executor # NoAddress
              => b.claimant = b.executor
    BY <1>3 DEF Anchoring, Claiming, Closing, LocalIInv, ClaimantIffClaimed, OnlyExecutorHolds
  <2>5. ClaimantIffClaimed' /\ OnlyExecutorHolds'
    BY <2>2, <2>4 DEF LocalIInv, ClaimantIffClaimed, OnlyExecutorHolds
  <2> QED
    BY <2>3, <2>5 DEF LocalIInv
<1> QED
  BY <1>2, <1>3, CallCases

LEMMA LocalInvariance == LocalSpec => []LocalIInv
<1>1. ASSUME LocalIInv, [LocalNext]_localVars PROVE LocalIInv'
  <2>1. CASE LocalTick
    BY <1>1, <2>1, LocalBounds
    DEF LocalTick, LocalIInv, LocalTypeOK, ClaimantIffClaimed, OnlyExecutorHolds
  <2>2. CASE UNCHANGED localVars
    BY <1>1, <2>2 DEF localVars, LocalIInv, LocalTypeOK, ClaimantIffClaimed, OnlyExecutorHolds
  <2> QED
    BY <1>1, <2>1, <2>2, LocalCallInv DEF LocalNext
<1> QED
  BY LocalInitInv, <1>1, PTL DEF LocalSpec

(***************************************************************************)
(* Every record the local guard stores is well formed.                     *)
(***************************************************************************)
THEOREM LocalTypeCorrect == LocalSpec => []LocalTypeOK
<1>1. LocalIInv => LocalTypeOK
  BY DEF LocalIInv
<1> QED
  BY LocalInvariance, <1>1, PTL

(***************************************************************************)
(* An action anchored for an executor is held under that executor's name   *)
(* only.                                                                   *)
(***************************************************************************)
THEOREM ExecutorsHold == LocalSpec => []OnlyExecutorHolds
<1>1. LocalIInv => OnlyExecutorHolds
  BY DEF LocalIInv
<1> QED
  BY LocalInvariance, <1>1, PTL

-----------------------------------------------------------------------------
LEMMA LocalLockInit == LocalInit => LocalLock!Init
<1> SUFFICES ASSUME LocalInit PROVE LocalLock!Init
  OBVIOUS
<1>1. now \in Nat
  BY LocalBounds DEF LocalInit
<1>2. LocalGrantOf(Unanchored) = LocalLock!NoGrant
  BY DEF LocalGrantOf, Unanchored, LocalLock!NoGrant
<1>3. LocalGrant = [h \in Hashes |-> LocalLock!NoGrant]
  BY <1>2 DEF LocalInit, LocalGrant
<1> QED
  BY <1>1, <1>3 DEF LocalLock!Init

LEMMA LocalLockCall ==
  ASSUME LocalIInv, NEW h \in Hashes, LocalCall(h)
  PROVE  [LocalLock!Next]_(LocalLock!vars)
<1>1. /\ now' = now /\ now \in Nat
      /\ anchors \in [Hashes -> LocalAnchor]
  BY LocalBounds DEF LocalCall, LocalIInv, LocalTypeOK
<1>2. CASE anchors' = anchors
  BY <1>1, <1>2 DEF LocalLock!vars, LocalGrant, LocalGrantOf
<1>3. ASSUME NEW b \in LocalAnchor, anchors' = [anchors EXCEPT ![h] = b],
             Anchoring(anchors[h], b) \/ Claiming(anchors[h], b) \/ Closing(anchors[h], b)
      PROVE  [LocalLock!Next]_(LocalLock!vars)
  <2> DEFINE a == anchors[h]
             g == LocalGrantOf(b)
  <2>1. /\ g.holder = b.claimant /\ g.until = b.claimExpires
        /\ g.phase = IF b.status \in {"executed", "failed"} THEN "closed" ELSE "open"
        /\ g = [holder |-> g.holder, until |-> g.until, phase |-> g.phase]
    BY DEF LocalGrantOf
  <2>2. LocalGrant[h] = [holder |-> a.claimant, until |-> a.claimExpires,
                         phase |-> IF a.status \in {"executed", "failed"} THEN "closed"
                                   ELSE "open"]
    BY DEF LocalGrant, LocalGrantOf
  <2>3. LocalGrant' = [LocalGrant EXCEPT ![h] = g]
    <3>1. \A k \in Hashes : anchors'[k] = IF k = h THEN b ELSE anchors[k]
      BY <1>1, <1>3
    <3>2. LocalGrant' = [k \in Hashes |-> LocalGrantOf(anchors'[k])]
      BY DEF LocalGrant, LocalGrantOf
    <3> HIDE DEF g
    <3>3. \A k \in Hashes : LocalGrantOf(anchors'[k]) = IF k = h THEN g ELSE LocalGrantOf(anchors[k])
      BY <3>1 DEF g
    <3> QED
      BY <3>2, <3>3 DEF LocalGrant
  <2>4. LocalGrant'[h] = g
    BY <2>3 DEF LocalGrant
  <2>5. ClaimantIffClaimed
    BY DEF LocalIInv
  <2>6. CASE Anchoring(a, b)
    <3>1. g = LocalGrant[h]
      BY <2>2, <2>5, <2>6 DEF LocalGrantOf, Anchoring, ClaimantIffClaimed
    <3> HIDE DEF g
    <3>2. LocalGrant' = LocalGrant
      BY <2>3, <3>1 DEF LocalGrant
    <3> QED
      BY <1>1, <3>2 DEF LocalLock!vars
  <2>7. CASE Claiming(a, b)
    <3>1. ~LocalLock!Live(h)
      BY <2>2, <2>5, <2>7, <1>1 DEF LocalLock!Live, Claiming, ClaimantIffClaimed, LocalAnchor
    <3>2. b.claimant \in Addresses \cup {Anonymous} /\ b.claimExpires \in Nat
      BY <1>3, <2>7 DEF Claiming, LocalAnchor, Optional
    <3>3. g \in LocalLock!Grants /\ g.holder # NoAddress /\ g.until > now /\ g.phase = "open"
      BY <2>1, <2>7, <3>2 DEF Claiming, LocalLock!Grants
    <3> HIDE DEF g
    <3>4. LocalLock!Acquire(h)
      BY <1>1, <2>3, <2>4, <3>1, <3>3 DEF LocalLock!Acquire
    <3> QED
      BY <3>4 DEF LocalLock!Next
  <2>8. CASE Closing(a, b)
    <3>1. LocalGrant[h] = [holder |-> a.claimant, until |-> a.claimExpires, phase |-> "open"]
      BY <2>2, <2>8 DEF Closing
    <3>2. LocalLock!Live(h)
      BY <2>5, <2>8, <3>1 DEF LocalLock!Live, Closing, ClaimantIffClaimed
    <3>3. g = [LocalGrant[h] EXCEPT !.phase = "closed"]
      BY <2>1, <2>8, <3>1 DEF Closing
    <3> HIDE DEF g
    <3>4. LocalLock!Finish(h)
      BY <1>1, <2>3, <3>2, <3>3 DEF LocalLock!Finish, LocalGrant
    <3> QED
      BY <3>4 DEF LocalLock!Next
  <2> QED
    BY <1>3, <2>6, <2>7, <2>8
<1> QED
  BY <1>2, <1>3, CallCases

(***************************************************************************)
(* Called with the current time, the local guard implements the lock: a    *)
(* live grant is neither replaced nor prolonged, and no other is closed.   *)
(***************************************************************************)
THEOREM LocalGuardImplementsLock == LocalSpec => ImplementsLock
<1>1. ASSUME LocalIInv, [LocalNext]_localVars PROVE [LocalLock!Next]_(LocalLock!vars)
  <2>1. CASE LocalTick
    <3>1. now \in Nat
      BY <1>1, LocalBounds DEF LocalIInv, LocalTypeOK
    <3>2. UNCHANGED LocalGrant /\ now' \in Nat /\ now' > now
      BY <2>1, <3>1 DEF LocalTick, LocalGrant, LocalGrantOf
    <3> QED
      BY <3>2 DEF LocalLock!Next, LocalLock!Advance
  <2>2. CASE UNCHANGED localVars
    BY <2>2 DEF localVars, LocalLock!vars, LocalGrant, LocalGrantOf
  <2> QED
    BY <1>1, <2>1, <2>2, LocalLockCall DEF LocalNext
<1> QED
  BY LocalLockInit, LocalInvariance, <1>1, PTL DEF LocalSpec, ImplementsLock, LocalLock!Spec

-----------------------------------------------------------------------------
(***************************************************************************)
(* The path.  The guard's record of an action is that of its last grant,   *)
(* and every earlier grant has lapsed or was closed; what an actor does    *)
(* next rests on an event that is in the session already.                  *)
(***************************************************************************)
LastGrant(h) == grants[h][Len(grants[h])]

\* The record of an action is that of its last grant.
RecordIsLast ==
    \A h \in Hashes :
        /\ anchors[h].status \in {"absent", "anchored"} <=> grants[h] = << >>
        /\ grants[h] # << >> =>
              /\ LastGrant(h).until = anchors[h].claimExpires
              /\ LastGrant(h).closed = IF anchors[h].status = "claimed" THEN 0 ELSE 1

\* Earlier grants are over.
EarlierOver ==
    \A h \in Hashes : \A g \in DOMAIN grants[h] :
        g # Len(grants[h]) =>
            /\ grants[h][g].closed <= 1
            /\ grants[h][g].until <= now \/ grants[h][g].closed > 0

\* Who holds a claim was granted it.
CallsAreGranted ==
    \A x \in Executors :
        /\ call[x].pc # "idle" => call[x].action \in Hashes
        /\ call[x].pc \notin {"idle", "refused"} =>
              call[x].grant \in DOMAIN grants[call[x].action]

\* What is in the session, for someone who reads it now.
Proposed(h) == ProposedBefore(session, Len(session) + 1, h)
Recorded(kind, h) == Before(session, Len(session) + 1, kind, h, h)

\* An event of a log rests on one before it.
Rests(log, j) ==
    LET t == log[j].trace
    IN  /\ log[j].type # "proposal" => log[j].hash = t
        /\ log[j].type = "decision" => ProposedBefore(log, j, t)
        /\ log[j].type = "anchor" => Before(log, j, "decision", t, t)
        /\ log[j].type = "claim" /\ log[j].says = "yes" => Before(log, j, "decision", t, t)
        /\ log[j].type = "receipt" => Before(log, j, "claim", t, t)

SessionRests == \A j \in DOMAIN session : Rests(session, j)

\* What the coordinator and the executors go by is in the session.
ActorsRest ==
    /\ \A h \in Hashes :
          /\ stage[h] # "new" => Proposed(h)
          /\ stage[h] \in {"approved", "anchoring"} => Recorded("decision", h)
    /\ \A x \in Executors :
          /\ call[x].pc = "claiming" => Recorded("decision", call[x].action)
          /\ call[x].pc \in {"holding", "executing", "effected", "recording"}
                => Recorded("claim", call[x].action)

TableInv == RecordIsLast /\ EarlierOver

IInv == HeavyTypeOK /\ TableInv /\ CallsAreGranted /\ SessionRests /\ ActorsRest

-----------------------------------------------------------------------------
(***************************************************************************)
(* What the methods of the guard do to the record of an action.            *)
(***************************************************************************)
LEMMA GuardAnchors ==
    ASSUME LocalTypeOK, NEW h \in Hashes, NEW executor \in Optional \cup {ZeroAddress},
           NEW expires \in Expiries, NEW at, LocalAnchorAction(h, executor, expires, at)
    PROVE  \E b \in LocalAnchor :
              /\ anchors' = [anchors EXCEPT ![h] = b]
              /\ anchors[h].status = "absent" /\ b.status = "anchored"
<1> DEFINE b == [Unanchored EXCEPT !.status = "anchored", !.executor = executor,
                                   !.expires = expires]
<1>1. anchors' = [anchors EXCEPT ![h] = b] /\ anchors[h].status = "absent"
  BY DEF LocalAnchorAction, Known
<1>2. executor \in Optional /\ expires \in Nat
  BY LocalBounds DEF LocalAnchorAction
<1>3. b \in LocalAnchor /\ b.status = "anchored"
  BY <1>2 DEF Unanchored, LocalAnchor, Optional
<1> HIDE DEF b
<1> QED
  BY <1>1, <1>3

LEMMA GuardClaims ==
    ASSUME LocalTypeOK, NEW h \in Hashes, NEW decision, NEW claimant \in Optional,
           NEW lease \in Leases, NEW at \in Nat,
           LocalClaim(h, decision, claimant, lease, at), ~Duplicate(h, at)
    PROVE  \E b \in LocalAnchor :
              /\ anchors' = [anchors EXCEPT ![h] = b]
              /\ anchors[h].status # "absent"
              /\ anchors[h].status = "claimed" => anchors[h].claimExpires <= at
              /\ b.status = "claimed" /\ b.claimExpires = at + lease
<1> DEFINE a == anchors[h]
           who == ClaimantFor(h, claimant)
           until == at + lease
           b == [a EXCEPT !.claimant = who, !.status = "claimed", !.claimExpires = until]
<1>1. anchors' = [anchors EXCEPT ![h] = b]
  BY DEF LocalClaim
<1>2. a \in LocalAnchor
  BY DEF LocalTypeOK
<1>3. a.claimExpires \in Nat /\ a.executor \in Optional
  BY <1>2 DEF LocalAnchor
<1>4. a.status # "absent" /\ (a.status = "claimed" => a.claimExpires <= at)
  BY <1>3 DEF LocalClaim, Accepts, Known, Duplicate
<1>5. who \in Optional \cup {Anonymous} /\ until \in Nat
  BY <1>3, LocalBounds DEF ClaimantFor
<1> HIDE DEF a, who, until
<1>6. b \in LocalAnchor /\ b.status = "claimed" /\ b.claimExpires = until
  BY <1>2, <1>5 DEF LocalAnchor
<1> HIDE DEF b
<1> QED
  BY <1>1, <1>4, <1>6 DEF a, until

Closes(h) ==
    \E b \in LocalAnchor :
        /\ anchors' = [anchors EXCEPT ![h] = b]
        /\ anchors[h].status = "claimed" /\ b.status \in {"executed", "failed"}
        /\ b.claimExpires = anchors[h].claimExpires

LEMMA GuardCloses ==
    ASSUME LocalTypeOK, NEW h \in Hashes, NEW receipt, NEW by, NEW at,
           LocalComplete(h, receipt, at) \/ LocalFail(h, by, at)
    PROVE  Closes(h)
<1>1. PICK status \in {"executed", "failed"} :
         anchors' = [anchors EXCEPT ![h] = [@ EXCEPT !.status = status]]
  <2>1. CASE LocalComplete(h, receipt, at)
    <3>1. CASE receipt.status = "success"
      BY <2>1, <3>1 DEF LocalComplete
    <3>2. CASE receipt.status # "success"
      BY <2>1, <3>2 DEF LocalComplete
    <3> QED
      BY <3>1, <3>2
  <2>2. CASE LocalFail(h, by, at)
    BY <2>2 DEF LocalFail
  <2> QED
    BY <2>1, <2>2
<1> DEFINE b == [anchors[h] EXCEPT !.status = status]
<1>2. anchors[h].status = "claimed"
  BY DEF LocalComplete, LocalFail, Closable
<1>3. anchors[h] \in LocalAnchor
  BY DEF LocalTypeOK
<1>4. b \in LocalAnchor /\ b.status = status /\ b.claimExpires = anchors[h].claimExpires
  BY <1>3 DEF LocalAnchor
<1>5. anchors' = [anchors EXCEPT ![h] = b]
  BY <1>1
<1> HIDE DEF b
<1> QED
  BY <1>2, <1>4, <1>5 DEF Closes

-----------------------------------------------------------------------------
(***************************************************************************)
(* The grants of an action and its record.                                 *)
(***************************************************************************)
LEMMA Shapes ==
    ASSUME HeavyTypeOK
    PROVE  /\ now \in Nat /\ LocalTypeOK
           /\ \A h \in Hashes :
                 /\ anchors[h] \in LocalAnchor /\ anchors[h].claimExpires \in Nat
                 /\ grants[h] \in Seq(Grant) /\ Len(grants[h]) \in Nat
                 /\ DOMAIN grants[h] = 1 .. Len(grants[h])
                 /\ \A g \in DOMAIN grants[h] : grants[h][g] \in Grant
<1>1. now \in Nat /\ LocalTypeOK
  BY LocalBounds DEF HeavyTypeOK, LocalTypeOK
<1>2. ASSUME NEW h \in Hashes
      PROVE  /\ anchors[h] \in LocalAnchor /\ anchors[h].claimExpires \in Nat
             /\ grants[h] \in Seq(Grant) /\ Len(grants[h]) \in Nat
             /\ DOMAIN grants[h] = 1 .. Len(grants[h])
             /\ \A g \in DOMAIN grants[h] : grants[h][g] \in Grant
  <2>1. anchors[h] \in LocalAnchor
    BY <1>1 DEF LocalTypeOK
  <2>2. anchors[h].claimExpires \in Nat
    BY <2>1 DEF LocalAnchor
  <2>3. grants[h] \in Seq(Grant)
    BY DEF HeavyTypeOK
  <2> QED
    BY <2>1, <2>2, <2>3
<1> QED
  BY <1>1, <1>2

LEMMA TableQuiet ==
    ASSUME HeavyTypeOK, TableInv, anchors' = anchors, grants' = grants,
           now' \in Nat, now <= now'
    PROVE  TableInv'
<1>1. RecordIsLast'
  BY DEF TableInv, RecordIsLast, LastGrant
<1>2. EarlierOver'
  <2> SUFFICES ASSUME NEW h \in Hashes, NEW g \in DOMAIN grants[h], g # Len(grants[h])
               PROVE  /\ grants[h][g].closed <= 1
                      /\ grants[h][g].until <= now' \/ grants[h][g].closed > 0
    BY DEF EarlierOver
  <2>1. /\ grants[h][g].closed <= 1
        /\ grants[h][g].until <= now \/ grants[h][g].closed > 0
    BY DEF TableInv, EarlierOver
  <2>2. grants[h][g].until \in Nat /\ now \in Nat
    BY Shapes DEF Grant
  <2> QED
    BY <2>1, <2>2
<1> QED
  BY <1>1, <1>2 DEF TableInv

\* Only the record of h changes, from absent to anchored.
LEMMA TableAnchors ==
    ASSUME HeavyTypeOK, TableInv, NEW h \in Hashes, NEW b \in LocalAnchor,
           anchors' = [anchors EXCEPT ![h] = b], anchors[h].status = "absent",
           b.status = "anchored", grants' = grants, now' = now
    PROVE  TableInv'
<1>1. \A k \in Hashes : anchors'[k] = IF k = h THEN b ELSE anchors[k]
  BY DEF HeavyTypeOK, LocalTypeOK
<1>2. grants[h] = << >>
  BY DEF TableInv, RecordIsLast
<1>3. RecordIsLast'
  BY <1>1, <1>2 DEF TableInv, RecordIsLast, LastGrant
<1>4. EarlierOver'
  BY DEF TableInv, EarlierOver
<1> QED
  BY <1>3, <1>4 DEF TableInv

\* A grant that goes on until lapses, or closes, before the next.
LEMMA TableGrants ==
    ASSUME HeavyTypeOK, TableInv, NEW h \in Hashes, NEW b \in LocalAnchor,
           anchors' = [anchors EXCEPT ![h] = b], anchors[h].status # "absent",
           anchors[h].status = "claimed" => anchors[h].claimExpires <= now,
           b.status = "claimed", now' = now,
           grants' = [grants EXCEPT ![h] =
                        Append(@, [until |-> b.claimExpires, closed |-> 0])]
    PROVE  TableInv'
<1> DEFINE new == [until |-> b.claimExpires, closed |-> 0]
           n   == Len(grants[h])
<1>1. \A k \in Hashes : anchors'[k] = IF k = h THEN b ELSE anchors[k]
  BY DEF HeavyTypeOK, LocalTypeOK
<1>2. \A k \in Hashes : grants'[k] = IF k = h THEN Append(grants[h], new) ELSE grants[k]
  BY DEF HeavyTypeOK
<1>3. grants[h] \in Seq(Grant) /\ n \in Nat /\ DOMAIN grants[h] = 1 .. n
  BY Shapes
<1>4. new \in Grant /\ new.until = b.claimExpires /\ new.closed = 0
  BY DEF Grant, LocalAnchor
<1> HIDE DEF new
<1>5. /\ Len(grants'[h]) = n + 1 /\ DOMAIN grants'[h] = 1 .. n + 1
      /\ grants'[h][n + 1] = new /\ \A g \in 1 .. n : grants'[h][g] = grants[h][g]
      /\ grants'[h] # << >>
  <2> DEFINE s == grants[h]
  <2>1. s \in Seq(Grant) /\ grants'[h] = Append(s, new)
    BY <1>2, <1>3
  <2> HIDE DEF s
  <2>2. /\ Len(Append(s, new)) = Len(s) + 1 /\ DOMAIN Append(s, new) = 1 .. Len(s) + 1
        /\ Append(s, new)[Len(s) + 1] = new
        /\ \A g \in 1 .. Len(s) : Append(s, new)[g] = s[g]
        /\ Append(s, new) # << >>
    BY <1>4, <2>1
  <2> QED
    BY <2>1, <2>2 DEF s
<1>6. RecordIsLast'
  <2> SUFFICES ASSUME NEW k \in Hashes
               PROVE  /\ anchors'[k].status \in {"absent", "anchored"} <=> grants'[k] = << >>
                      /\ grants'[k] # << >> =>
                            /\ LastGrant(k)'.until = anchors'[k].claimExpires
                            /\ LastGrant(k)'.closed =
                                  IF anchors'[k].status = "claimed" THEN 0 ELSE 1
    BY DEF RecordIsLast
  <2>1. CASE k = h
    BY <1>1, <1>4, <1>5, <2>1 DEF LastGrant
  <2>2. CASE k # h
    BY <1>1, <1>2, <2>2 DEF TableInv, RecordIsLast, LastGrant
  <2> QED
    BY <2>1, <2>2
<1>7. EarlierOver'
  <2> SUFFICES ASSUME NEW k \in Hashes, NEW g \in DOMAIN grants'[k], g # Len(grants'[k])
               PROVE  /\ grants'[k][g].closed <= 1
                      /\ grants'[k][g].until <= now \/ grants'[k][g].closed > 0
    BY DEF EarlierOver
  <2>1. CASE k # h
    BY <1>2, <2>1 DEF TableInv, EarlierOver
  <2>2. CASE k = h
    <3>1. g \in 1 .. n /\ grants'[k][g] = grants[h][g]
      BY <1>3, <1>5, <2>2
    <3>2. CASE g # n
      BY <1>3, <3>1, <3>2 DEF TableInv, EarlierOver
    <3>3. CASE g = n
      <4>1. grants[h] # << >> /\ grants[h][g] = LastGrant(h)
        BY <1>3, <3>1, <3>3 DEF LastGrant
      <4> QED
        BY <3>1, <4>1 DEF TableInv, RecordIsLast
    <3> QED
      BY <3>2, <3>3
  <2> QED
    BY <2>1, <2>2
<1> QED
  BY <1>6, <1>7 DEF TableInv

LEMMA ClosedGrants ==
    ASSUME HeavyTypeOK, TableInv, NEW h \in Hashes, anchors[h].status = "claimed",
           CloseGrant(h)
    PROVE  /\ grants' \in [Hashes -> Seq(Grant)]
           /\ \A k \in Hashes : k # h => grants'[k] = grants[k]
           /\ grants[h] # << >> /\ Len(grants'[h]) = Len(grants[h])
           /\ DOMAIN grants'[h] = DOMAIN grants[h]
           /\ \A g \in DOMAIN grants[h] :
                 /\ g # Len(grants[h]) => grants'[h][g] = grants[h][g]
                 /\ g = Len(grants[h]) => /\ grants'[h][g].until = grants[h][g].until
                                          /\ grants'[h][g].closed = 1
<1> DEFINE n == Len(grants[h])
           last == grants[h][n]
           done == [last EXCEPT !.closed = @ + 1]
           closed == [grants[h] EXCEPT ![n] = done]
<1>1. grants[h] # << >> /\ last.closed = 0
  BY DEF TableInv, RecordIsLast, LastGrant
<1>2. grants[h] \in Seq(Grant) /\ n \in 1 .. n /\ n \in DOMAIN grants[h]
  BY <1>1, Shapes
<1>3. last \in Grant
  BY <1>2, Shapes
<1>4. done \in Grant /\ done.until = last.until /\ done.closed = 1
  BY <1>1, <1>3 DEF Grant
<1>5. grants' = [grants EXCEPT ![h] = closed]
  BY DEF CloseGrant
<1>6. DOMAIN closed = DOMAIN grants[h]
  OBVIOUS
<1> HIDE DEF done
<1>7. /\ closed \in Seq(Grant) /\ Len(closed) = n
      /\ \A g \in DOMAIN grants[h] : closed[g] = IF g = n THEN done ELSE grants[h][g]
  BY <1>2, <1>4, ExceptSeq
<1> HIDE DEF closed
<1>8. /\ grants' \in [Hashes -> Seq(Grant)] /\ grants'[h] = closed
      /\ \A k \in Hashes : k # h => grants'[k] = grants[k]
  BY <1>5, <1>7 DEF HeavyTypeOK
<1> QED
  BY <1>1, <1>4, <1>6, <1>7, <1>8

LEMMA TableCloses ==
    ASSUME HeavyTypeOK, TableInv, NEW h \in Hashes, Closes(h), CloseGrant(h), now' = now
    PROVE  TableInv'
<1>1. PICK b \in LocalAnchor :
         /\ anchors' = [anchors EXCEPT ![h] = b]
         /\ anchors[h].status = "claimed" /\ b.status \in {"executed", "failed"}
         /\ b.claimExpires = anchors[h].claimExpires
  BY DEF Closes
<1>2. \A k \in Hashes : anchors'[k] = IF k = h THEN b ELSE anchors[k]
  BY <1>1 DEF HeavyTypeOK, LocalTypeOK
<1>3. /\ \A k \in Hashes : k # h => grants'[k] = grants[k]
      /\ grants[h] # << >> /\ Len(grants'[h]) = Len(grants[h])
      /\ DOMAIN grants'[h] = DOMAIN grants[h]
      /\ \A g \in DOMAIN grants[h] :
            /\ g # Len(grants[h]) => grants'[h][g] = grants[h][g]
            /\ g = Len(grants[h]) => /\ grants'[h][g].until = grants[h][g].until
                                     /\ grants'[h][g].closed = 1
  BY <1>1, ClosedGrants
<1>4. Len(grants[h]) \in DOMAIN grants[h] /\ grants'[h] # << >>
  BY <1>3, Shapes
<1>5. RecordIsLast'
  <2> SUFFICES ASSUME NEW k \in Hashes
               PROVE  /\ anchors'[k].status \in {"absent", "anchored"} <=> grants'[k] = << >>
                      /\ grants'[k] # << >> =>
                            /\ LastGrant(k)'.until = anchors'[k].claimExpires
                            /\ LastGrant(k)'.closed =
                                  IF anchors'[k].status = "claimed" THEN 0 ELSE 1
    BY DEF RecordIsLast
  <2>1. CASE k = h
    <3>1. LastGrant(h).until = anchors[h].claimExpires
      BY <1>3 DEF TableInv, RecordIsLast
    <3>2. LastGrant(h)'.until = LastGrant(h).until /\ LastGrant(h)'.closed = 1
      BY <1>3, <1>4 DEF LastGrant
    <3> QED
      BY <1>1, <1>2, <1>4, <2>1, <3>1, <3>2
  <2>2. CASE k # h
    BY <1>2, <1>3, <2>2 DEF TableInv, RecordIsLast, LastGrant
  <2> QED
    BY <2>1, <2>2
<1>6. EarlierOver'
  <2> SUFFICES ASSUME NEW k \in Hashes, NEW g \in DOMAIN grants'[k], g # Len(grants'[k])
               PROVE  /\ grants'[k][g].closed <= 1
                      /\ grants'[k][g].until <= now \/ grants'[k][g].closed > 0
    BY DEF EarlierOver
  <2>1. /\ g \in DOMAIN grants[k] /\ g # Len(grants[k]) /\ grants'[k][g] = grants[k][g]
    BY <1>3
  <2> QED
    BY <2>1 DEF TableInv, EarlierOver
<1> QED
  BY <1>5, <1>6 DEF TableInv

-----------------------------------------------------------------------------
(***************************************************************************)
(* Events of the session.                                                  *)
(***************************************************************************)
\* A finite set of numbers has a greatest one.
LEMMA HasGreatest ==
    ASSUME NEW S, S \subseteq Nat, S # {}, IsFiniteSet(S)
    PROVE  \E x \in S : \A y \in S : y <= x
<1> DEFINE Above(x) == {y \in S : y > x}
           T == {Above(x) : x \in S}
           F == FiniteSubsetsOf(S)
<1>1. IsWellFoundedOn(StrictSubsetOrdering(S), F)
  BY FS_StrictSubsetOrderingWellFounded
<1>2. T \subseteq F /\ T # {}
  <2>1. F = SUBSET S
    BY FS_FiniteSubsetsOfFinite
  <2> HIDE DEF F
  <2> QED
    BY <2>1
<1>3. PICK U \in T : \A V \in T : ~(<<V, U>> \in StrictSubsetOrdering(S))
  <2> HIDE DEF T, F
  <2> QED
    BY <1>1, <1>2, WFMin
<1>4. PICK x \in S : U = Above(x)
  BY <1>3
<1>5. \A y \in S : ~(y > x)
  <2> SUFFICES ASSUME NEW y \in S, y > x PROVE FALSE
    OBVIOUS
  <2>1. \A z \in S : z > y => z > x
    OBVIOUS
  <2>2. y \in Above(x) /\ y \notin Above(y)
    OBVIOUS
  <2>3. Above(y) \subseteq Above(x) /\ Above(y) # Above(x)
    BY <2>1, <2>2
  <2>4. Above(y) \in T /\ Above(x) \in SUBSET S /\ Above(y) \in SUBSET S
    OBVIOUS
  <2>5. <<Above(y), Above(x)>> \in StrictSubsetOrdering(S)
    BY <2>3, <2>4 DEF StrictSubsetOrdering
  <2> QED
    BY <1>3, <1>4, <2>4, <2>5
<1> QED
  BY <1>5

Kinds == {"proposal", "decision", "anchor", "claim", "receipt"}

LEMMA EventShape ==
    ASSUME HeavyTypeOK, NEW kind \in Kinds, NEW h \in Hashes, NEW says \in {"yes", "no"}
    PROVE  /\ EventOf(kind, h, says) \in SessionEvent
           /\ EventOf(kind, h, says).type = kind /\ EventOf(kind, h, says).trace = h
           /\ kind # "proposal" => EventOf(kind, h, says).hash = h
           /\ EventOf(kind, h, says).says = says
<1>1. /\ session \in Seq(SessionEvent) /\ Len(session) \in Nat
      /\ DOMAIN session = 1 .. Len(session)
  BY DEF HeavyTypeOK
<1>2. LastOf(h) \in Nat \cup {NoEvent}
  <2> DEFINE own == {i \in DOMAIN session : session[i].trace = h}
  <2>1. CASE own = {}
    BY <2>1 DEF LastOf
  <2>2. CASE own # {}
    <3>1. own \subseteq 1 .. Len(session) /\ 1 .. Len(session) \subseteq Nat
      BY <1>1
    <3>7. IsFiniteSet(1 .. Len(session))
      BY <1>1, FS_Interval
    <3>2. LastOf(h) = CHOOSE i \in own : \A j \in own : j <= i
      BY <2>2 DEF LastOf
    <3> HIDE DEF own
    <3>3. \E i \in own : \A j \in own : j <= i
      <4>1. IsFiniteSet(own) /\ own \subseteq Nat
        BY <3>1, <3>7, FS_Subset
      <4> QED
        BY <2>2, <4>1, HasGreatest
    <3>4. LastOf(h) \in own
      BY <3>2, <3>3
    <3>6. LastOf(h) \in Nat
      BY <3>1, <3>4
    <3> QED
      BY <3>6
  <2> QED
    BY <2>1, <2>2
<1> QED
  BY <1>1, <1>2 DEF EventOf, SessionEvent, Kinds

\* What an added event e leaves in the session, and adds to it.
LEMMA SessionGrows ==
    ASSUME HeavyTypeOK, NEW e \in SessionEvent, session' = Append(session, e)
    PROVE  /\ session' \in Seq(SessionEvent)
           /\ Len(session') = Len(session) + 1 /\ Len(session) \in Nat
           /\ DOMAIN session = 1 .. Len(session)
           /\ DOMAIN session' = DOMAIN session \cup {Len(session) + 1}
           /\ session'[Len(session) + 1] = e
           /\ \A j \in DOMAIN session : session'[j] = session[j]
BY DEF HeavyTypeOK

LEMMA EarlierStays ==
    ASSUME HeavyTypeOK, NEW e \in SessionEvent, session' = Append(session, e),
           NEW j \in 1 .. Len(session) + 1
    PROVE  /\ \A t : ProposedBefore(session, j, t) => ProposedBefore(session', j, t)
           /\ \A kind, t, h : Before(session, j, kind, t, h) => Before(session', j, kind, t, h)
BY SessionGrows DEF ProposedBefore, Before

LEMMA RecordsStay ==
    ASSUME HeavyTypeOK, NEW e \in SessionEvent, session' = Append(session, e)
    PROVE  /\ \A t : Proposed(t) => Proposed(t)'
           /\ \A kind, t : Recorded(kind, t) => Recorded(kind, t)'
           /\ e.type = "proposal" => Proposed(e.trace)'
           /\ e.hash = e.trace /\ e.says = "yes" => Recorded(e.type, e.trace)'
<1> DEFINE n == Len(session)
<1>1. /\ n \in Nat /\ Len(session') = n + 1 /\ DOMAIN session = 1 .. n
      /\ DOMAIN session' = DOMAIN session \cup {n + 1}
      /\ session'[n + 1] = e /\ \A j \in DOMAIN session : session'[j] = session[j]
  BY SessionGrows
<1> HIDE DEF n
<1>2. ASSUME NEW t, Proposed(t) PROVE Proposed(t)'
  BY <1>1, <1>2 DEF n, Proposed, ProposedBefore
<1>3. ASSUME NEW kind, NEW t, Recorded(kind, t) PROVE Recorded(kind, t)'
  BY <1>1, <1>3 DEF n, Recorded, Before
<1>4. ASSUME e.type = "proposal" PROVE Proposed(e.trace)'
  BY <1>1, <1>4 DEF Proposed, ProposedBefore
<1>5. ASSUME e.hash = e.trace, e.says = "yes" PROVE Recorded(e.type, e.trace)'
  BY <1>1, <1>5 DEF Recorded, Before
<1> QED
  BY <1>2, <1>3, <1>4, <1>5

\* An event that rests on what is there may be added.
LEMMA SessionKeeps ==
    ASSUME HeavyTypeOK, SessionRests, NEW e \in SessionEvent, session' = Append(session, e),
           e.type # "proposal" => e.hash = e.trace,
           e.type = "decision" => Proposed(e.trace),
           e.type = "anchor" => Recorded("decision", e.trace),
           e.type = "claim" /\ e.says = "yes" => Recorded("decision", e.trace),
           e.type = "receipt" => Recorded("claim", e.trace)
    PROVE  SessionRests'
<1> DEFINE n == Len(session)
<1>1. /\ n \in Nat /\ DOMAIN session = 1 .. n
      /\ DOMAIN session' = DOMAIN session \cup {n + 1}
      /\ session'[n + 1] = e /\ \A j \in DOMAIN session : session'[j] = session[j]
  BY SessionGrows
<1>2. ASSUME NEW j \in DOMAIN session PROVE Rests(session', j)
  <2>1. Rests(session, j) /\ session'[j] = session[j]
    BY <1>1 DEF SessionRests
  <2>2. j \in 1 .. Len(session) + 1
    BY <1>1
  <2> QED
    BY <2>1, <2>2, EarlierStays DEF Rests
<1>3. Rests(session', n + 1)
  <2>1. n + 1 \in 1 .. Len(session) + 1
    BY <1>1
  <2>2. /\ \A t : ProposedBefore(session, n + 1, t) => ProposedBefore(session', n + 1, t)
        /\ \A kind, t, h : Before(session, n + 1, kind, t, h)
                               => Before(session', n + 1, kind, t, h)
    BY <2>1, EarlierStays
  <2> QED
    BY <1>1, <2>2 DEF Rests, Proposed, Recorded
<1> QED
  BY <1>1, <1>2, <1>3 DEF SessionRests

\* A send, delivered or not, of an event that rests on what is there.
LEMMA SendKeeps ==
    ASSUME HeavyTypeOK, SessionRests, NEW e \in SessionEvent, NEW delivered \in BOOLEAN,
           Send(e, delivered),
           e.type # "proposal" => e.hash = e.trace,
           e.type = "decision" => Proposed(e.trace),
           e.type = "anchor" => Recorded("decision", e.trace),
           e.type = "claim" /\ e.says = "yes" => Recorded("decision", e.trace),
           e.type = "receipt" => Recorded("claim", e.trace)
    PROVE  /\ session' \in Seq(SessionEvent) /\ SessionRests'
           /\ \A t : Proposed(t) => Proposed(t)'
           /\ \A kind, t : Recorded(kind, t) => Recorded(kind, t)'
           /\ delivered /\ e.type = "proposal" => Proposed(e.trace)'
           /\ delivered /\ e.hash = e.trace /\ e.says = "yes" => Recorded(e.type, e.trace)'
<1>1. CASE session' = Append(session, e)
  BY <1>1, SessionGrows, RecordsStay, SessionKeeps
<1>2. CASE ~delivered /\ session' = session
  BY <1>2 DEF HeavyTypeOK, SessionRests, Rests, Proposed, Recorded, ProposedBefore, Before
<1> QED
  BY <1>1, <1>2 DEF Send, Stored

LEMMA SessionSame ==
    ASSUME session' = session
    PROVE  /\ SessionRests => SessionRests'
           /\ \A t : Proposed(t) => Proposed(t)'
           /\ \A kind, t : Recorded(kind, t) => Recorded(kind, t)'
BY DEF SessionRests, Rests, Proposed, Recorded, ProposedBefore, Before

-----------------------------------------------------------------------------
(***************************************************************************)
(* The actors.                                                             *)
(***************************************************************************)
\* What is in the session and in grants stays there.
Keeps == /\ \A t : Proposed(t) => Proposed(t)'
         /\ \A kind, t : Recorded(kind, t) => Recorded(kind, t)'
         /\ \A h \in Hashes : DOMAIN grants[h] \subseteq DOMAIN grants'[h]

\* An executor's call becomes c.
LEMMA CallMoves ==
    ASSUME HeavyTypeOK, CallsAreGranted, ActorsRest, Keeps, stage' = stage,
           NEW x \in Executors, NEW c \in Call, call' = [call EXCEPT ![x] = c],
           c.pc # "idle" => c.action \in Hashes,
           c.pc \notin {"idle", "refused"} => c.grant \in DOMAIN grants'[c.action],
           c.pc = "claiming" => Recorded("decision", c.action)',
           c.pc \in {"holding", "executing", "effected", "recording"}
               => Recorded("claim", c.action)'
    PROVE  call' \in [Executors -> Call] /\ CallsAreGranted' /\ ActorsRest'
<1>1. /\ call' \in [Executors -> Call]
      /\ \A y \in Executors : call'[y] = IF y = x THEN c ELSE call[y]
  BY DEF HeavyTypeOK
<1>2. CallsAreGranted'
  BY <1>1 DEF CallsAreGranted, Keeps
<1>3. ActorsRest'
  BY <1>1 DEF ActorsRest, Keeps
<1> QED
  BY <1>1, <1>2, <1>3

\* The coordinator comes to stage s of action h.
LEMMA StageMoves ==
    ASSUME HeavyTypeOK, CallsAreGranted, ActorsRest, Keeps, call' = call,
           NEW h \in Hashes, NEW s \in Stages, stage' = [stage EXCEPT ![h] = s],
           s # "new" => Proposed(h)',
           s \in {"approved", "anchoring"} => Recorded("decision", h)'
    PROVE  stage' \in [Hashes -> Stages] /\ CallsAreGranted' /\ ActorsRest'
<1>1. /\ stage' \in [Hashes -> Stages]
      /\ \A k \in Hashes : stage'[k] = IF k = h THEN s ELSE stage[k]
  BY DEF HeavyTypeOK
<1>2. CallsAreGranted'
  BY DEF CallsAreGranted, Keeps
<1>3. ActorsRest'
  BY <1>1 DEF ActorsRest, Keeps
<1> QED
  BY <1>1, <1>2, <1>3

-----------------------------------------------------------------------------
(***************************************************************************)
(* The steps of the coordinator.                                           *)
(***************************************************************************)
\* A step of the coordinator that sends an event and comes to stage s.
LEMMA CoordinatorSends ==
    ASSUME IInv, NEW h \in Hashes, NEW kind \in {"proposal", "decision", "anchor"},
           NEW says \in {"yes", "no"}, NEW delivered \in BOOLEAN,
           Send(EventOf(kind, h, says), delivered),
           NEW s \in Stages, stage' = [stage EXCEPT ![h] = s],
           UNCHANGED <<now, anchors, address, call, grants>>,
           kind # "proposal" => Proposed(h),
           kind = "anchor" => Recorded("decision", h),
           s # "new" => Proposed(h) \/ (delivered /\ kind = "proposal"),
           s \in {"approved", "anchoring"} =>
               Recorded("decision", h) \/ (delivered /\ kind = "decision" /\ says = "yes")
    PROVE  IInv'
<1>1. PICK e \in SessionEvent :
         /\ e = EventOf(kind, h, says) /\ e.type = kind /\ e.trace = h /\ e.says = says
         /\ kind # "proposal" => e.hash = h
  BY EventShape DEF IInv, Kinds
<1>2. Send(e, delivered)
  BY <1>1
<1>3. /\ session' \in Seq(SessionEvent) /\ SessionRests'
      /\ \A t : Proposed(t) => Proposed(t)'
      /\ \A k, t : Recorded(k, t) => Recorded(k, t)'
      /\ delivered /\ e.type = "proposal" => Proposed(e.trace)'
      /\ delivered /\ e.hash = e.trace /\ e.says = "yes" => Recorded(e.type, e.trace)'
  BY <1>1, <1>2, SendKeeps DEF IInv
<1>4. Keeps
  <2>1. grants' = grants
    OBVIOUS
  <2> QED
    BY <1>3, <2>1 DEF Keeps
<1>5. stage' \in [Hashes -> Stages] /\ CallsAreGranted' /\ ActorsRest'
  <2>1. s # "new" => Proposed(h)'
    BY <1>1, <1>3
  <2>2. s \in {"approved", "anchoring"} => Recorded("decision", h)'
    BY <1>1, <1>3
  <2> QED
    BY <1>4, <2>1, <2>2, StageMoves DEF IInv
<1>6. HeavyTypeOK'
  BY <1>3, <1>5 DEF IInv, HeavyTypeOK, LocalTypeOK
<1>7. TableInv'
  BY Shapes, TableQuiet DEF IInv
<1> QED
  BY <1>3, <1>5, <1>6, <1>7 DEF IInv

LEMMA StageOf ==
    ASSUME IInv, NEW h \in Hashes
    PROVE  /\ stage[h] \in Stages /\ stage = [stage EXCEPT ![h] = stage[h]]
           /\ stage[h] # "new" => Proposed(h)
           /\ stage[h] \in {"approved", "anchoring"} => Recorded("decision", h)
BY DEF IInv, HeavyTypeOK, ActorsRest

LEMMA KeptByPropose ==
    ASSUME IInv, NEW h \in Hashes, Propose(h)
    PROVE  IInv'
<1>1. PICK delivered \in BOOLEAN :
         /\ Send(EventOf("proposal", h, "no"), delivered)
         /\ stage' = IF delivered THEN [stage EXCEPT ![h] = "proposed"] ELSE stage
  BY DEF Propose
<1>2. stage[h] = "new" /\ UNCHANGED <<now, anchors, address, call, grants>>
  BY DEF Propose
<1>3. CASE delivered
  <2>1. stage' = [stage EXCEPT ![h] = "proposed"] /\ "proposed" \in Stages
    BY <1>1, <1>3 DEF Stages
  <2> QED
    BY <1>1, <1>2, <1>3, <2>1, CoordinatorSends
<1>4. CASE ~delivered
  <2>1. stage' = [stage EXCEPT ![h] = "new"] /\ "new" \in Stages
    BY <1>1, <1>2, <1>4, StageOf
  <2> QED
    BY <1>1, <1>2, <1>4, <2>1, CoordinatorSends
<1> QED
  BY <1>3, <1>4

LEMMA KeptByDecide ==
    ASSUME IInv, NEW h \in Hashes, Decide(h)
    PROVE  IInv'
<1>0. PICK verdict \in {"yes", "no"} : RecordDecision(h, verdict)
  BY DEF Decide
<1>1. PICK delivered \in BOOLEAN :
         /\ Send(EventOf("decision", h, verdict), delivered)
         /\ stage' = IF ~delivered THEN stage
                     ELSE [stage EXCEPT ![h] = IF verdict = "yes" THEN "approved" ELSE "rejected"]
  BY <1>0 DEF RecordDecision
<1>2. /\ stage[h] = "proposed" /\ Proposed(h)
      /\ UNCHANGED <<now, anchors, address, call, grants>>
  BY <1>0, StageOf DEF RecordDecision
<1>3. CASE ~delivered
  <2>1. stage' = [stage EXCEPT ![h] = "proposed"] /\ "proposed" \in Stages
    BY <1>1, <1>2, <1>3, StageOf
  <2> QED
    BY <1>1, <1>2, <1>3, <2>1, CoordinatorSends
<1>4. CASE delivered /\ verdict = "yes"
  <2>1. stage' = [stage EXCEPT ![h] = "approved"] /\ "approved" \in Stages
    BY <1>1, <1>4 DEF Stages
  <2> QED
    BY <1>1, <1>2, <1>4, <2>1, CoordinatorSends
<1>5. CASE delivered /\ verdict # "yes"
  <2>1. stage' = [stage EXCEPT ![h] = "rejected"] /\ "rejected" \in Stages
    BY <1>1, <1>5 DEF Stages
  <2> QED
    BY <1>1, <1>2, <1>5, <2>1, CoordinatorSends
<1> QED
  BY <1>3, <1>4, <1>5

LEMMA KeptByRecordAnchor ==
    ASSUME IInv, NEW h \in Hashes, RecordAnchor(h)
    PROVE  IInv'
<1>1. PICK delivered \in BOOLEAN :
         /\ Send(EventOf("anchor", h, "no"), delivered)
         /\ stage' = [stage EXCEPT ![h] = IF delivered THEN "anchored" ELSE "unrecorded"]
  BY DEF RecordAnchor
<1>2. /\ Proposed(h) /\ Recorded("decision", h)
      /\ UNCHANGED <<now, anchors, address, call, grants>>
  BY StageOf DEF RecordAnchor
<1>3. PICK s \in {"anchored", "unrecorded"} : stage' = [stage EXCEPT ![h] = s]
  BY <1>1
<1>4. s \in Stages /\ s # "approved" /\ s # "anchoring"
  BY DEF Stages
<1>5. Send(EventOf("anchor", h, "no"), delivered)
  BY <1>1
<1> QED
  BY <1>2, <1>3, <1>4, <1>5, CoordinatorSends

LEMMA KeptByAnchorOnGuard ==
    ASSUME IInv, NEW h \in Hashes, AnchorOnGuard(h)
    PROVE  IInv'
<1>1. /\ Proposed(h) /\ Recorded("decision", h)
      /\ stage' = [stage EXCEPT ![h] = "anchoring"] /\ "anchoring" \in Stages
      /\ UNCHANGED <<now, session, address, call, grants>>
  BY StageOf DEF AnchorOnGuard, Stages
<1>2. PICK b \in LocalAnchor :
         /\ anchors' = [anchors EXCEPT ![h] = b]
         /\ anchors[h].status = "absent" /\ b.status = "anchored"
  BY GuardAnchors DEF IInv, HeavyTypeOK, AnchorOnGuard
<1>3. SessionRests' /\ Keeps
  BY <1>1, SessionSame DEF IInv, Keeps
<1>4. Proposed(h)' /\ Recorded("decision", h)'
  BY <1>1, <1>3 DEF Keeps
<1>5. stage' \in [Hashes -> Stages] /\ CallsAreGranted' /\ ActorsRest'
  BY <1>1, <1>3, <1>4, StageMoves DEF IInv
<1>6. HeavyTypeOK'
  BY <1>1, <1>2, <1>5 DEF IInv, HeavyTypeOK, LocalTypeOK
<1>7. TableInv'
  BY <1>1, <1>2, TableAnchors DEF IInv
<1> QED
  BY <1>3, <1>5, <1>6, <1>7 DEF IInv

-----------------------------------------------------------------------------
(***************************************************************************)
(* The steps of the executors.                                             *)
(***************************************************************************)
LEMMA CallOf ==
    ASSUME IInv, NEW x \in Executors
    PROVE  /\ call[x] \in Call
           /\ call[x].pc # "idle" => call[x].action \in Hashes
           /\ call[x].pc \notin {"idle", "refused"} =>
                 call[x].grant \in DOMAIN grants[call[x].action]
           /\ call[x].pc = "claiming" => Recorded("decision", call[x].action)
           /\ call[x].pc \in {"holding", "executing", "effected", "recording"}
                 => Recorded("claim", call[x].action)
BY DEF IInv, HeavyTypeOK, CallsAreGranted, ActorsRest

LEMMA IdleCall == Idle \in Call /\ Idle.pc = "idle"
  BY LocalBounds, HeavyBounds DEF Idle, Call

\* A call that comes to another point pc, at time t; it may leave the session longer.
LEMMA CallGoesOn ==
    ASSUME IInv, NEW x \in Executors, NEW c \in Call, call' = [call EXCEPT ![x] = c],
           Keeps, SessionRests', session' \in Seq(SessionEvent),
           UNCHANGED <<now, anchors, stage, address, grants>>,
           c = Idle \/ (c.action = call[x].action /\ c.grant = call[x].grant),
           c # Idle => /\ call[x].pc \notin {"idle", "refused"}
                       /\ c.pc # "claiming" /\ Recorded("claim", c.action)'
    PROVE  IInv'
<1>1. /\ c.pc # "idle" => c.action \in Hashes
      /\ c.pc \notin {"idle", "refused"} => c.grant \in DOMAIN grants'[c.action]
      /\ c.pc = "claiming" => Recorded("decision", c.action)'
      /\ c.pc \in {"holding", "executing", "effected", "recording"}
            => Recorded("claim", c.action)'
  <2>1. CASE c = Idle
    BY <2>1, IdleCall
  <2>2. CASE c # Idle
    <3>1. grants' = grants
      OBVIOUS
    <3> QED
      BY <2>2, <3>1, CallOf
  <2> QED
    BY <2>1, <2>2
<1>2. call' \in [Executors -> Call] /\ CallsAreGranted' /\ ActorsRest'
  <2>1. stage' = stage
    OBVIOUS
  <2> QED
    BY <1>1, <2>1, CallMoves DEF IInv
<1>3. HeavyTypeOK'
  BY <1>2 DEF IInv, HeavyTypeOK, LocalTypeOK
<1>4. TableInv'
  BY Shapes, TableQuiet DEF IInv
<1> QED
  BY <1>2, <1>3, <1>4 DEF IInv

\* A call that goes on and sends nothing.
LEMMA CallGoesOnSilent ==
    ASSUME IInv, NEW x \in Executors, NEW c \in Call, call' = [call EXCEPT ![x] = c],
           UNCHANGED <<now, anchors, session, stage, address, grants>>,
           \/ c = Idle
           \/ /\ c.action = call[x].action /\ c.grant = call[x].grant
              /\ call[x].pc \in {"holding", "executing", "effected", "recording"}
              /\ c.pc # "claiming"
    PROVE  IInv'
<1>1. session' = session /\ grants' = grants
  OBVIOUS
<1>2. Keeps /\ SessionRests' /\ session' \in Seq(SessionEvent)
  BY <1>1, SessionSame DEF Keeps, IInv, HeavyTypeOK
<1>3. c # Idle => Recorded("claim", c.action)'
  BY <1>2, CallOf DEF Keeps
<1> QED
  BY <1>2, <1>3, CallGoesOn

LEMMA KeptByCrash ==
    ASSUME IInv, NEW x \in Executors, Crash(x)
    PROVE  IInv'
<1>1. /\ call' = [call EXCEPT ![x] = Idle]
      /\ UNCHANGED <<now, anchors, session, stage, address, grants>>
  BY DEF Crash
<1> QED
  BY <1>1, IdleCall, CallGoesOnSilent

LEMMA KeptByBegin ==
    ASSUME IInv, NEW x \in Executors, Begin(x)
    PROVE  IInv'
<1> DEFINE c == [call[x] EXCEPT !.pc = "executing", !.at = now]
<1>1. /\ call' = [call EXCEPT ![x] = c] /\ call[x].pc = "holding"
      /\ UNCHANGED <<now, anchors, session, stage, address, grants>>
  BY DEF Begin
<1>2. call[x] \in Call /\ now \in 0 .. MaxTime
  BY CallOf DEF IInv, HeavyTypeOK, LocalTypeOK
<1>3. /\ c \in Call /\ c.pc = "executing"
      /\ c.action = call[x].action /\ c.grant = call[x].grant
  BY <1>2 DEF Call
<1> HIDE DEF c
<1>4. PICK d \in Call : d = c
  BY <1>3
<1> QED
  BY <1>1, <1>3, <1>4, CallGoesOnSilent

\* The same call at another point.
LEMMA CallAt ==
    ASSUME NEW b \in Call, NEW pc \in {"holding", "executing", "effected", "recording"}
    PROVE  \E c \in Call : /\ c = [b EXCEPT !.pc = pc] /\ c.pc = pc
                           /\ c.action = b.action /\ c.grant = b.grant
<1> DEFINE c == [b EXCEPT !.pc = pc]
<1>1. c \in Call /\ c.pc = pc /\ c.action = b.action /\ c.grant = b.grant
  BY DEF Call
<1> HIDE DEF c
<1>2. c = [b EXCEPT !.pc = pc]
  BY DEF c
<1> QED
  BY <1>1, <1>2

LEMMA KeptByExecute ==
    ASSUME IInv, NEW x \in Executors, Execute(x)
    PROVE  IInv'
<1>1. /\ call[x].pc = "executing"
      /\ UNCHANGED <<now, anchors, session, stage, address, grants>>
  BY DEF Execute
<1>2. PICK next \in {"effected", "holding"} :
         call' = [call EXCEPT ![x] = [@ EXCEPT !.pc = next]]
  BY DEF Execute
<1>3. PICK c \in Call : /\ c = [call[x] EXCEPT !.pc = next] /\ c.pc = next
                        /\ c.action = call[x].action /\ c.grant = call[x].grant
  <2>1. call[x] \in Call /\ next \in {"holding", "executing", "effected", "recording"}
    BY CallOf
  <2> QED
    BY <2>1, CallAt
<1>4. call' = [call EXCEPT ![x] = c]
  BY <1>2, <1>3
<1> QED
  BY <1>1, <1>3, <1>4, CallGoesOnSilent

LEMMA KeptByRecordClaim ==
    ASSUME IInv, NEW x \in Executors, RecordClaim(x)
    PROVE  IInv'
<1> DEFINE granted == call[x].pc = "claiming"
           h == call[x].action
<1>1. PICK delivered \in BOOLEAN :
         /\ Send(EventOf("claim", h, IF granted THEN "yes" ELSE "no"), delivered)
         /\ call' = [call EXCEPT ![x] =
                       IF granted /\ delivered THEN [@ EXCEPT !.pc = "holding"] ELSE Idle]
  BY DEF RecordClaim
<1>2. /\ h \in Hashes /\ call[x] \in Call
      /\ granted => Recorded("decision", h)
      /\ UNCHANGED <<now, anchors, stage, address, grants>>
  BY CallOf DEF RecordClaim
<1>3. PICK k \in Hashes, says \in {"yes", "no"} :
         k = h /\ says = (IF granted THEN "yes" ELSE "no")
  BY <1>2
<1>4. PICK e \in SessionEvent :
         /\ e = EventOf("claim", k, says) /\ e.type = "claim"
         /\ e.trace = k /\ e.hash = k /\ e.says = says
  BY <1>3, EventShape DEF IInv, Kinds
<1>5. Send(e, delivered)
  BY <1>1, <1>3, <1>4
<1>6. says = "yes" => Recorded("decision", k)
  BY <1>2, <1>3
<1>7. /\ session' \in Seq(SessionEvent) /\ SessionRests'
      /\ \A t : Proposed(t) => Proposed(t)'
      /\ \A kind, t : Recorded(kind, t) => Recorded(kind, t)'
      /\ delivered /\ e.hash = e.trace /\ e.says = "yes" => Recorded(e.type, e.trace)'
  BY <1>4, <1>5, <1>6, SendKeeps DEF IInv
<1>8. Keeps
  <2>1. grants' = grants
    BY <1>2
  <2> QED
    BY <1>7, <2>1 DEF Keeps
<1>9. CASE granted /\ delivered
  <2>1. PICK c \in Call : /\ c = [call[x] EXCEPT !.pc = "holding"] /\ c.pc = "holding"
                          /\ c.action = call[x].action /\ c.grant = call[x].grant
    BY <1>2, CallAt
  <2>2. call' = [call EXCEPT ![x] = c]
    BY <1>1, <1>9, <2>1
  <2>3. Recorded("claim", c.action)'
    <3>1. c.action = k /\ says = "yes"
      BY <1>3, <1>9, <2>1
    <3> QED
      BY <1>4, <1>7, <1>9, <3>1
  <2> QED
    BY <1>2, <1>7, <1>8, <1>9, <2>1, <2>2, <2>3, CallGoesOn
<1>10. CASE ~(granted /\ delivered)
  <2>1. call' = [call EXCEPT ![x] = Idle]
    BY <1>1, <1>10
  <2> QED
    BY <1>2, <1>7, <1>8, <2>1, IdleCall, CallGoesOn
<1> QED
  BY <1>9, <1>10

LEMMA KeptByRecordReceipt ==
    ASSUME IInv, NEW x \in Executors, RecordReceipt(x)
    PROVE  IInv'
<1>1. PICK delivered \in BOOLEAN : Send(EventOf("receipt", call[x].action, "no"), delivered)
  BY DEF RecordReceipt
<1>2. /\ call[x].action \in Hashes /\ call[x] \in Call
      /\ Recorded("claim", call[x].action) /\ call[x].pc = "recording"
      /\ UNCHANGED <<now, anchors, stage, address, grants>>
  BY CallOf DEF RecordReceipt
<1>3. PICK h \in Hashes : h = call[x].action
  BY <1>2
<1>4. PICK e \in SessionEvent :
         /\ e = EventOf("receipt", h, "no") /\ e.type = "receipt"
         /\ e.trace = h /\ e.hash = h
  BY <1>3, EventShape DEF IInv, Kinds
<1>5. Send(e, delivered) /\ Recorded("claim", h)
  BY <1>1, <1>2, <1>3, <1>4
<1>6. /\ session' \in Seq(SessionEvent) /\ SessionRests'
      /\ \A t : Proposed(t) => Proposed(t)'
      /\ \A kind, t : Recorded(kind, t) => Recorded(kind, t)'
  BY <1>4, <1>5, SendKeeps DEF IInv
<1>7. Keeps
  <2>1. grants' = grants
    BY <1>2
  <2> QED
    BY <1>6, <2>1 DEF Keeps
<1>8. PICK c \in Call : /\ c = [call[x] EXCEPT !.pc = "holding"] /\ c.pc = "holding"
                        /\ c.action = call[x].action /\ c.grant = call[x].grant
  BY <1>2, CallAt
<1>9. call' = [call EXCEPT ![x] = c]
  BY <1>8 DEF RecordReceipt
<1>10. Recorded("claim", c.action)'
  BY <1>3, <1>5, <1>6, <1>8
<1> QED
  BY <1>2, <1>6, <1>7, <1>8, <1>9, <1>10, CallGoesOn

\* An approval an executor finds in the session rests on a decision recorded there.
LEMMA ApprovalFound ==
    ASSUME IInv, NEW h \in Hashes, NEW decision \in DecisionsOn(h),
           decision.verdict = "approved"
    PROVE  Recorded("decision", h)
<1>1. PICK i \in {j \in DOMAIN session : session[j].type = "decision" /\ session[j].hash = h} :
         decision = [hash |-> h, verdict |-> IF session[i].says = "yes" THEN "approved"
                                            ELSE "rejected"]
  BY DEF DecisionsOn
<1>2. /\ session[i].type = "decision" /\ session[i].hash = h /\ session[i].says = "yes"
      /\ i \in DOMAIN session
  BY <1>1
<1>3. session[i].trace = h
  BY <1>2 DEF IInv, SessionRests, Rests
<1>4. i < Len(session) + 1
  BY <1>2 DEF IInv, HeavyTypeOK
<1> QED
  BY <1>2, <1>3, <1>4 DEF Recorded, Before

LEMMA KeptByClaimOnGuard ==
    ASSUME IInv, NEW x \in Executors, NEW h \in Hashes, ClaimOnGuard(x, h)
    PROVE  IInv'
<1>1. PICK decision \in DecisionsOn(h), lease \in Leases :
         /\ LocalClaim(h, decision, address[x], lease, now)
         /\ IF Duplicate(h, now)
            THEN /\ call' = [call EXCEPT ![x] = [Idle EXCEPT !.pc = "refused", !.action = h]]
                 /\ UNCHANGED grants
            ELSE /\ Len(grants[h]) < MaxGrants
                 /\ grants' = [grants EXCEPT ![h] =
                                 Append(@, [until |-> now + lease, closed |-> 0])]
                 /\ call' = [call EXCEPT ![x] =
                               [Idle EXCEPT !.pc = "claiming", !.action = h,
                                            !.grant = Len(grants[h]) + 1]]
  BY DEF ClaimOnGuard
<1>2. UNCHANGED <<now, session, stage, address>>
  BY DEF ClaimOnGuard
<1>3. /\ now \in Nat /\ LocalTypeOK /\ grants[h] \in Seq(Grant) /\ Len(grants[h]) \in Nat
      /\ DOMAIN grants[h] = 1 .. Len(grants[h])
  BY Shapes DEF IInv
<1>4. /\ SessionRests' /\ \A t : Proposed(t) => Proposed(t)'
      /\ \A kind, t : Recorded(kind, t) => Recorded(kind, t)'
  BY <1>2, SessionSame DEF IInv
<1>5. decision.verdict = "approved" /\ Recorded("decision", h)
  <2>1. decision.verdict = "approved"
    BY <1>1 DEF LocalClaim, Accepts
  <2> QED
    BY <2>1, ApprovalFound
<1>6. CASE Duplicate(h, now)
  <2> DEFINE c == [Idle EXCEPT !.pc = "refused", !.action = h]
  <2>1. c \in Call /\ c.pc = "refused" /\ c.action = h
    BY IdleCall DEF Call
  <2>2. call' = [call EXCEPT ![x] = c] /\ grants' = grants /\ anchors' = anchors
    BY <1>1, <1>6 DEF LocalClaim
  <2> HIDE DEF c
  <2>3. Keeps
    BY <1>4, <2>2 DEF Keeps
  <2>4. call' \in [Executors -> Call] /\ CallsAreGranted' /\ ActorsRest'
    BY <1>2, <2>1, <2>2, <2>3, CallMoves DEF IInv
  <2>5. HeavyTypeOK'
    BY <1>2, <2>2, <2>4 DEF IInv, HeavyTypeOK, LocalTypeOK
  <2>6. TableInv'
    BY <1>2, <1>3, <2>2, TableQuiet DEF IInv
  <2> QED
    BY <1>4, <2>4, <2>5, <2>6 DEF IInv
<1>7. CASE ~Duplicate(h, now)
  <2>1. PICK b \in LocalAnchor :
           /\ anchors' = [anchors EXCEPT ![h] = b]
           /\ anchors[h].status # "absent"
           /\ anchors[h].status = "claimed" => anchors[h].claimExpires <= now
           /\ b.status = "claimed" /\ b.claimExpires = now + lease
    <3>1. address[x] \in Optional
      BY DEF IInv, HeavyTypeOK
    <3>2. PICK who \in Optional : who = address[x]
      BY <3>1
    <3>3. LocalClaim(h, decision, who, lease, now)
      BY <1>1, <3>2
    <3> QED
      BY <1>3, <1>7, <3>3, GuardClaims
  <2>2. PICK g \in Grant : g = [until |-> b.claimExpires, closed |-> 0]
    <3>1. b.claimExpires \in Nat
      BY DEF LocalAnchor
    <3> QED
      BY <3>1 DEF Grant
  <2>3. grants' = [grants EXCEPT ![h] = Append(@, [until |-> b.claimExpires, closed |-> 0])]
    BY <1>1, <1>7, <2>1
  <2>4. grants' = [grants EXCEPT ![h] = Append(grants[h], g)]
    BY <2>2, <2>3
  <2>5. /\ Append(grants[h], g) \in Seq(Grant)
        /\ DOMAIN Append(grants[h], g) = 1 .. Len(grants[h]) + 1
    BY <1>3
  <2>6. /\ grants' \in [Hashes -> Seq(Grant)]
        /\ \A k \in Hashes : DOMAIN grants[k] \subseteq DOMAIN grants'[k]
        /\ Len(grants[h]) + 1 \in DOMAIN grants'[h]
    <3>1. grants \in [Hashes -> Seq(Grant)]
      BY DEF IInv, HeavyTypeOK
    <3>2. /\ grants'[h] = Append(grants[h], g)
          /\ \A k \in Hashes : k # h => grants'[k] = grants[k]
      BY <2>4, <3>1
    <3>3. grants' \in [Hashes -> Seq(Grant)]
      BY <2>4, <2>5, <3>1
    <3>4. 1 .. Len(grants[h]) \subseteq 1 .. Len(grants[h]) + 1
      BY <1>3
    <3>5. Len(grants[h]) + 1 \in 1 .. Len(grants[h]) + 1
      BY <1>3
    <3> QED
      BY <1>3, <2>5, <3>2, <3>3, <3>4, <3>5
  <2> DEFINE c == [Idle EXCEPT !.pc = "claiming", !.action = h, !.grant = Len(grants[h]) + 1]
  <2>7. c \in Call /\ c.pc = "claiming" /\ c.action = h /\ c.grant = Len(grants[h]) + 1
    <3>1. Len(grants[h]) + 1 \in 0 .. MaxGrants
      BY <1>1, <1>3, <1>7, HeavyBounds
    <3> QED
      BY <3>1, IdleCall DEF Call
  <2>8. PICK d \in Call : d = c
    BY <2>7
  <2>9. call' = [call EXCEPT ![x] = d]
    BY <1>1, <1>7, <2>8
  <2> HIDE DEF c
  <2>10. Keeps
    BY <1>4, <2>6 DEF Keeps
  <2>11. call' \in [Executors -> Call] /\ CallsAreGranted' /\ ActorsRest'
    <3>1. d.pc = "claiming" /\ d.action = h /\ d.grant \in DOMAIN grants'[d.action]
      BY <2>6, <2>7, <2>8
    <3>2. Recorded("decision", d.action)'
      BY <1>4, <1>5, <3>1
    <3> QED
      BY <1>2, <2>9, <2>10, <3>1, <3>2, CallMoves DEF IInv
  <2>12. HeavyTypeOK'
    BY <1>2, <2>1, <2>6, <2>11 DEF IInv, HeavyTypeOK, LocalTypeOK
  <2>13. TableInv'
    BY <1>2, <2>1, <2>3, TableGrants DEF IInv
  <2> QED
    BY <1>4, <2>11, <2>12, <2>13 DEF IInv
<1> QED
  BY <1>6, <1>7

\* The guard closes the claim under which h was granted last; call x comes to c.
LEMMA KeptByClosing ==
    ASSUME IInv, NEW x \in Executors, NEW h \in Hashes, Closes(h), CloseGrant(h),
           NEW c \in Call, call' = [call EXCEPT ![x] = c],
           c.action = call[x].action, c.grant = call[x].grant,
           c.pc \in {"holding", "executing", "effected", "recording"},
           call[x].pc \in {"holding", "executing", "effected", "recording"},
           UNCHANGED <<now, session, stage, address>>
    PROVE  IInv'
<1>1. /\ SessionRests' /\ \A t : Proposed(t) => Proposed(t)'
      /\ \A kind, t : Recorded(kind, t) => Recorded(kind, t)'
  <2>1. session' = session
    OBVIOUS
  <2> QED
    BY <2>1, SessionSame DEF IInv
<1>2. PICK b \in LocalAnchor : /\ anchors' = [anchors EXCEPT ![h] = b]
                               /\ anchors[h].status = "claimed"
  BY DEF Closes
<1>3. /\ grants' \in [Hashes -> Seq(Grant)]
      /\ \A k \in Hashes : k # h => grants'[k] = grants[k]
      /\ DOMAIN grants'[h] = DOMAIN grants[h]
  BY <1>2, ClosedGrants DEF IInv
<1>4. Keeps
  BY <1>1, <1>3 DEF Keeps
<1>5. call' \in [Executors -> Call] /\ CallsAreGranted' /\ ActorsRest'
  <2>1. /\ c.action \in Hashes /\ c.grant \in DOMAIN grants[c.action]
        /\ Recorded("claim", c.action)
    BY CallOf
  <2>2. c.grant \in DOMAIN grants'[c.action] /\ Recorded("claim", c.action)'
    BY <1>4, <2>1 DEF Keeps
  <2>3. stage' = stage
    OBVIOUS
  <2> QED
    BY <1>4, <2>1, <2>2, <2>3, CallMoves DEF IInv
<1>6. HeavyTypeOK'
  BY <1>2, <1>3, <1>5 DEF IInv, HeavyTypeOK, LocalTypeOK
<1>7. TableInv'
  <2>1. now' = now
    OBVIOUS
  <2> QED
    BY <2>1, TableCloses DEF IInv
<1> QED
  BY <1>1, <1>5, <1>6, <1>7 DEF IInv

LEMMA KeptByComplete ==
    ASSUME IInv, NEW x \in Executors, Complete(x)
    PROVE  IInv'
<1>1. /\ call[x] \in Call /\ call[x].action \in Hashes /\ call[x].pc = "effected"
      /\ UNCHANGED <<now, session, stage, address>>
  BY CallOf DEF Complete
<1>2. CASE /\ LocalComplete(call[x].action, SuccessReceipt(x), call[x].at)
           /\ CloseGrant(call[x].action)
           /\ call' = [call EXCEPT ![x] = [@ EXCEPT !.pc = "recording"]]
  <2>1. PICK h \in Hashes : h = call[x].action
    BY <1>1
  <2>2. Closes(h) /\ CloseGrant(h)
    <3>1. LocalTypeOK
      BY DEF IInv, HeavyTypeOK
    <3>2. CloseGrant(h)
      BY <1>2, <2>1
    <3>3. Closes(h)
      BY <1>2, <2>1, <3>1, GuardCloses
    <3> QED
      BY <3>2, <3>3
  <2>3. PICK c \in Call : /\ c = [call[x] EXCEPT !.pc = "recording"] /\ c.pc = "recording"
                          /\ c.action = call[x].action /\ c.grant = call[x].grant
    BY <1>1, CallAt
  <2>4. call' = [call EXCEPT ![x] = c]
    BY <1>2, <2>3
  <2> QED
    BY <1>1, <2>2, <2>3, <2>4, KeptByClosing
<1>3. CASE /\ call' = [call EXCEPT ![x] = [@ EXCEPT !.pc = "holding"]]
           /\ UNCHANGED <<anchors, grants>>
  <2>1. PICK c \in Call : /\ c = [call[x] EXCEPT !.pc = "holding"] /\ c.pc = "holding"
                          /\ c.action = call[x].action /\ c.grant = call[x].grant
    BY <1>1, CallAt
  <2>2. call' = [call EXCEPT ![x] = c]
    BY <1>3, <2>1
  <2> QED
    BY <1>1, <1>3, <2>1, <2>2, CallGoesOnSilent
<1> QED
  BY <1>2, <1>3 DEF Complete

LEMMA KeptByGiveUp ==
    ASSUME IInv, NEW x \in Executors, GiveUp(x)
    PROVE  IInv'
<1>1. /\ call[x] \in Call /\ call[x].action \in Hashes /\ call[x].pc = "holding"
      /\ UNCHANGED <<now, session, stage, address, call>>
  BY CallOf DEF GiveUp
<1>2. PICK h \in Hashes : h = call[x].action
  BY <1>1
<1>3. Closes(h) /\ CloseGrant(h)
  <2>1. LocalTypeOK
    BY DEF IInv, HeavyTypeOK
  <2>2. CloseGrant(h)
    BY <1>2 DEF GiveUp
  <2>3. Closes(h)
    BY <1>2, <2>1, GuardCloses DEF GiveUp
  <2> QED
    BY <2>2, <2>3
<1>4. PICK c \in Call : c = call[x]
  BY <1>1
<1>5. call' = [call EXCEPT ![x] = c]
  BY <1>1, <1>4 DEF IInv, HeavyTypeOK
<1> QED
  BY <1>1, <1>3, <1>4, <1>5, KeptByClosing

-----------------------------------------------------------------------------
(***************************************************************************)
(* The invariant.                                                          *)
(***************************************************************************)
LEMMA InitHolds ==
    ASSUME HeavyInit
    PROVE  IInv
<1>1. HeavyTypeOK
  <2>1. Unanchored \in LocalAnchor
    BY DEF Unanchored, LocalAnchor, Optional
  <2>2. LocalTypeOK
    BY <2>1 DEF HeavyInit, LocalInit, LocalTypeOK
  <2>3. session \in Seq(SessionEvent) /\ \A h \in Hashes : grants[h] \in Seq(Grant)
    BY DEF HeavyInit
  <2>4. call \in [Executors -> Call] /\ stage \in [Hashes -> Stages]
    BY IdleCall DEF HeavyInit, Stages
  <2> QED
    BY <2>2, <2>3, <2>4 DEF HeavyInit, HeavyTypeOK
<1>2. \A h \in Hashes : anchors[h].status = "absent" /\ grants[h] = << >>
  BY DEF HeavyInit, LocalInit, Unanchored
<1>3. TableInv
  BY <1>2 DEF TableInv, RecordIsLast, EarlierOver
<1>4. CallsAreGranted /\ ActorsRest
  <2>1. /\ \A x \in Executors : call[x].pc = "idle"
        /\ \A h \in Hashes : stage[h] = "new"
    BY IdleCall DEF HeavyInit
  <2> QED
    BY <2>1 DEF CallsAreGranted, ActorsRest
<1>5. SessionRests
  BY DEF HeavyInit, SessionRests
<1> QED
  BY <1>1, <1>3, <1>4, <1>5 DEF IInv

LEMMA KeptByQuiet ==
    ASSUME IInv, now' \in 0 .. MaxTime, now <= now',
           UNCHANGED <<anchors, session, stage, address, call, grants>>
    PROVE  IInv'
<1>1. /\ session' = session /\ grants' = grants /\ call' = call /\ stage' = stage
      /\ anchors' = anchors /\ address' = address
  OBVIOUS
<1>2. HeavyTypeOK'
  BY <1>1 DEF IInv, HeavyTypeOK, LocalTypeOK
<1>3. TableInv'
  <2>1. now' \in Nat
    BY LocalBounds
  <2> QED
    BY <1>1, <2>1, TableQuiet DEF IInv
<1>4. CallsAreGranted'
  BY <1>1 DEF IInv, CallsAreGranted
<1>5. SessionRests' /\ ActorsRest'
  BY <1>1, SessionSame DEF IInv, ActorsRest
<1> QED
  BY <1>2, <1>3, <1>4, <1>5 DEF IInv

LEMMA NextKeeps ==
    ASSUME IInv, [HeavyNext]_heavyVars
    PROVE  IInv'
<1>1. now \in 0 .. MaxTime /\ now \in Nat
  BY LocalBounds DEF IInv, HeavyTypeOK, LocalTypeOK
<1>2. CASE HeavyTick
  <2>1. now' = now + 1 /\ now < MaxTime
    BY <1>2 DEF HeavyTick, LocalTick
  <2>2. now' \in 0 .. MaxTime /\ now <= now'
    BY <1>1, <2>1, LocalBounds
  <2>3. UNCHANGED <<anchors, session, stage, address, call, grants>>
    BY <1>2 DEF HeavyTick, LocalTick
  <2> QED
    BY <2>2, <2>3, KeptByQuiet
<1>3. CASE \E h \in Hashes : CoordinatorStep(h)
  BY <1>3, KeptByPropose, KeptByDecide, KeptByAnchorOnGuard, KeptByRecordAnchor
     DEF CoordinatorStep
<1>4. CASE \E x \in Executors : ExecutorStep(x)
  BY <1>4, KeptByClaimOnGuard, KeptByBegin, KeptByRecordClaim, KeptByExecute, KeptByComplete,
     KeptByRecordReceipt, KeptByGiveUp, KeptByCrash
     DEF ExecutorStep, CallStep
<1>5. CASE UNCHANGED heavyVars
  <2>1. now' = now /\ UNCHANGED <<anchors, session, stage, address, call, grants>>
    BY <1>5 DEF heavyVars
  <2>2. now' \in 0 .. MaxTime /\ now <= now'
    BY <1>1, <2>1
  <2> QED
    BY <2>1, <2>2, KeptByQuiet
<1> QED
  BY <1>2, <1>3, <1>4, <1>5 DEF HeavyNext

\* In every reachable state the guard's records, the grants and the session agree.
THEOREM HeavyInvariant == HeavySpec => []IInv
<1>1. HeavyInit => IInv
  BY InitHolds
<1>2. IInv /\ [HeavyNext]_heavyVars => IInv'
  BY NextKeeps
<1> QED
  BY <1>1, <1>2, PTL DEF HeavySpec

-----------------------------------------------------------------------------
(***************************************************************************)
(* What follows.                                                           *)
(***************************************************************************)
\* The type invariant of the composition.
THEOREM HeavyTypeCorrect == HeavySpec => []HeavyTypeOK
<1>1. IInv => HeavyTypeOK
  BY DEF IInv
<1> QED
  BY <1>1, HeavyInvariant, PTL

LEMMA ClosesOnce == IInv => GrantClosedOnce
<1> SUFFICES ASSUME IInv, NEW h \in Hashes, NEW g \in DOMAIN grants[h]
             PROVE  grants[h][g].closed <= 1
  BY DEF GrantClosedOnce
<1>1. CASE g # Len(grants[h])
  BY <1>1 DEF IInv, TableInv, EarlierOver
<1>2. CASE g = Len(grants[h])
  <2>1. grants[h] # << >>
    BY Shapes DEF IInv
  <2> QED
    BY <1>2, <2>1 DEF IInv, TableInv, RecordIsLast, LastGrant
<1> QED
  BY <1>1, <1>2

\* claim, complete and fail: a granted claim is closed at most once, for any number of
\* executors, retries and late calls.
THEOREM ClosedOnce == HeavySpec => []GrantClosedOnce
  BY ClosesOnce, HeavyInvariant, PTL

LEMMA OverlapLapsed == IInv => OverlapOnlyAfterLapse
<1> SUFFICES ASSUME IInv, NEW x \in Executors, NEW y \in Executors,
                    InTheMiddle(x), InTheMiddle(y), call[x].action = call[y].action,
                    call[x].grant < call[y].grant
             PROVE  GrantHeld(x).until <= now \/ GrantHeld(x).closed > 0
  BY DEF OverlapOnlyAfterLapse
<1>1. PICK h \in Hashes : h = call[x].action
  BY CallOf DEF InTheMiddle
<1>2. call[x].grant \in DOMAIN grants[h] /\ call[y].grant \in DOMAIN grants[h]
  BY <1>1, CallOf DEF InTheMiddle
<1>3. DOMAIN grants[h] = 1 .. Len(grants[h]) /\ Len(grants[h]) \in Nat
  BY Shapes DEF IInv
<1>4. call[x].grant # Len(grants[h])
  BY <1>2, <1>3
<1> QED
  BY <1>1, <1>2, <1>4 DEF IInv, TableInv, EarlierOver, GrantHeld

\* claim: of two executors in the middle of the same action the one with the earlier claim
\* has lost it, for its lease has ended or it was closed.
THEOREM OverlapsAreLapsed == HeavySpec => []OverlapOnlyAfterLapse
  BY OverlapLapsed, HeavyInvariant, PTL

LEMMA ReceiptRests == IInv => ReceiptRestsOnClaim
<1> SUFFICES ASSUME IInv, NEW j \in DOMAIN session, session[j].type = "receipt"
             PROVE  \E p, d, c \in 1 .. j - 1 :
                       /\ p < d /\ d < c
                       /\ session[p].type = "proposal"
                       /\ session[d].type = "decision" /\ session[d].says = "yes"
                       /\ session[c].type = "claim" /\ session[c].says = "yes"
                       /\ \A i \in {p, d, c} : session[i].trace = session[j].trace
  BY DEF ReceiptRestsOnClaim
<1> DEFINE t == session[j].trace
<1>1. DOMAIN session = 1 .. Len(session) /\ Len(session) \in Nat
  BY DEF IInv, HeavyTypeOK
<1>2. PICK c \in DOMAIN session : /\ c < j /\ session[c].type = "claim"
                                  /\ session[c].trace = t /\ session[c].says = "yes"
  BY DEF IInv, SessionRests, Rests, Before
<1>3. PICK d \in DOMAIN session : /\ d < c /\ session[d].type = "decision"
                                  /\ session[d].trace = t /\ session[d].says = "yes"
  BY <1>2 DEF IInv, SessionRests, Rests, Before
<1>4. PICK p \in DOMAIN session : /\ p < d /\ session[p].type = "proposal"
                                  /\ session[p].trace = t
  BY <1>3 DEF IInv, SessionRests, Rests, ProposedBefore
<1>5. p \in 1 .. j - 1 /\ d \in 1 .. j - 1 /\ c \in 1 .. j - 1
  BY <1>1, <1>2, <1>3, <1>4
<1> QED
  BY <1>2, <1>3, <1>4, <1>5

\* docs/protocol.md:484-486: behind every receipt of a session stand a successful claim, an
\* approval and a proposal of its action, in that order, whoever crashed and whatever was lost.
THEOREM ReceiptsRest == HeavySpec => []ReceiptRestsOnClaim
  BY ReceiptRests, HeavyInvariant, PTL

LEMMA AnchorMissing == IInv => OnlyAnchorsGoMissing
<1> SUFFICES ASSUME IInv, NEW j \in DOMAIN session, session[j].type # "claim"
             PROVE  Founded(session, j)
  BY DEF OnlyAnchorsGoMissing, Unfounded
<1> DEFINE e == session[j]
<1>1. e.type \in Kinds /\ e.trace \in Hashes
  <2>1. e \in SessionEvent
    BY DEF IInv, HeavyTypeOK
  <2> QED
    BY <2>1 DEF SessionEvent, Kinds
<1>2. Rests(session, j)
  BY DEF IInv, SessionRests
<1>3. e.trace # NoHash
  BY <1>1, HeavyNames
<1>4. CASE e.type = "proposal"
  BY <1>4 DEF Founded
<1>5. CASE e.type = "decision"
  BY <1>2, <1>5 DEF Founded, Rests
<1>6. CASE e.type = "anchor"
  BY <1>2, <1>3, <1>6 DEF Founded, Rests
<1>7. CASE e.type = "receipt"
  BY <1>2, <1>3, <1>7 DEF Founded, Rests
<1> QED
  BY <1>1, <1>4, <1>5, <1>6, <1>7 DEF Kinds

\* verify's state check: in a session that honest clients wrote only a claim can lack what
\* it rests on, whichever sends failed.
THEOREM AnchorsGoMissing == HeavySpec => []OnlyAnchorsGoMissing
  BY AnchorMissing, HeavyInvariant, PTL
=============================================================================
