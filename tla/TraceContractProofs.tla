------------------------ MODULE TraceContractProofs ------------------------
(***************************************************************************)
(* Theorems about TraceContract, for every set of registries, hashes,      *)
(* accounts and receipts, every width of u64 and every bound.              *)
(***************************************************************************)
EXTENDS TraceContract, TLAPS

LEMMA AbsentType == Absent \in Anchor
  BY BoundsAssumption DEF Absent, Anchor, Status, Accounts, U64

LEMMA InitType == Init => TypeOK
  <1> SUFFICES ASSUME Init PROVE TypeOK
    OBVIOUS
  <1>1. log \in Seq(Event)
    BY DEF Init
  <1> QED
    BY <1>1, AbsentType DEF Init, TypeOK, Accounts

\* Each entry point appends one well-formed event and leaves well-formed anchors.
LEMMA AnchorType ==
  ASSUME TypeOK, NEW r \in Registries, NEW h \in Hashes, NEW sender \in Addresses,
         NEW approved \in BOOLEAN, NEW executor \in Accounts, NEW expires \in Expiries,
         AnchorAction(r, h, sender, approved, executor, expires)
  PROVE  TypeOK'
  <1>1. /\ clock \in U64 /\ expires \in U64
        /\ owner[r] \in Accounts
    BY BoundsAssumption DEF TypeOK, U64
  <1> DEFINE a == [Absent EXCEPT !.status = "anchored", !.owner = owner[r],
                      !.executor = executor, !.approved = approved,
                      !.expires = expires, !.updated = clock]
             e == [type |-> "anchored", registry |-> r, hash |-> h, owner |-> owner[r],
                   executor |-> executor, approved |-> approved, expires |-> expires,
                   at |-> clock]
  <1>2. a \in Anchor
    BY <1>1, AbsentType DEF Anchor, Status
  <1>3. e \in Event
    BY <1>1 DEF Event, ActionAnchored
  <1>4. /\ anchors' = [anchors EXCEPT ![r][h] = a]
        /\ log' = Append(log, e)
        /\ UNCHANGED <<clock, owner>>
    BY DEF AnchorAction
  <1> HIDE DEF a, e
  <1> QED
    BY <1>2, <1>3, <1>4 DEF TypeOK

LEMMA ClaimType ==
  ASSUME TypeOK, NEW r \in Registries, NEW h \in Hashes, NEW sender \in Addresses,
         NEW lease \in Leases, ClaimAction(r, h, sender, lease)
  PROVE  TypeOK'
  <1> DEFINE e == [type |-> "claimed", registry |-> r, hash |-> h, claimant |-> sender,
                   claimExpires |-> clock + lease, at |-> clock]
  <1>1. clock \in U64 /\ clock + lease \in U64 /\ sender \in Accounts
    BY BoundsAssumption DEF TypeOK, U64, ClaimAction, LeaseFits, Accounts
  <1>2. e \in Event
    BY <1>1 DEF Event, ActionClaimed
  <1>3. log' = Append(log, e) /\ UNCHANGED <<clock, owner>>
    BY DEF ClaimAction
  <1> DEFINE a == [anchors[r][h] EXCEPT !.claimed = TRUE, !.claimant = sender,
                      !.status = "claimed", !.claimExpires = clock + lease,
                      !.updated = clock]
  <1>4. anchors' = [anchors EXCEPT ![r][h] = a]
    BY DEF ClaimAction
  <1>5. a \in Anchor
    <2>1. anchors[r][h] \in Anchor
      BY DEF TypeOK
    <2> QED
      BY <1>1, <2>1 DEF Anchor, Status
  <1> HIDE DEF a, e
  <1> QED
    BY <1>2, <1>3, <1>4, <1>5 DEF TypeOK

LEMMA CloseType ==
  ASSUME TypeOK, NEW r \in Registries, NEW h \in Hashes, NEW sender \in Addresses,
         NEW receipt \in Receipts, NEW status \in {"executed", "failed"},
         Close(r, h, sender, receipt, status)
  PROVE  TypeOK'
  <1> DEFINE e == [type |-> "completed", registry |-> r, hash |-> h, claimant |-> sender,
                   status |-> status, receipt |-> receipt, at |-> clock]
  <1>1. clock \in U64 /\ sender \in Accounts
    BY BoundsAssumption DEF TypeOK, U64, Accounts
  <1>2. e \in Event
    BY <1>1 DEF Event, ActionCompleted
  <1>3. log' = Append(log, e) /\ UNCHANGED <<clock, owner>>
    BY DEF Close
  <1> DEFINE a == [anchors[r][h] EXCEPT !.receipt = receipt, !.status = status,
                      !.updated = clock]
  <1>4. anchors' = [anchors EXCEPT ![r][h] = a]
    BY DEF Close
  <1>5. a \in Anchor
    <2>1. anchors[r][h] \in Anchor
      BY DEF TypeOK
    <2> QED
      BY <1>1, <2>1 DEF Anchor, Status
  <1> HIDE DEF a, e
  <1> QED
    BY <1>2, <1>3, <1>4, <1>5 DEF TypeOK

LEMMA StepType == TypeOK /\ [Next]_vars => TypeOK'
  <1> SUFFICES ASSUME TypeOK, [Next]_vars PROVE TypeOK'
    OBVIOUS
  <1>1. CASE Tick
    BY <1>1, BoundsAssumption DEF Tick, TypeOK
  <1>2. ASSUME NEW r \in Registries, NEW sender \in Addresses,
               CreateSharedRegistry(r, sender)
        PROVE  TypeOK'
    BY <1>2 DEF CreateSharedRegistry, TypeOK, Accounts
  <1>3. ASSUME NEW r \in Registries, NEW h \in Hashes, NEW sender \in Addresses,
               Transaction(r, h, sender)
        PROVE  TypeOK'
    BY <1>3, AnchorType, ClaimType, CloseType DEF Transaction, CompleteAction, FailAction
  <1>4. CASE UNCHANGED vars
    BY <1>4 DEF vars, TypeOK
  <1> QED
    BY <1>1, <1>2, <1>3, <1>4 DEF Next

(***************************************************************************)
(* Every reachable state of the contract is well typed; in particular no   *)
(* lease ever ends beyond u64.                                             *)
(***************************************************************************)
THEOREM TypeCorrect == Spec => []TypeOK
  BY InitType, StepType, PTL DEF Spec
-----------------------------------------------------------------------------
(***************************************************************************)
(* The inductive invariant.  The properties speak of the log alone; the    *)
(* step that appends an event is governed by the table, so the invariant   *)
(* ties the two together.                                                  *)
(***************************************************************************)

\* Nothing in the log is later than the chain clock.
LogInThePast == \A i \in DOMAIN log : log[i].at <= clock

\* The table keeps the latest lease: no claim emitted earlier ends after it.
LatestLeaseKept ==
    \A i \in DOMAIN log : log[i].type = "claimed" =>
        LET a == anchors[log[i].registry][log[i].hash]
        IN  a.claimed /\ log[i].claimExpires <= a.claimExpires

\* The two ways the Move record says "claimed", and who may have claimed.
ClaimedFlag ==
    \A r \in Registries, h \in Hashes :
        LET a == anchors[r][h]
        IN  /\ a.claimed <=> a.status \in {"claimed", "executed", "failed"}
            /\ a.claimed => a.approved /\ a.claimant = a.executor

\* The anchor in the table carries the terms of the only anchoring event.
TermsKept ==
    \A r \in Registries, h \in Hashes : Anchored(r, h) =>
        \E i \in DOMAIN log :
            /\ log[i].type = "anchored"
            /\ About(log[i], r, h)
            /\ log[i].approved = anchors[r][h].approved
            /\ log[i].executor = anchors[r][h].executor
            /\ log[i].expires = anchors[r][h].expires
            /\ \A k \in DOMAIN log :
                  log[k].type = "anchored" /\ About(log[k], r, h) => k = i

IInv == /\ TypeOK
        /\ LogInThePast
        /\ LatestLeaseKept
        /\ ClaimedFlag
        /\ TermsKept
        /\ TableMatchesLog
        /\ LeaseExclusive
        /\ CompletionUnderLease
        /\ WithinAnchoredTerms

\* The fields of a logged event that the properties read.
LEMMA EventFields ==
  ASSUME NEW e \in Event
  PROVE  /\ e.registry \in Registries /\ e.hash \in Hashes
         /\ e.at \in Nat
         /\ e.type \in {"anchored", "claimed", "completed"}
         /\ e.type = "claimed" => e.claimExpires \in Nat
  BY BoundsAssumption DEF Event, ActionAnchored, ActionClaimed, ActionCompleted, U64

\* What an entry point does to the state: event e about (r, h) becomes the n-th of the
\* log, b becomes the anchor of (r, h), and everything else stays.
Emits(n, e) ==
    /\ n \in Nat
    /\ DOMAIN log \subseteq Nat
    /\ DOMAIN log' = DOMAIN log \cup {n}
    /\ log'[n] = e
    /\ \A i \in DOMAIN log :
          /\ i < n /\ log'[i] = log[i]
          /\ log[i].registry \in Registries /\ log[i].hash \in Hashes
          /\ log[i].at \in Nat
          /\ log[i].type = "claimed" => log[i].claimExpires \in Nat

Stores(r, h, b) ==
    /\ anchors'[r][h] = b
    /\ \A q \in Registries, g \in Hashes :
          ~(q = r /\ g = h) => anchors'[q][g] = anchors[q][g]

LEMMA EmitsLemma ==
  ASSUME TypeOK, NEW e \in Event, log' = Append(log, e)
  PROVE  Emits(Len(log) + 1, e)
  <1>1. log \in Seq(Event)
    BY DEF TypeOK
  <1>2. /\ Len(log) + 1 \in Nat
        /\ DOMAIN log \subseteq Nat
        /\ DOMAIN log' = DOMAIN log \cup {Len(log) + 1}
        /\ log'[Len(log) + 1] = e
        /\ \A i \in DOMAIN log : i < Len(log) + 1 /\ log'[i] = log[i] /\ log[i] \in Event
    BY <1>1
  <1> QED
    BY <1>2, EventFields DEF Emits

LEMMA StoresLemma ==
  ASSUME TypeOK, NEW r \in Registries, NEW h \in Hashes, NEW b,
         anchors' = [anchors EXCEPT ![r][h] = b]
  PROVE  Stores(r, h, b)
  BY DEF TypeOK, Stores

\* Whatever the entry point, the table and the log keep telling the same story.
LEMMA StoryKept ==
  ASSUME TableMatchesLog, LogInThePast, clock \in Nat, clock' = clock,
         NEW r \in Registries, NEW h \in Hashes, NEW b, NEW e, NEW n,
         Emits(n, e), Stores(r, h, b),
         About(e, r, h), e.at = clock, b.status # "absent", Tells(e, b)
  PROVE  TableMatchesLog' /\ LogInThePast'
  <1>1. LogInThePast'
    BY DEF Emits, LogInThePast
  <1>2. ASSUME NEW q \in Registries, NEW g \in Hashes
        PROVE  IF Anchored(q, g)'
               THEN \E i \in DOMAIN log' : /\ About(log'[i], q, g)
                                           /\ LastAbout(i, q, g)'
                                           /\ Tells(log'[i], anchors'[q][g])
               ELSE \A i \in DOMAIN log' : ~About(log'[i], q, g)
    <2>1. CASE q = r /\ g = h
      BY <2>1 DEF Emits, Stores, Anchored, LastAbout
    <2>2. CASE ~(q = r /\ g = h)
      <3>1. ~About(e, q, g)
        BY <2>2 DEF About
      <3>2. anchors'[q][g] = anchors[q][g]
        BY <2>2 DEF Stores
      <3> QED
        BY <3>1, <3>2 DEF Emits, TableMatchesLog, Anchored, LastAbout
    <2> QED
      BY <2>1, <2>2
  <1> QED
    BY <1>1, <1>2 DEF TableMatchesLog, About, Tells

\* An event that anchors nothing leaves every anchor's terms where they were.
LEMMA SameTermsKept ==
  ASSUME TermsKept, NEW r \in Registries, NEW h \in Hashes, NEW b, NEW e, NEW n,
         Emits(n, e), Stores(r, h, b), Anchored(r, h), e.type # "anchored",
         b.approved = anchors[r][h].approved, b.executor = anchors[r][h].executor,
         b.expires = anchors[r][h].expires
  PROVE  TermsKept'
  <1> SUFFICES ASSUME NEW q \in Registries, NEW g \in Hashes, Anchored(q, g)'
               PROVE  \E i \in DOMAIN log' :
                        /\ log'[i].type = "anchored"
                        /\ About(log'[i], q, g)
                        /\ log'[i].approved = anchors'[q][g].approved
                        /\ log'[i].executor = anchors'[q][g].executor
                        /\ log'[i].expires = anchors'[q][g].expires
                        /\ \A k \in DOMAIN log' :
                              log'[k].type = "anchored" /\ About(log'[k], q, g) => k = i
    BY DEF TermsKept, About
  <1>1. /\ Anchored(q, g)
        /\ anchors'[q][g].approved = anchors[q][g].approved
        /\ anchors'[q][g].executor = anchors[q][g].executor
        /\ anchors'[q][g].expires = anchors[q][g].expires
    BY DEF Anchored, Stores
  <1> QED
    BY <1>1 DEF Emits, TermsKept

LEMMA InitInv == Init => IInv
  <1> SUFFICES ASSUME Init PROVE IInv
    OBVIOUS
  <1>1. log = << >> /\ DOMAIN log = {}
    BY DEF Init
  <1>2. \A r \in Registries, h \in Hashes : anchors[r][h] = Absent
    BY DEF Init
  <1>3. TypeOK
    BY InitType
  <1>4. ClaimedFlag /\ TermsKept /\ TableMatchesLog
    BY <1>1, <1>2 DEF ClaimedFlag, TermsKept, TableMatchesLog, Anchored, Absent
  <1>5. /\ LogInThePast /\ LatestLeaseKept /\ LeaseExclusive
        /\ CompletionUnderLease /\ WithinAnchoredTerms
    BY <1>1 DEF LogInThePast, LatestLeaseKept, LeaseExclusive, CompletionUnderLease,
                WithinAnchoredTerms
  <1> QED
    BY <1>3, <1>4, <1>5 DEF IInv

(***************************************************************************)
(* A claim: every earlier claim of the action ended by now, because the    *)
(* table kept the latest of their leases.                                  *)
(***************************************************************************)
LEMMA ClaimInv ==
  ASSUME IInv, NEW r \in Registries, NEW h \in Hashes, NEW sender \in Addresses,
         NEW lease \in Leases, ClaimAction(r, h, sender, lease)
  PROVE  IInv'
  <1> DEFINE n == Len(log) + 1
             e == [type |-> "claimed", registry |-> r, hash |-> h, claimant |-> sender,
                   claimExpires |-> clock + lease, at |-> clock]
             a == anchors[r][h]
             b == [a EXCEPT !.claimed = TRUE, !.claimant = sender, !.status = "claimed",
                            !.claimExpires = clock + lease, !.updated = clock]
  <1>1. TypeOK'
    BY ClaimType DEF IInv
  <1>2. /\ clock \in Nat /\ clock' = clock
        /\ clock + lease \in U64 /\ clock + lease \in Nat /\ clock + lease > clock
    BY BoundsAssumption DEF ClaimAction, IInv, TypeOK, ClaimAdmitted, LeaseFits, U64
  <1>3. a \in Anchor /\ a.claimExpires \in Nat
    BY BoundsAssumption DEF IInv, TypeOK, Anchor, U64
  <1>4. /\ a.approved /\ sender = a.executor /\ clock < a.expires
        /\ Anchored(r, h)
        /\ a.claimed => a.claimExpires <= clock
    BY <1>2, <1>3 DEF ClaimAction, ClaimAdmitted, LeaseRunning
  <1>5. Emits(n, e)
    <2>1. e \in Event
      BY <1>2, BoundsAssumption DEF Event, ActionClaimed, U64, Accounts, IInv, TypeOK
    <2> QED
      BY <2>1, EmitsLemma DEF ClaimAction, IInv
  <1>6. Stores(r, h, b)
    BY StoresLemma DEF ClaimAction, IInv
  <1>7. /\ e.type = "claimed" /\ About(e, r, h) /\ e.at = clock
        /\ e.claimant = sender /\ e.claimExpires = clock + lease
    BY DEF About
  <1>8. /\ b.status = "claimed" /\ b.claimed = TRUE /\ b.claimant = sender
        /\ b.claimExpires = clock + lease /\ b.updated = clock
        /\ b.approved = a.approved /\ b.executor = a.executor /\ b.expires = a.expires
    BY <1>3 DEF Anchor
  <1> HIDE DEF e, b, n
  <1>9. TableMatchesLog' /\ LogInThePast'
    BY <1>2, <1>5, <1>6, <1>7, <1>8, StoryKept DEF IInv, Tells
  <1>10. ASSUME NEW i \in DOMAIN log, log[i].type = "claimed", About(log[i], r, h)
         PROVE  log[i].claimExpires <= clock
    <2>1. a.claimed /\ log[i].claimExpires <= a.claimExpires
      BY <1>10 DEF IInv, LatestLeaseKept, About
    <2>2. a.claimExpires <= clock
      BY <1>4, <2>1
    <2>3. log[i].claimExpires \in Nat
      BY <1>5, <1>10 DEF Emits
    <2> QED
      BY <1>2, <1>3, <2>1, <2>2, <2>3
  <1>11. LatestLeaseKept'
    <2> SUFFICES ASSUME NEW i \in DOMAIN log', log'[i].type = "claimed"
                 PROVE  LET c == anchors'[log'[i].registry][log'[i].hash]
                        IN  c.claimed /\ log'[i].claimExpires <= c.claimExpires
      BY DEF LatestLeaseKept
    <2>1. CASE i = n
      BY <1>2, <1>5, <1>6, <1>7, <1>8, <2>1 DEF Emits, Stores, About
    <2>2. CASE i \in DOMAIN log /\ About(log[i], r, h)
      <3>1. log'[i] = log[i] /\ log[i].claimExpires \in Nat
        BY <1>5, <2>2 DEF Emits
      <3>2. log[i].claimExpires <= clock + lease
        BY <1>2, <1>10, <2>2, <3>1
      <3> QED
        BY <1>6, <1>8, <2>2, <3>1, <3>2 DEF About, Stores
    <2>3. CASE i \in DOMAIN log /\ ~About(log[i], r, h)
      BY <1>5, <1>6, <2>3 DEF Emits, Stores, About, IInv, LatestLeaseKept
    <2> QED
      BY <1>5, <2>1, <2>2, <2>3 DEF Emits
  <1>12. ClaimedFlag'
    <2> SUFFICES ASSUME NEW q \in Registries, NEW g \in Hashes
                 PROVE  LET c == anchors'[q][g]
                        IN  /\ c.claimed <=> c.status \in {"claimed", "executed", "failed"}
                            /\ c.claimed => c.approved /\ c.claimant = c.executor
      BY DEF ClaimedFlag
    <2>1. CASE q = r /\ g = h
      BY <1>4, <1>6, <1>8, <2>1 DEF Stores
    <2>2. CASE ~(q = r /\ g = h)
      BY <1>6, <2>2 DEF Stores, IInv, ClaimedFlag
    <2> QED
      BY <2>1, <2>2
  <1>13. TermsKept'
    BY <1>4, <1>5, <1>6, <1>7, <1>8, SameTermsKept DEF IInv
  <1>14. LeaseExclusive'
    BY <1>5, <1>7, <1>10 DEF Emits, IInv, LeaseExclusive, SameAction, About
  <1>15. CompletionUnderLease'
    BY <1>5, <1>7 DEF Emits, IInv, CompletionUnderLease, SameAction, About
  <1>16. WithinAnchoredTerms'
    BY <1>4, <1>5, <1>7
       DEF Emits, IInv, WithinAnchoredTerms, TermsKept, SameAction, About
  <1> QED
    BY <1>1, <1>9, <1>11, <1>12, <1>13, <1>14, <1>15, <1>16 DEF IInv

(***************************************************************************)
(* A completion or failure: the table says the action is claimed, so its   *)
(* last event is the claim whose lease the table kept.                     *)
(***************************************************************************)
LEMMA CloseInv ==
  ASSUME IInv, NEW r \in Registries, NEW h \in Hashes, NEW sender \in Addresses,
         NEW receipt \in Receipts, NEW status \in {"executed", "failed"},
         Close(r, h, sender, receipt, status)
  PROVE  IInv'
  <1> DEFINE n == Len(log) + 1
             e == [type |-> "completed", registry |-> r, hash |-> h, claimant |-> sender,
                   status |-> status, receipt |-> receipt, at |-> clock]
             a == anchors[r][h]
             b == [a EXCEPT !.receipt = receipt, !.status = status, !.updated = clock]
  <1>1. TypeOK'
    BY CloseType DEF IInv
  <1>2. clock \in Nat /\ clock' = clock
    BY BoundsAssumption DEF Close, IInv, TypeOK
  <1>3. a \in Anchor
    BY DEF IInv, TypeOK
  <1>4. /\ a.status = "claimed" /\ a.claimed /\ sender = a.claimant
        /\ clock < a.expires /\ clock < a.claimExpires
        /\ a.approved /\ a.claimant = a.executor
        /\ Anchored(r, h)
    <2>1. /\ a.status = "claimed" /\ a.claimed /\ sender = a.claimant
          /\ a.expires > clock /\ a.claimExpires > clock
          /\ Anchored(r, h)
      BY DEF Close, MayClose
    <2>2. a.approved /\ a.claimant = a.executor
      BY <2>1 DEF IInv, ClaimedFlag
    <2>3. a.expires \in Nat /\ a.claimExpires \in Nat
      BY <1>3, BoundsAssumption DEF Anchor, U64
    <2> QED
      BY <1>2, <2>1, <2>2, <2>3
  <1>5. Emits(n, e)
    <2>1. e \in Event
      BY BoundsAssumption DEF Event, ActionCompleted, U64, Accounts, IInv, TypeOK
    <2> QED
      BY <2>1, EmitsLemma DEF Close, IInv
  <1>6. Stores(r, h, b)
    BY StoresLemma DEF Close, IInv
  <1>7. /\ e.type = "completed" /\ About(e, r, h) /\ e.at = clock
        /\ e.claimant = sender /\ e.status = status /\ e.receipt = receipt
    BY DEF About
  <1>8. /\ b.status = status /\ b.claimed = a.claimed /\ b.claimant = a.claimant
        /\ b.claimExpires = a.claimExpires /\ b.updated = clock /\ b.receipt = receipt
        /\ b.approved = a.approved /\ b.executor = a.executor /\ b.expires = a.expires
    BY <1>3 DEF Anchor
  <1> HIDE DEF e, b, n
  <1>9. TableMatchesLog' /\ LogInThePast'
    BY <1>2, <1>4, <1>5, <1>6, <1>7, <1>8, StoryKept DEF IInv, Tells
  <1>10. LatestLeaseKept'
    <2> SUFFICES ASSUME NEW i \in DOMAIN log', log'[i].type = "claimed"
                 PROVE  LET c == anchors'[log'[i].registry][log'[i].hash]
                        IN  c.claimed /\ log'[i].claimExpires <= c.claimExpires
      BY DEF LatestLeaseKept
    <2>1. i \in DOMAIN log /\ log'[i] = log[i]
      BY <1>5, <1>7 DEF Emits
    <2>2. LET c == anchors[log[i].registry][log[i].hash]
          IN  c.claimed /\ log[i].claimExpires <= c.claimExpires
      BY <2>1 DEF IInv, LatestLeaseKept
    <2>3. CASE About(log[i], r, h)
      BY <1>6, <1>8, <2>1, <2>2, <2>3 DEF About, Stores
    <2>4. CASE ~About(log[i], r, h)
      BY <1>5, <1>6, <2>1, <2>2, <2>4 DEF Emits, Stores, About
    <2> QED
      BY <2>3, <2>4
  <1>11. ClaimedFlag'
    <2> SUFFICES ASSUME NEW q \in Registries, NEW g \in Hashes
                 PROVE  LET c == anchors'[q][g]
                        IN  /\ c.claimed <=> c.status \in {"claimed", "executed", "failed"}
                            /\ c.claimed => c.approved /\ c.claimant = c.executor
      BY DEF ClaimedFlag
    <2>1. CASE q = r /\ g = h
      BY <1>4, <1>6, <1>8, <2>1 DEF Stores
    <2>2. CASE ~(q = r /\ g = h)
      BY <1>6, <2>2 DEF Stores, IInv, ClaimedFlag
    <2> QED
      BY <2>1, <2>2
  <1>12. TermsKept'
    BY <1>4, <1>5, <1>6, <1>7, <1>8, SameTermsKept DEF IInv
  <1>13. LeaseExclusive'
    BY <1>5, <1>7 DEF Emits, IInv, LeaseExclusive, SameAction, About
  <1>14. PICK i \in DOMAIN log : /\ About(log[i], r, h)
                                 /\ LastAbout(i, r, h)
                                 /\ Tells(log[i], a)
    BY <1>4 DEF IInv, TableMatchesLog
  <1>15. /\ log[i].type = "claimed"
         /\ log[i].claimant = sender
         /\ log[i].at <= clock /\ clock < log[i].claimExpires
    <2>1. log[i] \in Event
      BY DEF IInv, TypeOK
    <2>2. log[i].type = "completed" => log[i].status \in {"executed", "failed"}
      BY <2>1 DEF Event, ActionAnchored, ActionClaimed, ActionCompleted
    <2>3. log[i].type = "claimed" /\ a.claimant = log[i].claimant
                                  /\ a.claimExpires = log[i].claimExpires
      BY <1>4, <1>14, <2>2 DEF Tells
    <2> QED
      BY <1>4, <2>3 DEF IInv, LogInThePast
  <1>16. CompletionUnderLease'
    <2> SUFFICES ASSUME NEW j \in DOMAIN log', log'[j].type = "completed"
                 PROVE  \E k \in DOMAIN log' :
                          /\ k < j
                          /\ log'[k].type = "claimed"
                          /\ SameAction(log'[k], log'[j])
                          /\ log'[k].claimant = log'[j].claimant
                          /\ log'[k].at <= log'[j].at
                          /\ log'[j].at < log'[k].claimExpires
                          /\ \A m \in DOMAIN log' :
                                k < m /\ m < j => ~SameAction(log'[m], log'[j])
      BY DEF CompletionUnderLease, SameAction, About
    <2>1. CASE j = n
      BY <1>5, <1>7, <1>14, <1>15, <2>1 DEF Emits, SameAction, About, LastAbout
    <2>2. CASE j \in DOMAIN log
      BY <1>5, <2>2 DEF Emits, IInv, CompletionUnderLease, SameAction, About
    <2> QED
      BY <1>5, <2>1, <2>2 DEF Emits
  <1>17. WithinAnchoredTerms'
    BY <1>4, <1>5, <1>7
       DEF Emits, IInv, WithinAnchoredTerms, TermsKept, SameAction, About
  <1> QED
    BY <1>1, <1>9, <1>10, <1>11, <1>12, <1>13, <1>16, <1>17 DEF IInv

(***************************************************************************)
(* Anchoring: the key was free, so nothing was ever logged about it.       *)
(***************************************************************************)
LEMMA AnchorInv ==
  ASSUME IInv, NEW r \in Registries, NEW h \in Hashes, NEW sender \in Addresses,
         NEW approved \in BOOLEAN, NEW executor \in Accounts, NEW expires \in Expiries,
         AnchorAction(r, h, sender, approved, executor, expires)
  PROVE  IInv'
  <1> DEFINE n == Len(log) + 1
             b == [Absent EXCEPT !.status = "anchored", !.owner = owner[r],
                      !.executor = executor, !.approved = approved,
                      !.expires = expires, !.updated = clock]
             e == [type |-> "anchored", registry |-> r, hash |-> h, owner |-> owner[r],
                   executor |-> executor, approved |-> approved, expires |-> expires,
                   at |-> clock]
  <1>1. TypeOK'
    BY AnchorType DEF IInv
  <1>2. clock \in Nat /\ clock' = clock
    BY BoundsAssumption DEF AnchorAction, IInv, TypeOK
  <1>3. \A i \in DOMAIN log : ~About(log[i], r, h)
    BY DEF AnchorAction, IInv, TableMatchesLog
  <1>4. Emits(n, e)
    <2>1. clock \in U64 /\ expires \in U64 /\ owner[r] \in Accounts
      BY BoundsAssumption DEF IInv, TypeOK, U64
    <2>2. e \in Event
      BY <2>1 DEF Event, ActionAnchored
    <2> QED
      BY <2>2, EmitsLemma DEF AnchorAction, IInv
  <1>5. Stores(r, h, b)
    BY StoresLemma DEF AnchorAction, IInv
  <1>6. /\ e.type = "anchored" /\ About(e, r, h) /\ e.at = clock
        /\ e.approved = approved /\ e.executor = executor /\ e.expires = expires
    BY DEF About
  <1>7. /\ b.status = "anchored" /\ b.claimed = FALSE /\ b.updated = clock
        /\ b.approved = approved /\ b.executor = executor /\ b.expires = expires
    BY DEF Absent
  <1> HIDE DEF e, b, n
  <1>8. TableMatchesLog' /\ LogInThePast'
    BY <1>2, <1>4, <1>5, <1>6, <1>7, StoryKept DEF IInv, Tells
  <1>9. LatestLeaseKept'
    <2> SUFFICES ASSUME NEW i \in DOMAIN log', log'[i].type = "claimed"
                 PROVE  LET c == anchors'[log'[i].registry][log'[i].hash]
                        IN  c.claimed /\ log'[i].claimExpires <= c.claimExpires
      BY DEF LatestLeaseKept
    <2>1. i \in DOMAIN log /\ log'[i] = log[i]
      BY <1>4, <1>6 DEF Emits
    <2>2. anchors'[log[i].registry][log[i].hash] = anchors[log[i].registry][log[i].hash]
      BY <1>3, <1>4, <1>5, <2>1 DEF Emits, Stores, About
    <2> QED
      BY <2>1, <2>2 DEF IInv, LatestLeaseKept
  <1>10. ClaimedFlag'
    <2> SUFFICES ASSUME NEW q \in Registries, NEW g \in Hashes
                 PROVE  LET c == anchors'[q][g]
                        IN  /\ c.claimed <=> c.status \in {"claimed", "executed", "failed"}
                            /\ c.claimed => c.approved /\ c.claimant = c.executor
      BY DEF ClaimedFlag
    <2>1. CASE q = r /\ g = h
      BY <1>5, <1>7, <2>1 DEF Stores
    <2>2. CASE ~(q = r /\ g = h)
      BY <1>5, <2>2 DEF Stores, IInv, ClaimedFlag
    <2> QED
      BY <2>1, <2>2
  <1>11. TermsKept'
    <2> SUFFICES ASSUME NEW q \in Registries, NEW g \in Hashes, Anchored(q, g)'
                 PROVE  \E i \in DOMAIN log' :
                          /\ log'[i].type = "anchored"
                          /\ About(log'[i], q, g)
                          /\ log'[i].approved = anchors'[q][g].approved
                          /\ log'[i].executor = anchors'[q][g].executor
                          /\ log'[i].expires = anchors'[q][g].expires
                          /\ \A k \in DOMAIN log' :
                                log'[k].type = "anchored" /\ About(log'[k], q, g) => k = i
      BY DEF TermsKept, About
    <2>1. CASE q = r /\ g = h
      BY <1>3, <1>4, <1>5, <1>6, <1>7, <2>1 DEF Emits, Stores
    <2>2. CASE ~(q = r /\ g = h)
      <3>1. ~About(e, q, g)
        BY <1>6, <2>2 DEF About
      <3>2. anchors'[q][g] = anchors[q][g] /\ Anchored(q, g)
        BY <1>5, <2>2 DEF Stores, Anchored
      <3> QED
        BY <1>4, <3>1, <3>2 DEF Emits, IInv, TermsKept
    <2> QED
      BY <2>1, <2>2
  <1>12. LeaseExclusive'
    BY <1>4, <1>6 DEF Emits, IInv, LeaseExclusive, SameAction, About
  <1>13. CompletionUnderLease'
    BY <1>4, <1>6 DEF Emits, IInv, CompletionUnderLease, SameAction, About
  <1>14. WithinAnchoredTerms'
    BY <1>3, <1>4, <1>6 DEF Emits, IInv, WithinAnchoredTerms, SameAction, About
  <1> QED
    BY <1>1, <1>8, <1>9, <1>10, <1>11, <1>12, <1>13, <1>14 DEF IInv

\* Steps that touch neither the table nor the log; time may pass.
LEMMA QuietInv ==
  ASSUME IInv, TypeOK', UNCHANGED <<anchors, log>>, clock' >= clock
  PROVE  IInv'
  <1>1. LogInThePast'
    <2>1. clock \in Nat /\ clock' \in Nat
      BY BoundsAssumption DEF IInv, TypeOK
    <2>2. \A i \in DOMAIN log : log[i].at \in Nat
      BY EventFields DEF IInv, TypeOK
    <2> QED
      BY <2>1, <2>2 DEF IInv, LogInThePast
  <1>2. /\ LatestLeaseKept' /\ ClaimedFlag' /\ TermsKept' /\ TableMatchesLog'
        /\ LeaseExclusive' /\ CompletionUnderLease' /\ WithinAnchoredTerms'
    BY DEF IInv, LatestLeaseKept, ClaimedFlag, TermsKept, TableMatchesLog, LeaseExclusive,
           CompletionUnderLease, WithinAnchoredTerms, Anchored, LastAbout, Tells,
           SameAction, About
  <1> QED
    BY <1>1, <1>2 DEF IInv

LEMMA StepInv == IInv /\ [Next]_vars => IInv'
  <1> SUFFICES ASSUME IInv, [Next]_vars PROVE IInv'
    OBVIOUS
  <1>1. TypeOK' /\ clock \in Nat
    BY StepType, BoundsAssumption DEF IInv, TypeOK
  <1>2. CASE Tick
    BY <1>1, <1>2, QuietInv DEF Tick
  <1>3. ASSUME NEW r \in Registries, NEW sender \in Addresses,
               CreateSharedRegistry(r, sender)
        PROVE  IInv'
    BY <1>1, <1>3, QuietInv DEF CreateSharedRegistry
  <1>4. ASSUME NEW r \in Registries, NEW h \in Hashes, NEW sender \in Addresses,
               Transaction(r, h, sender)
        PROVE  IInv'
    BY <1>4, AnchorInv, ClaimInv, CloseInv DEF Transaction, CompleteAction, FailAction
  <1>5. CASE UNCHANGED vars
    BY <1>1, <1>5, QuietInv DEF vars
  <1> QED
    BY <1>2, <1>3, <1>4, <1>5 DEF Next

LEMMA Invariance == Spec => []IInv
  BY InitInv, StepInv, PTL DEF Spec

(***************************************************************************)
(* No two leases of an action overlap, for any leases the executors ask    *)
(* for and any number of re-claims.                                        *)
(***************************************************************************)
THEOREM LeasesAreExclusive == Spec => []LeaseExclusive
  <1>1. IInv => LeaseExclusive
    BY DEF IInv
  <1> QED
    BY <1>1, Invariance, PTL

(***************************************************************************)
(* Each completion closes the running lease of its own claim, once.        *)
(***************************************************************************)
THEOREM CompletionsAreLeased == Spec => []CompletionUnderLease
  <1>1. IInv => CompletionUnderLease
    BY DEF IInv
  <1> QED
    BY <1>1, Invariance, PTL

(***************************************************************************)
(* Claims and completions stay within what the owner anchored, once.       *)
(***************************************************************************)
THEOREM TermsAreBinding == Spec => []WithinAnchoredTerms
  <1>1. IInv => WithinAnchoredTerms
    BY DEF IInv
  <1> QED
    BY <1>1, Invariance, PTL

(***************************************************************************)
(* The event stream determines the table.                                  *)
(***************************************************************************)
THEOREM LogDeterminesTable == Spec => []TableMatchesLog
  <1>1. IInv => TableMatchesLog
    BY DEF IInv
  <1> QED
    BY <1>1, Invariance, PTL

-----------------------------------------------------------------------------
(***************************************************************************)
(* The contract implements the lock of ExecutionLock.                      *)
(***************************************************************************)
LEMMA LockInit == Init => Lock!Init
  <1> SUFFICES ASSUME Init PROVE Lock!Init
    OBVIOUS
  <1>1. clock \in Nat
    BY BoundsAssumption DEF Init
  <1>2. \A ra \in Registries \X Hashes : anchors[ra[1]][ra[2]] = Absent
    BY DEF Init
  <1>3. LockGrant = [ra \in Registries \X Hashes |-> Lock!NoGrant]
    <2>1. GrantOf(Absent) = Lock!NoGrant
      BY DEF GrantOf, Absent, Lock!NoGrant
    <2> QED
      BY <1>2, <2>1 DEF LockGrant
  <1> QED
    BY <1>1, <1>3 DEF Lock!Init

\* A step that stores one anchor changes one grant.
LEMMA OneGrantChanges ==
  ASSUME NEW r \in Registries, NEW h \in Hashes, NEW b, Stores(r, h, b)
  PROVE  LockGrant' = [LockGrant EXCEPT ![<<r, h>>] = GrantOf(b)]
  <1>1. ASSUME NEW ra \in Registries \X Hashes
        PROVE  GrantOf(anchors'[ra[1]][ra[2]])
                 = IF ra = <<r, h>> THEN GrantOf(b) ELSE GrantOf(anchors[ra[1]][ra[2]])
    BY DEF Stores
  <1>2. LockGrant' = [ra \in Registries \X Hashes |-> GrantOf(anchors'[ra[1]][ra[2]])]
    BY DEF LockGrant, GrantOf
  <1> QED
    BY <1>1, <1>2 DEF LockGrant

LEMMA LockStep == IInv /\ [Next]_vars => [Lock!Next]_(Lock!vars)
  <1> SUFFICES ASSUME IInv, [Next]_vars PROVE [Lock!Next]_(Lock!vars)
    OBVIOUS
  <1>1. clock \in Nat
    BY BoundsAssumption DEF IInv, TypeOK
  <1>2. CASE Tick
    <2>1. UNCHANGED LockGrant
      BY <1>2 DEF Tick, LockGrant, GrantOf
    <2>2. clock' \in Nat /\ clock' > clock
      BY <1>1, <1>2 DEF Tick
    <2> QED
      BY <2>1, <2>2 DEF Lock!Next, Lock!Advance
  <1>3. ASSUME UNCHANGED <<clock, anchors>>
        PROVE  UNCHANGED Lock!vars
    BY <1>3 DEF Lock!vars, LockGrant, GrantOf
  <1>4. ASSUME NEW r \in Registries, NEW h \in Hashes, NEW sender \in Addresses,
               NEW approved \in BOOLEAN, NEW executor \in Accounts, NEW expires \in Expiries,
               AnchorAction(r, h, sender, approved, executor, expires)
        PROVE  UNCHANGED Lock!vars
    <2> DEFINE b == [Absent EXCEPT !.status = "anchored", !.owner = owner[r],
                        !.executor = executor, !.approved = approved,
                        !.expires = expires, !.updated = clock]
    <2>1. Stores(r, h, b) /\ UNCHANGED clock
      BY <1>4, StoresLemma DEF AnchorAction, IInv
    <2>2. b.claimed = FALSE
      BY DEF Absent
    <2>3. anchors[r][h].claimed = FALSE
      <3>1. anchors[r][h].status = "absent" /\ anchors[r][h].claimed \in BOOLEAN
        BY <1>4 DEF AnchorAction, Anchored, IInv, TypeOK, Anchor
      <3> QED
        BY <3>1 DEF IInv, ClaimedFlag
    <2> HIDE DEF b
    <2>4. GrantOf(b) = GrantOf(anchors[r][h])
      BY <2>2, <2>3 DEF GrantOf
    <2>5. LockGrant' = LockGrant
      <3>1. LockGrant' = [LockGrant EXCEPT ![<<r, h>>] = GrantOf(b)]
        BY <2>1, OneGrantChanges
      <3>2. LockGrant[<<r, h>>] = GrantOf(anchors[r][h])
        BY DEF LockGrant
      <3> QED
        BY <2>4, <3>1, <3>2 DEF LockGrant
    <2> QED
      BY <2>1, <2>5 DEF Lock!vars
  <1>5. ASSUME NEW r \in Registries, NEW h \in Hashes, NEW sender \in Addresses,
               NEW lease \in Leases, ClaimAction(r, h, sender, lease)
        PROVE  Lock!Acquire(<<r, h>>)
    <2> DEFINE a == anchors[r][h]
               b == [a EXCEPT !.claimed = TRUE, !.claimant = sender, !.status = "claimed",
                              !.claimExpires = clock + lease, !.updated = clock]
               g == [holder |-> sender, until |-> clock + lease, phase |-> "open"]
    <2>1. Stores(r, h, b) /\ UNCHANGED clock
      BY <1>5, StoresLemma DEF ClaimAction, IInv
    <2>2. a \in Anchor
      BY DEF IInv, TypeOK
    <2>3. GrantOf(b) = g
      BY <2>2 DEF GrantOf, Anchor
    <2>4. clock + lease \in Nat /\ clock + lease > clock /\ sender # ZeroAddress
      BY <1>1, <1>5, BoundsAssumption, ZeroAssumption DEF ClaimAction, ClaimAdmitted
    <2>5. a.claimed \in BOOLEAN /\ (a.claimed => ~(a.claimExpires > clock))
      BY <1>5, <2>2 DEF ClaimAction, LeaseRunning, Anchor
    <2> HIDE DEF b
    <2>6. LockGrant' = [LockGrant EXCEPT ![<<r, h>>] = g]
      <3>1. LockGrant' = [LockGrant EXCEPT ![<<r, h>>] = GrantOf(b)]
        BY <2>1, OneGrantChanges
      <3> HIDE DEF g
      <3> QED
        BY <2>3, <3>1
    <2>7. LockGrant[<<r, h>>] = GrantOf(a) /\ LockGrant'[<<r, h>>] = g
      <3>1. <<r, h>> \in DOMAIN LockGrant /\ LockGrant[<<r, h>>] = GrantOf(a)
        BY DEF LockGrant
      <3> HIDE DEF g
      <3> QED
        BY <2>6, <3>1
    <2>8. ~Lock!Live(<<r, h>>)
      BY <2>5, <2>7 DEF Lock!Live, GrantOf
    <2>9. /\ g \in Lock!Grants /\ g.holder # ZeroAddress
          /\ g.until > clock /\ g.phase = "open"
      BY <2>4 DEF Lock!Grants
    <2> HIDE DEF g
    <2> QED
      BY <2>1, <2>6, <2>7, <2>8, <2>9 DEF Lock!Acquire
  <1>6. ASSUME NEW r \in Registries, NEW h \in Hashes, NEW sender \in Addresses,
               NEW receipt \in Receipts, NEW status \in {"executed", "failed"},
               Close(r, h, sender, receipt, status)
        PROVE  Lock!Finish(<<r, h>>)
    <2> DEFINE a == anchors[r][h]
               b == [a EXCEPT !.receipt = receipt, !.status = status, !.updated = clock]
    <2>1. Stores(r, h, b) /\ UNCHANGED clock
      BY <1>6, StoresLemma DEF Close, IInv
    <2>2. a \in Anchor
      BY DEF IInv, TypeOK
    <2>3. /\ a.claimed /\ a.status = "claimed" /\ a.claimant = sender
          /\ a.claimExpires > clock
          /\ sender # ZeroAddress
      BY <1>6, ZeroAssumption DEF Close, MayClose
    <2>4. GrantOf(a) = [holder |-> sender, until |-> a.claimExpires, phase |-> "open"]
      BY <2>3 DEF GrantOf
    <2>5. GrantOf(b) = [GrantOf(a) EXCEPT !.phase = "closed"]
      <3> DEFINE g == [holder |-> sender, until |-> a.claimExpires, phase |-> "open"]
      <3>1. /\ b.claimed = a.claimed /\ b.status = status /\ b.claimant = sender
            /\ b.claimExpires = a.claimExpires
        BY <2>2, <2>3 DEF Anchor
      <3> HIDE DEF b
      <3>2. GrantOf(b) = [holder |-> sender, until |-> a.claimExpires, phase |-> "closed"]
        BY <2>3, <3>1 DEF GrantOf
      <3>3. [g EXCEPT !.phase = "closed"]
              = [holder |-> sender, until |-> a.claimExpires, phase |-> "closed"]
        OBVIOUS
      <3>4. GrantOf(a) = g
        BY <2>4
      <3> HIDE DEF g, a
      <3> QED
        BY <3>2, <3>3, <3>4
    <2> HIDE DEF b
    <2>6. LockGrant[<<r, h>>] = GrantOf(a)
      BY DEF LockGrant
    <2>7. LockGrant' = [LockGrant EXCEPT ![<<r, h>>] = GrantOf(b)]
      BY <2>1, OneGrantChanges
    <2>8. LockGrant' = [LockGrant EXCEPT ![<<r, h>>].phase = "closed"]
      BY <2>5, <2>6, <2>7
    <2>9. Lock!Live(<<r, h>>)
      BY <2>3, <2>4, <2>6 DEF Lock!Live
    <2> QED
      BY <2>1, <2>8, <2>9 DEF Lock!Finish
  <1>7. ASSUME NEW r \in Registries, NEW h \in Hashes, NEW sender \in Addresses,
               Transaction(r, h, sender)
        PROVE  [Lock!Next]_(Lock!vars)
    <2>1. <<r, h>> \in Registries \X Hashes
      OBVIOUS
    <2>2. Lock!Acquire(<<r, h>>) \/ Lock!Finish(<<r, h>>) \/ UNCHANGED Lock!vars
      BY <1>4, <1>5, <1>6, <1>7 DEF Transaction, CompleteAction, FailAction
    <2> QED
      BY <2>1, <2>2 DEF Lock!Next
  <1>8. ASSUME NEW r \in Registries, NEW sender \in Addresses,
               CreateSharedRegistry(r, sender)
        PROVE  UNCHANGED Lock!vars
    BY <1>3, <1>8 DEF CreateSharedRegistry
  <1>9. CASE UNCHANGED vars
    BY <1>3, <1>9 DEF vars
  <1> QED
    BY <1>2, <1>7, <1>8, <1>9 DEF Next

(***************************************************************************)
(* Every behaviour of the contract is, seen through the leases in its      *)
(* tables, a behaviour of the lock: claim_action acquires only what is     *)
(* free, complete_action and fail_action finish only what is live, and no  *)
(* other entry point touches a grant.                                      *)
(***************************************************************************)
THEOREM ContractImplementsLock == Spec => ImplementsLock
  BY Invariance, LockInit, LockStep, PTL DEF Spec, ImplementsLock, Lock!Spec
=============================================================================
