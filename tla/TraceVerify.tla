---------------------------- MODULE TraceVerify ----------------------------
(***************************************************************************)
(* SuiMeshClient.trace.verify (packages/sdk): the audit of a session.  It  *)
(* reads the session's events in order, decodes each one, and keeps per    *)
(* trace what it has seen so far (verifyTraceState); an event that lacks   *)
(* the evidence it rests on is reported.  One action reads one event.      *)
(*                                                                         *)
(* A session of any events is read, not only one that honest clients       *)
(* wrote.  verify also checks the hash chain: SessionLog!LinksBroken.      *)
(***************************************************************************)
EXTENDS SessionLog, Sequences, FiniteSets

CONSTANTS Traces,       \* trace ids
          Hashes,       \* action hashes
          MaxEvents,    \* bound: length of a session
          MaxFaults     \* bound: the session ends after more errors than this

ASSUME VerifyBounds == MaxEvents \in Nat /\ MaxFaults \in Nat
ASSUME VerifyNames == NoTrace \notin Traces /\ NoHash \notin Hashes

VARIABLES events,     \* the events read so far
          seen,       \* seen[t]: what verifyTraceState holds for trace t
          errors      \* the positions of the events an error was pushed for

verifyVars == <<events, seen, errors>>

(***************************************************************************)
(* What verify looks at in an event.  The field says is the part of the    *)
(* payload that counts: a decision says yes when it approves, a claim when *)
(* it is claimed and no duplicate, an audit event when it cites a hash.    *)
(***************************************************************************)
Kinds == {"proposal", "decision", "anchor", "claim", "receipt", "audit", "other",
          "undecodable"}

Hash == Hashes \cup {NoHash}

Traced == [type : {"decision", "claim"}, trace : Traces, hash : Hash, says : {"yes", "no"}]
          \cup [type : {"anchor", "receipt"}, trace : Traces, hash : Hash, says : {"no"}]
          \cup [type : {"audit"}, trace : Traces, hash : {NoHash}, says : {"yes", "no"}]
          \cup [type : {"proposal", "other"}, trace : Traces, hash : {NoHash}, says : {"no"}]

\* Nothing of an event without a trace id is looked at, and nothing of an undecodable one.
Untraced == [type : Kinds, trace : {NoTrace}, hash : {NoHash}, says : {"no"}]

Event == Traced \cup Untraced

TraceState == [proposal : {"yes", "no"}, approved : SUBSET Hashes,
               anchored : SUBSET Hashes, claimed : SUBSET Hashes,
               executed : SUBSET Hashes]

FreshState == [proposal |-> "no", approved |-> {}, anchored |-> {}, claimed |-> {},
               executed |-> {}]

-----------------------------------------------------------------------------
VerifyInit == /\ events = << >>
              /\ seen = [t \in Traces |-> FreshState]
              /\ errors = {}

Push(e) == events' = Append(events, e)
Report(faulty) == errors' = IF faulty THEN errors \cup {Len(events) + 1} ELSE errors

\* Events verifyTraceState passes over.
SkipEvent(e) ==
    /\ e.type = "other" \/ (e.type # "undecodable" /\ e.trace = NoTrace)
    /\ Push(e)
    /\ UNCHANGED <<seen, errors>>

\* decodeEvent throws: the event is reported and left out of the trace state.
ReadUndecodable(e) ==
    /\ e.type = "undecodable"
    /\ Push(e)
    /\ Report(TRUE)
    /\ UNCHANGED seen

ReadProposal(e) ==
    /\ e.type = "proposal" /\ e.trace \in Traces
    /\ Push(e)
    /\ seen' = [seen EXCEPT ![e.trace].proposal = "yes"]
    /\ UNCHANGED errors

ReadDecision(e) ==
    /\ e.type = "decision" /\ e.trace \in Traces
    /\ Push(e)
    /\ Report(seen[e.trace].proposal = "no")
    /\ IF e.says = "yes" /\ e.hash # NoHash
       THEN seen' = [seen EXCEPT ![e.trace].approved = @ \cup {e.hash}]
       ELSE UNCHANGED seen

ReadAnchor(e) ==
    /\ e.type = "anchor" /\ e.trace \in Traces
    /\ Push(e)
    /\ Report(e.hash \notin seen[e.trace].approved)
    /\ IF e.hash # NoHash
       THEN seen' = [seen EXCEPT ![e.trace].anchored = @ \cup {e.hash}]
       ELSE UNCHANGED seen

ReadClaimTakingAny(e) ==
    /\ e.type = "claim" /\ e.trace \in Traces
    /\ Push(e)
    /\ Report(e.hash \notin seen[e.trace].anchored)
    /\ IF e.hash # NoHash
       THEN seen' = [seen EXCEPT ![e.trace].claimed = @ \cup {e.hash}]
       ELSE UNCHANGED seen

ReadClaim(e) ==
    /\ e.type = "claim" /\ e.trace \in Traces
    /\ Push(e)
    /\ Report(e.hash \notin seen[e.trace].anchored)
    /\ IF e.says = "yes" /\ e.hash # NoHash
       THEN seen' = [seen EXCEPT ![e.trace].claimed = @ \cup {e.hash}]
       ELSE UNCHANGED seen

ReadReceiptOfNothing(e) ==
    /\ e.type = "receipt" /\ e.trace \in Traces
    /\ Push(e)
    /\ Report(e.hash \notin seen[e.trace].claimed)
    /\ seen' = [seen EXCEPT ![e.trace].executed = @ \cup {e.hash}]

ReadReceiptOfAnchored(e) ==
    /\ e.type = "receipt" /\ e.trace \in Traces
    /\ Push(e)
    /\ Report(e.hash \notin seen[e.trace].anchored)
    /\ IF e.hash # NoHash
       THEN seen' = [seen EXCEPT ![e.trace].executed = @ \cup {e.hash}]
       ELSE UNCHANGED seen

ReadReceipt(e) ==
    /\ e.type = "receipt" /\ e.trace \in Traces
    /\ Push(e)
    /\ Report(e.hash \notin seen[e.trace].claimed)
    /\ IF e.hash # NoHash
       THEN seen' = [seen EXCEPT ![e.trace].executed = @ \cup {e.hash}]
       ELSE UNCHANGED seen

ReadAudit(e) ==
    /\ e.type = "audit" /\ e.trace \in Traces
    /\ Push(e)
    /\ Report(e.says = "no" /\ seen[e.trace].executed = {})
    /\ UNCHANGED seen

Read(e) == \/ SkipEvent(e)
           \/ ReadUndecodable(e)
           \/ ReadProposal(e)
           \/ ReadDecision(e)
           \/ ReadAnchor(e)
           \/ ReadClaim(e)
           \/ ReadReceipt(e)
           \/ ReadAudit(e)

VerifyNext == /\ Len(events) < MaxEvents
              /\ Cardinality(errors) <= MaxFaults
              /\ \E e \in Event : Read(e)

VerifySpec == VerifyInit /\ [][VerifyNext]_verifyVars

-----------------------------------------------------------------------------
VerifyTypeOK == /\ events \in Seq(Event)
                /\ seen \in [Traces -> TraceState]
                /\ errors \subseteq DOMAIN events

(***************************************************************************)
(* verifyTraceState is exact: it reports the events that lack evidence and *)
(* no other, whatever other traces are interleaved with theirs, whatever   *)
(* stands before, and however many errors it has reported already.         *)
(***************************************************************************)
ReportsExactly == errors = Unfounded(events)

(***************************************************************************)
(* What an accepted session is worth: each receipt of a trace closes a     *)
(* chain of evidence in that trace and about that action, in this order:   *)
(* proposal, approval, anchor, successful claim.  verify checks only one   *)
(* link of it at a time.                                                   *)
(***************************************************************************)
AcceptedHasEvidence ==
    errors = {} =>
        \A j \in DOMAIN events :
            events[j].type = "receipt" /\ events[j].trace # NoTrace => EvidenceOf(events, j)
=============================================================================
