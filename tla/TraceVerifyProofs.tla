------------------------- MODULE TraceVerifyProofs -------------------------
(***************************************************************************)
(* TraceVerify for any traces, actions and bounds: the reader's state is   *)
(* what the log says, so its errors are the events without evidence, so a  *)
(* session without errors has the whole chain behind each receipt.         *)
(***************************************************************************)
EXTENDS TraceVerify, TLAPS

\* The actions an event of this kind was about, in this trace.
Said(log, kind, t) == {h \in Hashes : Before(log, Len(log) + 1, kind, t, h)}

\* What the reader holds for a trace is what stands in the log.
SeenExactly ==
    \A t \in Traces :
        /\ seen[t].proposal = "yes" <=> ProposedBefore(events, Len(events) + 1, t)
        /\ seen[t].approved = Said(events, "decision", t)
        /\ seen[t].anchored = Said(events, "anchor", t)
        /\ seen[t].claimed = Said(events, "claim", t)
        /\ seen[t].executed = Said(events, "receipt", t)

IInv == VerifyTypeOK /\ SeenExactly /\ ReportsExactly

-----------------------------------------------------------------------------
\* Every event has a kind, a trace, a hash and a word.
LEMMA EventFields ==
    ASSUME NEW e \in Event
    PROVE  /\ e.type \in Kinds
           /\ e.trace \in Traces \cup {NoTrace}
           /\ e.hash \in Hashes \cup {NoHash}
           /\ e.says \in {"yes", "no"}
  BY DEF Event, Traced, Untraced, Hash, Kinds

\* Appending an event adds it to the past and changes nothing in it.
LEMMA PastGrows ==
    ASSUME NEW log \in Seq(Event), NEW e \in Event, NEW log2, log2 = Append(log, e),
           NEW j \in 1 .. Len(log) + 1
    PROVE  /\ log2 \in Seq(Event)
           /\ Len(log2) = Len(log) + 1
           /\ DOMAIN log2 = DOMAIN log \cup {Len(log) + 1}
           /\ log2[Len(log) + 1] = e
           /\ \A i \in DOMAIN log : log2[i] = log[i]
           /\ \A kind, t, h : Before(log2, j, kind, t, h) <=> Before(log, j, kind, t, h)
           /\ \A t : ProposedBefore(log2, j, t) <=> ProposedBefore(log, j, t)
           /\ \A t : ExecutedBefore(log2, j, t) <=> ExecutedBefore(log, j, t)
<1>1. /\ log2 \in Seq(Event)
      /\ Len(log2) = Len(log) + 1
      /\ DOMAIN log2 = DOMAIN log \cup {Len(log) + 1}
      /\ log2[Len(log) + 1] = e
      /\ \A i \in DOMAIN log : log2[i] = log[i]
  OBVIOUS
<1>2. DOMAIN log = 1 .. Len(log) /\ Len(log) \in Nat
  OBVIOUS
<1>3. \A i \in DOMAIN log2 : i < j => i \in DOMAIN log
  BY <1>1, <1>2
<1>4. DOMAIN log \subseteq DOMAIN log2
  BY <1>1
<1>5. \A kind, t, h : Before(log2, j, kind, t, h) <=> Before(log, j, kind, t, h)
  BY <1>1, <1>3, <1>4 DEF Before
<1>6. \A t : ProposedBefore(log2, j, t) <=> ProposedBefore(log, j, t)
  BY <1>1, <1>3, <1>4 DEF ProposedBefore
<1>7. \A t : ExecutedBefore(log2, j, t) <=> ExecutedBefore(log, j, t)
  BY <1>1, <1>3, <1>4 DEF ExecutedBefore
<1> QED
  BY <1>1, <1>5, <1>6, <1>7

\* One event later, the past holds what it held and that event.
LEMMA PastWithLast ==
    ASSUME NEW log \in Seq(Event), NEW e \in Event, NEW log2, log2 = Append(log, e)
    PROVE  /\ \A kind, t, h :
                 Before(log2, Len(log) + 2, kind, t, h) <=>
                    \/ Before(log, Len(log) + 1, kind, t, h)
                    \/ /\ e.type = kind /\ e.trace = t /\ e.hash = h
                       /\ kind \in {"decision", "claim"} => e.says = "yes"
           /\ \A t : ProposedBefore(log2, Len(log) + 2, t) <=>
                        \/ ProposedBefore(log, Len(log) + 1, t)
                        \/ e.type = "proposal" /\ e.trace = t
<1>1. /\ DOMAIN log2 = DOMAIN log \cup {Len(log) + 1}
      /\ log2[Len(log) + 1] = e
      /\ \A i \in DOMAIN log : log2[i] = log[i]
      /\ DOMAIN log = 1 .. Len(log) /\ Len(log) \in Nat
  OBVIOUS
<1>2. /\ \A i \in DOMAIN log : i < Len(log) + 1 /\ i < Len(log) + 2
      /\ Len(log) + 1 < Len(log) + 2
  BY <1>1
<1>3. ASSUME NEW kind, NEW t, NEW h
      PROVE  Before(log2, Len(log) + 2, kind, t, h) <=>
                \/ Before(log, Len(log) + 1, kind, t, h)
                \/ /\ e.type = kind /\ e.trace = t /\ e.hash = h
                   /\ kind \in {"decision", "claim"} => e.says = "yes"
  BY <1>1, <1>2 DEF Before
<1>4. ASSUME NEW t
      PROVE  ProposedBefore(log2, Len(log) + 2, t) <=>
                \/ ProposedBefore(log, Len(log) + 1, t)
                \/ e.type = "proposal" /\ e.trace = t
  BY <1>1, <1>2 DEF ProposedBefore
<1> QED
  BY <1>3, <1>4

-----------------------------------------------------------------------------
\* An event that was read keeps its verdict.
LEMMA VerdictKept ==
    ASSUME NEW log \in Seq(Event), NEW e \in Event, NEW j \in DOMAIN log
    PROVE  Founded(Append(log, e), j) <=> Founded(log, j)
<1> DEFINE log2 == Append(log, e)
<1>1. j \in 1 .. Len(log) + 1 /\ log2 = Append(log, e)
  OBVIOUS
<1> HIDE DEF log2
<1>2. log2[j] = log[j]
  BY <1>1, PastGrows
<1>3. \A kind, t, h : Before(log2, j, kind, t, h) <=> Before(log, j, kind, t, h)
  BY <1>1, PastGrows
<1>4. \A t : ProposedBefore(log2, j, t) <=> ProposedBefore(log, j, t)
  BY <1>1, PastGrows
<1>5. \A t : ExecutedBefore(log2, j, t) <=> ExecutedBefore(log, j, t)
  BY <1>1, PastGrows
<1>6. Founded(log2, j) <=> Founded(log, j)
  BY <1>2, <1>3, <1>4, <1>5 DEF Founded
<1> QED
  BY <1>6 DEF log2

\* What is asked of the event read last is asked of the log before it.
LEMMA LastVerdict ==
    ASSUME NEW log \in Seq(Event), NEW e \in Event,
           NEW n, n = Len(log) + 1
    PROVE  Founded(Append(log, e), n) <=>
              /\ e.type # "undecodable"
              /\ e.trace # NoTrace =>
                    /\ e.type = "decision" => ProposedBefore(log, n, e.trace)
                    /\ e.type = "anchor" => /\ e.hash # NoHash
                                            /\ Before(log, n, "decision", e.trace, e.hash)
                    /\ e.type = "claim" => /\ e.hash # NoHash
                                           /\ Before(log, n, "anchor", e.trace, e.hash)
                    /\ e.type = "receipt" => /\ e.hash # NoHash
                                             /\ Before(log, n, "claim", e.trace, e.hash)
                    /\ e.type = "audit" => e.says = "yes" \/ ExecutedBefore(log, n, e.trace)
<1> DEFINE log2 == Append(log, e)
<1>1. n \in 1 .. Len(log) + 1
  OBVIOUS
<1>2. /\ log2[n] = e
      /\ \A kind, t, h : Before(log2, n, kind, t, h) <=> Before(log, n, kind, t, h)
      /\ \A t : ProposedBefore(log2, n, t) <=> ProposedBefore(log, n, t)
      /\ \A t : ExecutedBefore(log2, n, t) <=> ExecutedBefore(log, n, t)
  BY <1>1, PastGrows
<1> HIDE DEF log2
<1>3. e.type \in Kinds
  BY EventFields
<1>4. CASE e.type \in {"proposal", "other", "undecodable"}
  <2>1. Founded(log2, n) <=> e.type # "undecodable"
    BY <1>2, <1>4 DEF Founded
  <2> QED
    BY <2>1, <1>4 DEF log2
<1>5. CASE e.type = "decision"
  BY <1>2, <1>5 DEF Founded, log2
<1>6. CASE e.type = "anchor"
  BY <1>2, <1>6 DEF Founded, log2
<1>7. CASE e.type = "claim"
  BY <1>2, <1>7 DEF Founded, log2
<1>8. CASE e.type = "receipt"
  BY <1>2, <1>8 DEF Founded, log2
<1>9. CASE e.type = "audit"
  BY <1>2, <1>9 DEF Founded, log2
<1> QED
  BY <1>3, <1>4, <1>5, <1>6, <1>7, <1>8, <1>9 DEF Kinds

\* An error pushed for the events without evidence keeps the report exact.
LEMMA ReportKept ==
    ASSUME IInv, NEW e \in Event, NEW faulty \in BOOLEAN, Push(e), Report(faulty),
           faulty <=> ~Founded(Append(events, e), Len(events) + 1)
    PROVE  /\ ReportsExactly'
           /\ events' \in Seq(Event)
           /\ errors' \subseteq DOMAIN events'
<1>1. /\ events \in Seq(Event)
      /\ errors \subseteq DOMAIN events
      /\ errors = {j \in DOMAIN events : ~Founded(events, j)}
      /\ events' = Append(events, e)
      /\ errors' = IF faulty THEN errors \cup {Len(events) + 1} ELSE errors
  BY DEF IInv, VerifyTypeOK, ReportsExactly, Unfounded, Push, Report
<1>2. /\ events' \in Seq(Event)
      /\ DOMAIN events' = DOMAIN events \cup {Len(events) + 1}
      /\ Len(events) + 1 \notin DOMAIN events
  BY <1>1
<1>3. \A j \in DOMAIN events : Founded(events', j) <=> Founded(events, j)
  BY <1>1, VerdictKept
<1>4. faulty <=> ~Founded(events', Len(events) + 1)
  BY <1>1
<1>5. errors' = {j \in DOMAIN events' : ~Founded(events', j)}
  BY <1>1, <1>2, <1>3, <1>4
<1>6. Unfounded(events)' = {j \in DOMAIN events' : ~Founded(events', j)}
  BY DEF Unfounded
<1> QED
  BY <1>1, <1>2, <1>5, <1>6 DEF ReportsExactly

\* What the log says of each trace after one more event.
LEMMA SaidGrows ==
    ASSUME NEW log \in Seq(Event), NEW e \in Event, NEW t, NEW kind
    PROVE  Said(Append(log, e), kind, t) =
              IF /\ e.type = kind /\ e.trace = t
                 /\ kind \in {"decision", "claim"} => e.says = "yes"
              THEN Said(log, kind, t) \cup ({e.hash} \cap Hashes)
              ELSE Said(log, kind, t)
<1> DEFINE log2 == Append(log, e)
<1>1. Len(log2) + 1 = Len(log) + 2
  OBVIOUS
<1>2. \A h : Before(log2, Len(log) + 2, kind, t, h) <=>
                \/ Before(log, Len(log) + 1, kind, t, h)
                \/ /\ e.type = kind /\ e.trace = t /\ e.hash = h
                   /\ kind \in {"decision", "claim"} => e.says = "yes"
  BY PastWithLast
<1> HIDE DEF log2
<1>3. Said(log2, kind, t) = IF /\ e.type = kind /\ e.trace = t
                               /\ kind \in {"decision", "claim"} => e.says = "yes"
                            THEN Said(log, kind, t) \cup ({e.hash} \cap Hashes)
                            ELSE Said(log, kind, t)
  BY <1>1, <1>2 DEF Said
<1> QED
  BY <1>3 DEF log2

\* Reading an event adds to what the reader holds for its trace what it says.
LEMMA SeenKept ==
    ASSUME IInv, NEW e \in Event, Read(e)
    PROVE  SeenExactly' /\ seen' \in [Traces -> TraceState]
<1> DEFINE n == Len(events) + 1
<1>1. /\ events \in Seq(Event) /\ events' = Append(events, e)
      /\ seen \in [Traces -> TraceState]
  BY DEF IInv, VerifyTypeOK, Read, Push, SkipEvent, ReadUndecodable, ReadProposal,
         ReadDecision, ReadAnchor, ReadClaim, ReadReceipt, ReadAudit
<1>2. e.type \in Kinds /\ e.hash \in Hashes \cup {NoHash} /\ e.says \in {"yes", "no"}
      /\ e.trace \in Traces \cup {NoTrace}
  BY EventFields
<1>3. ASSUME NEW t \in Traces
      PROVE  /\ ProposedBefore(events', Len(events') + 1, t) <=>
                   seen[t].proposal = "yes" \/ (e.type = "proposal" /\ e.trace = t)
             /\ Said(events', "decision", t) =
                   IF e.type = "decision" /\ e.trace = t /\ e.says = "yes"
                   THEN seen[t].approved \cup ({e.hash} \cap Hashes) ELSE seen[t].approved
             /\ Said(events', "anchor", t) =
                   IF e.type = "anchor" /\ e.trace = t
                   THEN seen[t].anchored \cup ({e.hash} \cap Hashes) ELSE seen[t].anchored
             /\ Said(events', "claim", t) =
                   IF e.type = "claim" /\ e.trace = t /\ e.says = "yes"
                   THEN seen[t].claimed \cup ({e.hash} \cap Hashes) ELSE seen[t].claimed
             /\ Said(events', "receipt", t) =
                   IF e.type = "receipt" /\ e.trace = t
                   THEN seen[t].executed \cup ({e.hash} \cap Hashes) ELSE seen[t].executed
  <2>1. Len(events') + 1 = Len(events) + 2
    BY <1>1
  <2>2. ProposedBefore(events', Len(events) + 2, t) <=>
           ProposedBefore(events, Len(events) + 1, t) \/ (e.type = "proposal" /\ e.trace = t)
    BY <1>1, PastWithLast
  <2>3. ProposedBefore(events', Len(events') + 1, t) <=>
           seen[t].proposal = "yes" \/ (e.type = "proposal" /\ e.trace = t)
    BY <2>1, <2>2 DEF IInv, SeenExactly
  <2>4. Said(events', "decision", t) =
           IF e.type = "decision" /\ e.trace = t /\ e.says = "yes"
           THEN seen[t].approved \cup ({e.hash} \cap Hashes) ELSE seen[t].approved
    BY <1>1, SaidGrows DEF IInv, SeenExactly
  <2>5. Said(events', "anchor", t) =
           IF e.type = "anchor" /\ e.trace = t
           THEN seen[t].anchored \cup ({e.hash} \cap Hashes) ELSE seen[t].anchored
    BY <1>1, SaidGrows DEF IInv, SeenExactly
  <2>6. Said(events', "claim", t) =
           IF e.type = "claim" /\ e.trace = t /\ e.says = "yes"
           THEN seen[t].claimed \cup ({e.hash} \cap Hashes) ELSE seen[t].claimed
    BY <1>1, SaidGrows DEF IInv, SeenExactly
  <2>7. Said(events', "receipt", t) =
           IF e.type = "receipt" /\ e.trace = t
           THEN seen[t].executed \cup ({e.hash} \cap Hashes) ELSE seen[t].executed
    BY <1>1, SaidGrows DEF IInv, SeenExactly
  <2> QED
    BY <2>3, <2>4, <2>5, <2>6, <2>7
<1>4. ASSUME NEW t \in Traces
      PROVE  /\ seen'[t].proposal = "yes" <=>
                   seen[t].proposal = "yes" \/ (e.type = "proposal" /\ e.trace = t)
             /\ seen'[t].approved =
                   IF e.type = "decision" /\ e.trace = t /\ e.says = "yes"
                   THEN seen[t].approved \cup ({e.hash} \cap Hashes) ELSE seen[t].approved
             /\ seen'[t].anchored =
                   IF e.type = "anchor" /\ e.trace = t
                   THEN seen[t].anchored \cup ({e.hash} \cap Hashes) ELSE seen[t].anchored
             /\ seen'[t].claimed =
                   IF e.type = "claim" /\ e.trace = t /\ e.says = "yes"
                   THEN seen[t].claimed \cup ({e.hash} \cap Hashes) ELSE seen[t].claimed
             /\ seen'[t].executed =
                   IF e.type = "receipt" /\ e.trace = t
                   THEN seen[t].executed \cup ({e.hash} \cap Hashes) ELSE seen[t].executed
             /\ seen'[t] \in TraceState
  <2>1. seen[t] \in TraceState
    BY <1>1
  <2>2. {e.hash} \cap Hashes = IF e.hash # NoHash THEN {e.hash} ELSE {}
    BY <1>2, VerifyNames
  <2>3. CASE SkipEvent(e) \/ ReadUndecodable(e) \/ ReadAudit(e)
    <3>1. seen' = seen
      BY <2>3 DEF SkipEvent, ReadUndecodable, ReadAudit
    <3>2. e.trace = t => e.type \in {"other", "undecodable", "audit"}
      BY <2>3, VerifyNames DEF SkipEvent, ReadUndecodable, ReadAudit
    <3> QED
      BY <2>1, <3>1, <3>2
  <2>4. CASE ReadProposal(e)
    BY <1>1, <2>1, <2>4 DEF ReadProposal, TraceState
  <2>5. CASE ReadDecision(e)
    <3>1. CASE e.trace = t /\ e.hash # NoHash /\ e.says = "yes"
      <4>1. seen'[t] = [seen[t] EXCEPT !.approved = seen[t].approved \cup {e.hash}]
        BY <1>1, <2>5, <3>1 DEF ReadDecision
      <4>2. e.type = "decision" /\ e.hash \in Hashes /\ {e.hash} \cap Hashes = {e.hash}
        BY <1>2, <2>2, <2>5, <3>1 DEF ReadDecision
      <4>3. seen'[t] \in TraceState
        BY <2>1, <4>1, <4>2 DEF TraceState
      <4>4. seen[t] = [proposal |-> seen[t].proposal, approved |-> seen[t].approved,
                       anchored |-> seen[t].anchored, claimed |-> seen[t].claimed,
                       executed |-> seen[t].executed]
        BY <2>1 DEF TraceState
      <4> QED
        BY <3>1, <4>1, <4>2, <4>3, <4>4
    <3>2. CASE ~(e.trace = t /\ e.hash # NoHash /\ e.says = "yes")
      <4>1. seen'[t] = seen[t]
        BY <1>1, <2>5, <3>2 DEF ReadDecision
      <4> QED
        BY <2>1, <2>2, <2>5, <3>2, <4>1 DEF ReadDecision
    <3> QED
      BY <3>1, <3>2
  <2>6. CASE ReadAnchor(e)
    <3>1. CASE e.trace = t /\ e.hash # NoHash
      <4>1. seen'[t] = [seen[t] EXCEPT !.anchored = seen[t].anchored \cup {e.hash}]
        BY <1>1, <2>6, <3>1 DEF ReadAnchor
      <4>2. e.type = "anchor" /\ e.hash \in Hashes /\ {e.hash} \cap Hashes = {e.hash}
        BY <1>2, <2>2, <2>6, <3>1 DEF ReadAnchor
      <4>3. seen'[t] \in TraceState
        BY <2>1, <4>1, <4>2 DEF TraceState
      <4>4. seen[t] = [proposal |-> seen[t].proposal, approved |-> seen[t].approved,
                       anchored |-> seen[t].anchored, claimed |-> seen[t].claimed,
                       executed |-> seen[t].executed]
        BY <2>1 DEF TraceState
      <4> QED
        BY <3>1, <4>1, <4>2, <4>3, <4>4
    <3>2. CASE ~(e.trace = t /\ e.hash # NoHash)
      <4>1. seen'[t] = seen[t]
        BY <1>1, <2>6, <3>2 DEF ReadAnchor
      <4> QED
        BY <2>1, <2>2, <2>6, <3>2, <4>1 DEF ReadAnchor
    <3> QED
      BY <3>1, <3>2
  <2>7. CASE ReadClaim(e)
    <3>1. CASE e.trace = t /\ e.hash # NoHash /\ e.says = "yes"
      <4>1. seen'[t] = [seen[t] EXCEPT !.claimed = seen[t].claimed \cup {e.hash}]
        BY <1>1, <2>7, <3>1 DEF ReadClaim
      <4>2. e.type = "claim" /\ e.hash \in Hashes /\ {e.hash} \cap Hashes = {e.hash}
        BY <1>2, <2>2, <2>7, <3>1 DEF ReadClaim
      <4>3. seen'[t] \in TraceState
        BY <2>1, <4>1, <4>2 DEF TraceState
      <4>4. seen[t] = [proposal |-> seen[t].proposal, approved |-> seen[t].approved,
                       anchored |-> seen[t].anchored, claimed |-> seen[t].claimed,
                       executed |-> seen[t].executed]
        BY <2>1 DEF TraceState
      <4> QED
        BY <3>1, <4>1, <4>2, <4>3, <4>4
    <3>2. CASE ~(e.trace = t /\ e.hash # NoHash /\ e.says = "yes")
      <4>1. seen'[t] = seen[t]
        BY <1>1, <2>7, <3>2 DEF ReadClaim
      <4> QED
        BY <2>1, <2>2, <2>7, <3>2, <4>1 DEF ReadClaim
    <3> QED
      BY <3>1, <3>2
  <2>8. CASE ReadReceipt(e)
    <3>1. CASE e.trace = t /\ e.hash # NoHash
      <4>1. seen'[t] = [seen[t] EXCEPT !.executed = seen[t].executed \cup {e.hash}]
        BY <1>1, <2>8, <3>1 DEF ReadReceipt
      <4>2. e.type = "receipt" /\ e.hash \in Hashes /\ {e.hash} \cap Hashes = {e.hash}
        BY <1>2, <2>2, <2>8, <3>1 DEF ReadReceipt
      <4>3. seen'[t] \in TraceState
        BY <2>1, <4>1, <4>2 DEF TraceState
      <4>4. seen[t] = [proposal |-> seen[t].proposal, approved |-> seen[t].approved,
                       anchored |-> seen[t].anchored, claimed |-> seen[t].claimed,
                       executed |-> seen[t].executed]
        BY <2>1 DEF TraceState
      <4> QED
        BY <3>1, <4>1, <4>2, <4>3, <4>4
    <3>2. CASE ~(e.trace = t /\ e.hash # NoHash)
      <4>1. seen'[t] = seen[t]
        BY <1>1, <2>8, <3>2 DEF ReadReceipt
      <4> QED
        BY <2>1, <2>2, <2>8, <3>2, <4>1 DEF ReadReceipt
    <3> QED
      BY <3>1, <3>2
  <2> QED
    BY <2>3, <2>4, <2>5, <2>6, <2>7, <2>8 DEF Read
<1>5. seen' = [t \in Traces |-> seen'[t]]
  BY <1>1 DEF Read, SkipEvent, ReadUndecodable, ReadProposal, ReadDecision, ReadAnchor,
              ReadClaim, ReadReceipt, ReadAudit
<1>6. seen' \in [Traces -> TraceState]
  BY <1>4, <1>5
<1>7. ASSUME NEW t \in Traces
      PROVE  /\ seen'[t].proposal = "yes" <=> ProposedBefore(events', Len(events') + 1, t)
             /\ seen'[t].approved = Said(events', "decision", t)
             /\ seen'[t].anchored = Said(events', "anchor", t)
             /\ seen'[t].claimed = Said(events', "claim", t)
             /\ seen'[t].executed = Said(events', "receipt", t)
  <2>1. seen'[t].proposal = "yes" <=> ProposedBefore(events', Len(events') + 1, t)
    BY <1>3, <1>4
  <2>2. seen'[t].approved = Said(events', "decision", t)
    <3>1. Said(events', "decision", t) =
             IF e.type = "decision" /\ e.trace = t /\ e.says = "yes"
             THEN seen[t].approved \cup ({e.hash} \cap Hashes) ELSE seen[t].approved
      BY <1>3
    <3>2. seen'[t].approved =
             IF e.type = "decision" /\ e.trace = t /\ e.says = "yes"
             THEN seen[t].approved \cup ({e.hash} \cap Hashes) ELSE seen[t].approved
      BY <1>4
    <3> QED
      BY <3>1, <3>2
  <2>3. seen'[t].anchored = Said(events', "anchor", t)
    <3>1. Said(events', "anchor", t) =
             IF e.type = "anchor" /\ e.trace = t
             THEN seen[t].anchored \cup ({e.hash} \cap Hashes) ELSE seen[t].anchored
      BY <1>3
    <3>2. seen'[t].anchored =
             IF e.type = "anchor" /\ e.trace = t
             THEN seen[t].anchored \cup ({e.hash} \cap Hashes) ELSE seen[t].anchored
      BY <1>4
    <3> QED
      BY <3>1, <3>2
  <2>4. seen'[t].claimed = Said(events', "claim", t)
    <3>1. Said(events', "claim", t) =
             IF e.type = "claim" /\ e.trace = t /\ e.says = "yes"
             THEN seen[t].claimed \cup ({e.hash} \cap Hashes) ELSE seen[t].claimed
      BY <1>3
    <3>2. seen'[t].claimed =
             IF e.type = "claim" /\ e.trace = t /\ e.says = "yes"
             THEN seen[t].claimed \cup ({e.hash} \cap Hashes) ELSE seen[t].claimed
      BY <1>4
    <3> QED
      BY <3>1, <3>2
  <2>5. seen'[t].executed = Said(events', "receipt", t)
    <3>1. Said(events', "receipt", t) =
             IF e.type = "receipt" /\ e.trace = t
             THEN seen[t].executed \cup ({e.hash} \cap Hashes) ELSE seen[t].executed
      BY <1>3
    <3>2. seen'[t].executed =
             IF e.type = "receipt" /\ e.trace = t
             THEN seen[t].executed \cup ({e.hash} \cap Hashes) ELSE seen[t].executed
      BY <1>4
    <3> QED
      BY <3>1, <3>2
  <2> QED
    BY <2>1, <2>2, <2>3, <2>4, <2>5
<1>8. SeenExactly'
  BY <1>7 DEF SeenExactly
<1> QED
  BY <1>6, <1>8

-----------------------------------------------------------------------------
\* Each event is reported exactly when it lacks its evidence.
LEMMA ReadStep ==
    ASSUME IInv, NEW e \in Event, Read(e)
    PROVE  IInv'
<1> DEFINE n == Len(events) + 1
           faulty == ~Founded(Append(events, e), n)
<1>1. events \in Seq(Event) /\ n = Len(events) + 1 /\ n \in Nat
  BY DEF IInv, VerifyTypeOK
<1>2. /\ e.type \in Kinds /\ e.trace \in Traces \cup {NoTrace}
      /\ e.hash \in Hashes \cup {NoHash} /\ e.says \in {"yes", "no"}
  BY EventFields
<1>3. Founded(Append(events, e), n) <=>
         /\ e.type # "undecodable"
         /\ e.trace # NoTrace =>
               /\ e.type = "decision" => ProposedBefore(events, n, e.trace)
               /\ e.type = "anchor" => /\ e.hash # NoHash
                                       /\ Before(events, n, "decision", e.trace, e.hash)
               /\ e.type = "claim" => /\ e.hash # NoHash
                                      /\ Before(events, n, "anchor", e.trace, e.hash)
               /\ e.type = "receipt" => /\ e.hash # NoHash
                                        /\ Before(events, n, "claim", e.trace, e.hash)
               /\ e.type = "audit" => e.says = "yes" \/ ExecutedBefore(events, n, e.trace)
  BY <1>1, LastVerdict
<1>4. ASSUME e.trace \in Traces
      PROVE  /\ seen[e.trace] \in TraceState
             /\ seen[e.trace].proposal = "yes" <=> ProposedBefore(events, n, e.trace)
             /\ e.hash \in seen[e.trace].approved <=>
                   e.hash # NoHash /\ Before(events, n, "decision", e.trace, e.hash)
             /\ e.hash \in seen[e.trace].anchored <=>
                   e.hash # NoHash /\ Before(events, n, "anchor", e.trace, e.hash)
             /\ e.hash \in seen[e.trace].claimed <=>
                   e.hash # NoHash /\ Before(events, n, "claim", e.trace, e.hash)
             /\ seen[e.trace].executed = {h \in Hashes : Before(events, n, "receipt", e.trace, h)}
  <2>1. seen[e.trace] \in TraceState
    BY <1>4 DEF IInv, VerifyTypeOK
  <2>2. e.hash \in Hashes <=> e.hash # NoHash
    BY <1>2, VerifyNames
  <2>3. /\ seen[e.trace].proposal = "yes" <=> ProposedBefore(events, n, e.trace)
        /\ seen[e.trace].approved = {h \in Hashes : Before(events, n, "decision", e.trace, h)}
        /\ seen[e.trace].anchored = {h \in Hashes : Before(events, n, "anchor", e.trace, h)}
        /\ seen[e.trace].claimed = {h \in Hashes : Before(events, n, "claim", e.trace, h)}
        /\ seen[e.trace].executed = {h \in Hashes : Before(events, n, "receipt", e.trace, h)}
    BY <1>4 DEF IInv, SeenExactly, Said
  <2> QED
    BY <2>1, <2>2, <2>3
<1>5. ASSUME e.trace \in Traces
      PROVE  seen[e.trace].executed = {} <=> ~ExecutedBefore(events, n, e.trace)
  <2>1. \A i \in DOMAIN events : events[i].hash \in Hashes <=> events[i].hash # NoHash
    BY <1>1, EventFields, VerifyNames
  <2>2. ExecutedBefore(events, n, e.trace) <=>
           \E h \in Hashes : Before(events, n, "receipt", e.trace, h)
    BY <2>1 DEF ExecutedBefore, Before
  <2> QED
    BY <1>4, <1>5, <2>2
<1>6. Push(e) /\ Report(faulty)
  <2>1. CASE SkipEvent(e)
    <3>1. ~faulty
      BY <1>2, <1>3, <2>1 DEF SkipEvent
    <3> QED
      BY <2>1, <3>1 DEF SkipEvent, Report
  <2>2. CASE ReadUndecodable(e)
    <3>1. faulty
      BY <1>3, <2>2 DEF ReadUndecodable
    <3> QED
      BY <2>2, <3>1 DEF ReadUndecodable, Report
  <2>3. CASE ReadProposal(e)
    <3>1. ~faulty
      BY <1>3, <2>3 DEF ReadProposal
    <3> QED
      BY <2>3, <3>1 DEF ReadProposal, Report
  <2>4. CASE ReadDecision(e)
    <3>1. e.trace \in Traces /\ e.trace # NoTrace /\ e.type = "decision"
      BY <2>4, VerifyNames DEF ReadDecision
    <3>2. seen[e.trace].proposal \in {"yes", "no"}
      BY <1>4, <3>1 DEF TraceState
    <3>3. faulty <=> seen[e.trace].proposal = "no"
      BY <1>3, <1>4, <3>1, <3>2
    <3> QED
      BY <2>4, <3>3 DEF ReadDecision, Report
  <2>5. CASE ReadAnchor(e)
    <3>1. e.trace \in Traces /\ e.trace # NoTrace /\ e.type = "anchor"
      BY <2>5, VerifyNames DEF ReadAnchor
    <3>2. faulty <=> e.hash \notin seen[e.trace].approved
      BY <1>3, <1>4, <3>1
    <3> QED
      BY <2>5, <3>2 DEF ReadAnchor, Report
  <2>6. CASE ReadClaim(e)
    <3>1. e.trace \in Traces /\ e.trace # NoTrace /\ e.type = "claim"
      BY <2>6, VerifyNames DEF ReadClaim
    <3>2. faulty <=> e.hash \notin seen[e.trace].anchored
      BY <1>3, <1>4, <3>1
    <3> QED
      BY <2>6, <3>2 DEF ReadClaim, Report
  <2>7. CASE ReadReceipt(e)
    <3>1. e.trace \in Traces /\ e.trace # NoTrace /\ e.type = "receipt"
      BY <2>7, VerifyNames DEF ReadReceipt
    <3>2. faulty <=> e.hash \notin seen[e.trace].claimed
      BY <1>3, <1>4, <3>1
    <3> QED
      BY <2>7, <3>2 DEF ReadReceipt, Report
  <2>8. CASE ReadAudit(e)
    <3>1. e.trace \in Traces /\ e.trace # NoTrace /\ e.type = "audit"
      BY <2>8, VerifyNames DEF ReadAudit
    <3>2. faulty <=> e.says = "no" /\ seen[e.trace].executed = {}
      BY <1>2, <1>3, <1>5, <3>1
    <3> QED
      BY <2>8, <3>2 DEF ReadAudit, Report
  <2> QED
    BY <2>1, <2>2, <2>3, <2>4, <2>5, <2>6, <2>7, <2>8 DEF Read
<1>7. ReportsExactly' /\ events' \in Seq(Event) /\ errors' \subseteq DOMAIN events'
  <2>1. faulty \in BOOLEAN
    BY <1>3
  <2> HIDE DEF faulty
  <2> QED
    BY <1>6, <2>1, ReportKept DEF faulty
<1>8. SeenExactly' /\ seen' \in [Traces -> TraceState]
  BY SeenKept
<1> QED
  BY <1>7, <1>8 DEF IInv, VerifyTypeOK

LEMMA InitInv == VerifyInit => IInv
<1> SUFFICES ASSUME VerifyInit PROVE IInv
  OBVIOUS
<1>1. events = << >> /\ events \in Seq(Event) /\ DOMAIN events = {}
  BY DEF VerifyInit
<1>2. VerifyTypeOK
  BY <1>1 DEF VerifyInit, VerifyTypeOK, FreshState, TraceState
<1>3. ReportsExactly
  BY <1>1 DEF VerifyInit, ReportsExactly, Unfounded
<1>4. SeenExactly
  BY <1>1 DEF VerifyInit, SeenExactly, Said, Before, ProposedBefore, FreshState
<1> QED
  BY <1>2, <1>3, <1>4 DEF IInv

LEMMA Invariance == VerifySpec => []IInv
<1>1. ASSUME IInv, [VerifyNext]_verifyVars PROVE IInv'
  <2>1. CASE VerifyNext
    BY <1>1, <2>1, ReadStep DEF VerifyNext
  <2>2. CASE UNCHANGED verifyVars
    BY <1>1, <2>2 DEF verifyVars, IInv, VerifyTypeOK, SeenExactly, Said, ReportsExactly
  <2> QED
    BY <1>1, <2>1, <2>2
<1> QED
  BY InitInv, <1>1, PTL DEF VerifySpec

(***************************************************************************)
(* Whatever events a session holds, the reader's state keeps its shape and *)
(* errors are pushed for events that were read, for any traces and hashes. *)
(***************************************************************************)
THEOREM VerifyTypeCorrect == VerifySpec => []VerifyTypeOK
<1>1. IInv => VerifyTypeOK
  BY DEF IInv
<1> QED
  BY Invariance, <1>1, PTL

(***************************************************************************)
(* verifyTraceState reports the events that lack evidence and no others,   *)
(* for sessions of any length, of any traces and about any actions.        *)
(***************************************************************************)
THEOREM ReportIsExact == VerifySpec => []ReportsExactly
<1>1. IInv => ReportsExactly
  BY DEF IInv
<1> QED
  BY Invariance, <1>1, PTL

\* In a log where every event is founded, links join into chains.
LEMMA FoundedChains ==
    ASSUME NEW log \in Seq(Event), NEW j \in DOMAIN log,
           \A i \in DOMAIN log : Founded(log, i),
           log[j].type = "receipt", log[j].trace # NoTrace
    PROVE  EvidenceOf(log, j)
<1> DEFINE t == log[j].trace
           h == log[j].hash
<1>1. h # NoHash /\ Before(log, j, "claim", t, h)
  BY DEF Founded
<1>2. PICK c \in DOMAIN log : /\ c < j /\ log[c].type = "claim" /\ log[c].trace = t
                              /\ log[c].hash = h /\ log[c].says = "yes"
  BY <1>1 DEF Before
<1>3. Before(log, c, "anchor", t, h)
  BY <1>2 DEF Founded
<1>4. PICK a \in DOMAIN log : /\ a < c /\ log[a].type = "anchor" /\ log[a].trace = t
                              /\ log[a].hash = h
  BY <1>3 DEF Before
<1>5. Before(log, a, "decision", t, h)
  BY <1>4 DEF Founded
<1>6. PICK d \in DOMAIN log : /\ d < a /\ log[d].type = "decision" /\ log[d].trace = t
                              /\ log[d].hash = h /\ log[d].says = "yes"
  BY <1>5 DEF Before
<1>7. ProposedBefore(log, d, t)
  BY <1>6 DEF Founded
<1>8. PICK p \in DOMAIN log : p < d /\ log[p].type = "proposal" /\ log[p].trace = t
  BY <1>7 DEF ProposedBefore
<1> QED
  BY <1>2, <1>4, <1>6, <1>8 DEF EvidenceOf

(***************************************************************************)
(* A session verifyTraceState accepts has proposal, approval, anchor and   *)
(* successful claim behind every receipt, in that order, in its trace and  *)
(* about its action.                                                       *)
(***************************************************************************)
THEOREM AcceptanceIsEvidence == VerifySpec => []AcceptedHasEvidence
<1>1. ASSUME IInv PROVE AcceptedHasEvidence
  <2> SUFFICES ASSUME errors = {}, NEW j \in DOMAIN events,
                      events[j].type = "receipt", events[j].trace # NoTrace
               PROVE  EvidenceOf(events, j)
    BY DEF AcceptedHasEvidence
  <2>1. events \in Seq(Event) /\ \A i \in DOMAIN events : Founded(events, i)
    BY <1>1 DEF IInv, VerifyTypeOK, ReportsExactly, Unfounded
  <2> QED
    BY <2>1, FoundedChains
<1> QED
  BY Invariance, <1>1, PTL
=============================================================================
