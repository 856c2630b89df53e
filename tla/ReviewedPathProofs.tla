------------------------- MODULE ReviewedPathProofs -------------------------
(***************************************************************************)
(* ReviewedPath, for any number of actions, executors and events, and any  *)
(* transactions, manifests, registries and policies.  Each step is a step  *)
(* of the heavy path and of the review, or leaves one of them alone, so    *)
(* that what was proved of each holds of both together.  What joins them   *)
(* is the list of approvals: the approving decisions in the session are    *)
(* those listed, and each was given for a policy the transaction keeps to. *)
(***************************************************************************)
EXTENDS ReviewedPath, HeavyPathProofs, ActionReviewProofs

ApprovingDecision(e) ==
    e.type = "decision" /\ e.says = "yes" /\ e.trace = Reviewed /\ e.hash = Reviewed

\* The list of approvals is that of the approving decisions in the session.
ApprovalsListed ==
    /\ \A a \in approvals : Approves(a)
    /\ \A d \in DOMAIN session : ApprovingDecision(session[d]) => \E a \in approvals : a.at = d

\* What was approved is under review still, and what the approval says is true of it.
ApprovalsHold ==
    /\ \A a \in approvals : KeptTo(a.policy)
    /\ approvals # {} => phase = "inspected"

\* The transaction under review is the one behind the hash.
DraftIsReviewed == UnderReview => action.manifest = draft.manifest

\* Nobody was granted a claim before an approval was recorded.
GrantsRest == \A h \in Hashes : grants[h] # << >> => Recorded("decision", h)

\* The anchor ends with the manifest, and no run began later.
EndsInTime ==
    /\ anchors[Reviewed].status # "absent" => anchors[Reviewed].expires = draft.manifest.expires
    /\ \A x \in Executors : Running(x) => call[x].at < draft.manifest.expires

PathInv == /\ IInv /\ ReviewInv
           /\ draft \in Drafts /\ DraftIsReviewed
           /\ ApprovalsListed /\ ApprovalsHold
           /\ GrantsRest /\ EndsInTime

-----------------------------------------------------------------------------
(***************************************************************************)
(* A step of the path is a step of each component, or none of its steps.   *)
(***************************************************************************)
LEMMA HeavySide ==
    ASSUME draft \in Drafts, [PathNext]_pathVars
    PROVE  [HeavyNext]_heavyVars
<1>1. Reviewed \in Hashes /\ draft.manifest.expires \in Expiries
  BY ReviewedAssumption
<1>2. CASE SubmitReviewed
  BY <1>1, <1>2 DEF SubmitReviewed, HeavyNext, CoordinatorStep
<1>3. CASE RefuseReviewed
  BY <1>3 DEF RefuseReviewed
<1>4. CASE ReviewReviewed
  BY <1>4 DEF ReviewReviewed
<1>5. CASE DecideReviewed
  <2>1. RecordDecision(Reviewed, Verdict) /\ Verdict \in {"yes", "no"}
    BY <1>5 DEF DecideReviewed, Verdict
  <2> QED
    BY <1>1, <2>1 DEF HeavyNext, CoordinatorStep, Decide
<1>6. CASE PathOn
  <2>1. CASE AnchorReviewed
    BY <1>1, <2>1 DEF AnchorReviewed, AnchorOnGuard, HeavyNext, CoordinatorStep
  <2>2. CASE RecordAnchor(Reviewed)
    BY <1>1, <2>2 DEF HeavyNext, CoordinatorStep
  <2> QED
    BY <1>6, <2>1, <2>2 DEF PathOn, HeavyNext
<1>7. CASE UNCHANGED pathVars
  BY <1>7 DEF pathVars
<1> QED
  BY <1>2, <1>3, <1>4, <1>5, <1>6, <1>7 DEF PathNext

LEMMA DraftProposed ==
    ASSUME draft \in Drafts, ProposeDraft
    PROVE  ReviewNext
<1>1. CASE draft \in {Draft(p, PlanPtb(p), PlanManifest(p)) :
                         p \in {q \in Plans : PlanValid(q) /\ Buildable(q)}}
  <2>1. PICK p \in Plans : /\ PlanValid(p) /\ Buildable(p)
                           /\ draft = Draft(p, PlanPtb(p), PlanManifest(p))
    BY <1>1
  <2>2. draft.from = p /\ draft.ptb = PlanPtb(p) /\ draft.manifest = PlanManifest(p)
    BY <2>1 DEF Draft
  <2>3. ProposePtb(p, PlanPtb(p), PlanManifest(p))
    BY <2>2 DEF ProposeDraft
  <2>4. ProposePlan(p)
    BY <2>1, <2>3 DEF ProposePlan
  <2> QED
    BY <2>4 DEF ReviewNext
<1>2. ASSUME NEW ptb \in Ptbs, NEW manifest \in Manifests(ptb), draft = Draft(None, ptb, manifest)
      PROVE  ReviewNext
  <2>1. draft.from = None /\ draft.ptb = ptb /\ draft.manifest = manifest
    BY <1>2 DEF Draft
  <2>2. ProposePtb(None, ptb, manifest)
    BY <2>1 DEF ProposeDraft
  <2> QED
    BY <2>2 DEF ReviewNext
<1> QED
  BY <1>1, <1>2 DEF Drafts

LEMMA ReviewSide ==
    ASSUME IInv, draft \in Drafts, [PathNext]_pathVars
    PROVE  [ReviewNext]_reviewVars
<1>1. CASE SubmitReviewed
  BY <1>1, DraftProposed DEF SubmitReviewed
<1>2. CASE RefuseReviewed
  BY <1>2, DraftProposed DEF RefuseReviewed
<1>3. CASE ReviewReviewed
  <2>1. now \in Times
    BY ReviewedAssumption DEF IInv, HeavyTypeOK, LocalTypeOK
  <2> QED
    BY <1>3, <2>1 DEF ReviewReviewed, ReviewNext
<1>4. CASE DecideReviewed
  BY <1>4 DEF DecideReviewed, ReviewNext
<1>5. CASE PathOn
  BY <1>5 DEF PathOn
<1>6. CASE UNCHANGED pathVars
  BY <1>6 DEF pathVars
<1> QED
  BY <1>1, <1>2, <1>3, <1>4, <1>5, <1>6 DEF PathNext

-----------------------------------------------------------------------------
(***************************************************************************)
(* What is said of a transaction stays true while it is under review.      *)
(***************************************************************************)
LEMMA KeptStays ==
    ASSUME action' = action, consulted' = consulted, NEW p, KeptTo(p)
    PROVE  KeptTo(p)'
<1>1. ASSUME NEW r, WithinRule(r) PROVE WithinRule(r)'
  BY <1>1 DEF WithinRule, CommandsOf, Touched, SumWithin, SentSplits, SplitsOf, AmountOf,
              MixedTransfers
<1>2. (Dangerous => VouchedFor) => (Dangerous => VouchedFor)'
  BY DEF Dangerous, VouchedFor, CommandsOf
<1> QED
  BY <1>1, <1>2 DEF KeptTo

-----------------------------------------------------------------------------
(***************************************************************************)
(* What a step writes: nothing, or one event.                              *)
(***************************************************************************)
Writes(kind, h, says) == session' = Append(session, EventOf(kind, h, says))

WritesNone == session' = session
WritesOne(K) == \E kind \in K, h \in Hashes, says \in {"yes", "no"} : Writes(kind, h, says)

LEMMA ExecutorWrites ==
    ASSUME IInv, NEW x \in Executors, ExecutorStep(x)
    PROVE  WritesNone \/ WritesOne({"claim", "receipt"})
<1>1. call[x].pc # "idle" => call[x].action \in Hashes
  BY CallOf
<1>2. CASE RecordClaim(x)
  <2>1. PICK delivered \in BOOLEAN, says \in {"yes", "no"} :
           Send(EventOf("claim", call[x].action, says), delivered)
    BY <1>2 DEF RecordClaim
  <2>2. call[x].action \in Hashes
    BY <1>1, <1>2 DEF RecordClaim
  <2> QED
    BY <2>1, <2>2 DEF Send, Stored, WritesNone, WritesOne, Writes
<1>3. CASE RecordReceipt(x)
  <2>1. PICK delivered \in BOOLEAN : Send(EventOf("receipt", call[x].action, "no"), delivered)
    BY <1>3 DEF RecordReceipt
  <2>2. call[x].action \in Hashes
    BY <1>1, <1>3 DEF RecordReceipt
  <2> QED
    BY <2>1, <2>2 DEF Send, Stored, WritesNone, WritesOne, Writes
<1>4. CASE \/ \E h \in Hashes : ClaimOnGuard(x, h)
           \/ Begin(x) \/ Execute(x) \/ Complete(x) \/ GiveUp(x) \/ Crash(x)
  BY <1>4 DEF ClaimOnGuard, Begin, Execute, Complete, GiveUp, Crash, WritesNone
<1> QED
  BY <1>2, <1>3, <1>4 DEF ExecutorStep, CallStep

LEMMA CoordinatorWrites ==
    ASSUME NEW h \in Hashes, CoordinatorStep(h)
    PROVE  \/ WritesNone
           \/ \E kind \in {"proposal", "decision", "anchor"}, says \in {"yes", "no"} :
                 Writes(kind, h, says)
<1>1. CASE Propose(h)
  BY <1>1 DEF Propose, Send, Stored, WritesNone, Writes
<1>2. CASE Decide(h)
  BY <1>2 DEF Decide, RecordDecision, Send, Stored, WritesNone, Writes
<1>3. CASE AnchorOnGuard(h)
  BY <1>3 DEF AnchorOnGuard, WritesNone
<1>4. CASE RecordAnchor(h)
  BY <1>4 DEF RecordAnchor, Send, Stored, WritesNone, Writes
<1> QED
  BY <1>1, <1>2, <1>3, <1>4 DEF CoordinatorStep

\* Any step.
LEMMA StepWrites ==
    ASSUME IInv, [HeavyNext]_heavyVars
    PROVE  WritesNone \/ WritesOne(Kinds)
<1>1. CASE HeavyTick \/ UNCHANGED heavyVars
  BY <1>1 DEF HeavyTick, heavyVars, WritesNone
<1>2. ASSUME NEW h \in Hashes, CoordinatorStep(h) PROVE WritesNone \/ WritesOne(Kinds)
  BY <1>2, CoordinatorWrites DEF WritesOne, Kinds
<1>3. ASSUME NEW x \in Executors, ExecutorStep(x) PROVE WritesNone \/ WritesOne(Kinds)
  BY <1>3, ExecutorWrites DEF WritesOne, Kinds
<1> QED
  BY <1>1, <1>2, <1>3 DEF HeavyNext

\* Whoever does not decide on the action writes no decision on it.
LEMMA OtherWrites ==
    ASSUME IInv, [PathNext]_pathVars, ~DecideReviewed
    PROVE  \/ WritesNone
           \/ \E kind \in Kinds, h \in Hashes, says \in {"yes", "no"} :
                 Writes(kind, h, says) /\ (kind # "decision" \/ h # Reviewed)
<1> DEFINE Fine == \/ WritesNone
                   \/ \E kind \in Kinds, h \in Hashes, says \in {"yes", "no"} :
                         Writes(kind, h, says) /\ (kind # "decision" \/ h # Reviewed)
<1>0. Reviewed \in Hashes
  BY ReviewedAssumption
<1>1. CASE SubmitReviewed
  <2>1. Propose(Reviewed)
    BY <1>1 DEF SubmitReviewed
  <2>2. WritesNone \/ Writes("proposal", Reviewed, "no")
    BY <2>1 DEF Propose, Send, Stored, WritesNone, Writes
  <2> QED
    BY <1>0, <2>2 DEF Kinds
<1>2. CASE RefuseReviewed \/ ReviewReviewed \/ UNCHANGED pathVars
  BY <1>2 DEF RefuseReviewed, ReviewReviewed, pathVars, heavyVars, WritesNone
<1>3. CASE HeavyTick \/ AnchorReviewed
  BY <1>3 DEF HeavyTick, AnchorReviewed, WritesNone
<1>4. CASE RecordAnchor(Reviewed)
  <2>1. WritesNone \/ Writes("anchor", Reviewed, "no")
    BY <1>4 DEF RecordAnchor, Send, Stored, WritesNone, Writes
  <2> QED
    BY <1>0, <2>1 DEF Kinds
<1>5. ASSUME NEW h \in Hashes \ {Reviewed}, CoordinatorStep(h) PROVE Fine
  BY <1>5, CoordinatorWrites DEF Kinds
<1>6. ASSUME NEW x \in Executors, ExecutorStep(x) PROVE Fine
  <2>1. WritesNone \/ WritesOne({"claim", "receipt"})
    BY <1>6, ExecutorWrites
  <2> QED
    BY <2>1 DEF WritesOne, Kinds
<1> QED
  BY <1>1, <1>2, <1>3, <1>4, <1>5, <1>6 DEF PathNext, PathOn

-----------------------------------------------------------------------------
(***************************************************************************)
(* The list of approvals.                                                  *)
(***************************************************************************)
\* An event was added: the decisions that were there are there.
LEMMA ListGrows ==
    ASSUME IInv, NEW kind \in Kinds, NEW h \in Hashes, NEW says \in {"yes", "no"},
           Writes(kind, h, says)
    PROVE  /\ Len(session') = Len(session) + 1 /\ Len(session) \in Nat
           /\ DOMAIN session = 1 .. Len(session)
           /\ DOMAIN session' = DOMAIN session \cup {Len(session) + 1}
           /\ \A j \in DOMAIN session : session'[j] = session[j]
           /\ session'[Len(session) + 1].type = kind
           /\ session'[Len(session) + 1].trace = h
           /\ kind # "proposal" => session'[Len(session) + 1].hash = h
           /\ session'[Len(session) + 1].says = says
           /\ \A k, t : Recorded(k, t) => Recorded(k, t)'
<1> DEFINE e == EventOf(kind, h, says)
<1>1. /\ e \in SessionEvent /\ e.type = kind /\ e.trace = h /\ e.says = says
      /\ kind # "proposal" => e.hash = h
  BY EventShape DEF IInv
<1>2. session' = Append(session, e) /\ HeavyTypeOK
  BY DEF Writes, IInv
<1> HIDE DEF e
<1> QED
  BY <1>1, <1>2, SessionGrows, RecordsStay

LEMMA RecordedStays ==
    ASSUME IInv, [HeavyNext]_heavyVars
    PROVE  \A k, t : Recorded(k, t) => Recorded(k, t)'
<1>1. CASE WritesNone
  BY <1>1, SessionSame DEF WritesNone
<1>2. ASSUME NEW kind \in Kinds, NEW h \in Hashes, NEW says \in {"yes", "no"},
             Writes(kind, h, says)
      PROVE  \A k, t : Recorded(k, t) => Recorded(k, t)'
  BY <1>2, ListGrows
<1> QED
  BY <1>1, <1>2, StepWrites DEF WritesOne

LEMMA ListStays ==
    ASSUME IInv, ApprovalsListed, [PathNext]_pathVars, ~DecideReviewed
    PROVE  ApprovalsListed'
<1>1. approvals' = approvals
  BY DEF PathNext, SubmitReviewed, RefuseReviewed, ReviewReviewed, PathOn, pathVars
<1>2. CASE WritesNone
  BY <1>1, <1>2 DEF WritesNone, ApprovalsListed, Approves, ApprovingDecision
<1>3. ASSUME NEW kind \in Kinds, NEW h \in Hashes, NEW says \in {"yes", "no"},
             Writes(kind, h, says), kind # "decision" \/ h # Reviewed
      PROVE  ApprovalsListed'
  <2> DEFINE n == Len(session) + 1
  <2>1. /\ DOMAIN session' = DOMAIN session \cup {n}
        /\ \A j \in DOMAIN session : session'[j] = session[j]
        /\ session'[n].type = kind /\ session'[n].trace = h
    BY <1>3, ListGrows
  <2> HIDE DEF n
  <2>2. ASSUME NEW a \in approvals PROVE Approves(a)'
    BY <1>1, <2>1 DEF ApprovalsListed, Approves
  <2>3. ASSUME NEW d \in DOMAIN session', ApprovingDecision(session'[d])
        PROVE  \E a \in approvals : a.at = d
    <3>1. d # n
      BY <1>3, <2>1, <2>3 DEF ApprovingDecision
    <3> QED
      BY <2>1, <2>3, <3>1 DEF ApprovalsListed
  <2> QED
    BY <1>1, <2>2, <2>3 DEF ApprovalsListed, ApprovingDecision
<1> QED
  BY <1>2, <1>3, OtherWrites

\* What is inspected stays under review with the facts that were found.
LEMMA ReviewStays ==
    ASSUME [PathNext]_pathVars, phase = "inspected"
    PROVE  action' = action /\ consulted' = consulted /\ phase' = phase
<1>1. CASE SubmitReviewed \/ RefuseReviewed
  BY <1>1 DEF SubmitReviewed, RefuseReviewed, ProposeDraft, ProposePtb
<1>2. CASE ReviewReviewed
  BY <1>2 DEF ReviewReviewed, Register, Inspect, Simulate, Judge, EvaluateOn
<1>3. CASE DecideReviewed
  BY <1>3 DEF DecideReviewed, EvaluateReturns
<1>4. CASE PathOn \/ UNCHANGED pathVars
  BY <1>4 DEF PathOn, pathVars, reviewVars
<1> QED
  BY <1>1, <1>2, <1>3, <1>4 DEF PathNext

LEMMA HoldStays ==
    ASSUME ApprovalsHold, [PathNext]_pathVars, ~DecideReviewed
    PROVE  ApprovalsHold'
<1>1. approvals' = approvals
  BY DEF PathNext, SubmitReviewed, RefuseReviewed, ReviewReviewed, PathOn, pathVars
<1>2. ASSUME NEW a \in approvals PROVE KeptTo(a.policy)' /\ phase' = "inspected"
  <2>1. phase = "inspected" /\ KeptTo(a.policy)
    BY DEF ApprovalsHold
  <2>2. action' = action /\ consulted' = consulted /\ phase' = phase
    BY <2>1, ReviewStays
  <2> DEFINE p == a.policy
  <2>3. KeptTo(p)'
    BY <2>1, <2>2, KeptStays
  <2> QED
    BY <2>1, <2>2, <2>3
<1> QED
  BY <1>1, <1>2 DEF ApprovalsHold

\* The approval a decision adds was given for a policy the transaction keeps to.
LEMMA DecisionKeeps ==
    ASSUME PathInv, DecideReviewed
    PROVE  ApprovalsListed' /\ ApprovalsHold'
<1>1. /\ place = "done" /\ Reviewed \in Hashes /\ Verdict \in {"yes", "no"}
      /\ RecordDecision(Reviewed, Verdict) /\ EvaluateReturns
  BY ReviewedAssumption DEF DecideReviewed, Verdict
<1>2. phase = "inspected" /\ action' = action /\ consulted' = consulted /\ phase' = phase
  BY <1>1 DEF PathInv, ReviewInv, EvaluateReturns
<1>0. PICK verdict \in {"yes", "no"} : verdict = Verdict
  BY <1>1
<1>3. WritesNone \/ Writes("decision", Reviewed, verdict)
  BY <1>0, <1>1 DEF RecordDecision, Send, Stored, WritesNone, Writes
<1>4. \A a \in approvals : KeptTo(a.policy)'
  <2> SUFFICES ASSUME NEW a \in approvals PROVE KeptTo(a.policy)'
    OBVIOUS
  <2>1. KeptTo(a.policy)
    BY DEF PathInv, ApprovalsHold
  <2> QED
    BY <1>2, <2>1, KeptStays
<1>5. CASE WritesNone
  <2>1. approvals' = approvals /\ session' = session
    BY <1>5 DEF WritesNone, DecideReviewed
  <2> QED
    BY <1>2, <1>4, <2>1
       DEF PathInv, ApprovalsListed, ApprovalsHold, Approves, ApprovingDecision
<1>6. CASE Writes("decision", Reviewed, verdict)
  <2> DEFINE n == Len(session) + 1
  <2>1. /\ Len(session') = n /\ n \notin DOMAIN session
        /\ DOMAIN session' = DOMAIN session \cup {n}
        /\ \A j \in DOMAIN session : session'[j] = session[j]
        /\ session'[n].type = "decision" /\ session'[n].trace = Reviewed
        /\ session'[n].hash = Reviewed /\ session'[n].says = verdict
    <3>1. "decision" \in Kinds /\ "decision" # "proposal" /\ IInv
      BY DEF Kinds, PathInv
    <3>2. /\ Len(session') = n /\ DOMAIN session = 1 .. Len(session) /\ Len(session) \in Nat
          /\ DOMAIN session' = DOMAIN session \cup {n}
          /\ \A j \in DOMAIN session : session'[j] = session[j]
          /\ session'[n].type = "decision" /\ session'[n].trace = Reviewed
          /\ session'[n].hash = Reviewed /\ session'[n].says = verdict
      BY <1>1, <1>6, <3>1, ListGrows
    <3> QED
      BY <3>2
  <2>2. session' # session
    BY <2>1
  <2> HIDE DEF n
  <2>3. ASSUME NEW a \in approvals PROVE Approves(a)'
    BY <2>1 DEF PathInv, ApprovalsListed, Approves
  <2>4. ASSUME NEW d \in DOMAIN session, ApprovingDecision(session'[d])
        PROVE  \E a \in approvals : a.at = d
    BY <2>1, <2>4 DEF PathInv, ApprovalsListed
  <2>5. CASE verdict # "yes"
    <3>1. approvals' = approvals
      BY <1>0, <2>5 DEF DecideReviewed
    <3>2. ApprovalsListed'
      BY <2>1, <2>3, <2>4, <2>5, <3>1 DEF ApprovalsListed, ApprovingDecision
    <3>3. ApprovalsHold'
      BY <1>2, <1>4, <3>1 DEF ApprovalsHold
    <3> QED
      BY <3>2, <3>3
  <2>6. CASE verdict = "yes"
    <3>1. PICK new : new = [at |-> n, policy |-> policy]
      OBVIOUS
    <3>2. approvals' = approvals \cup {new}
      BY <1>0, <2>1, <2>2, <2>6, <3>1 DEF DecideReviewed
    <3>3. KeptTo(new.policy)
      <4>1. Approved
        BY <1>0, <1>1, <2>6 DEF Approved, Verdict
      <4>2. \A k \in DOMAIN policy : WithinRule(policy[k])
        BY <4>1, WithinEveryRule DEF PathInv
      <4>3. Len(policy) >= 3 /\ SubSeq(policy, 1, 3) = DefaultRules /\ Dangerous => VouchedFor
        BY <4>1, DangerIsVouchedFor DEF PathInv, DangerReviewed
      <4>4. KeptTo(policy)
        BY <4>2, <4>3 DEF KeptTo
      <4> QED
        BY <3>1, <4>4
    <3>4. KeptTo(new.policy)'
      BY <1>2, <3>3, KeptStays
    <3>5. Approves(new)' /\ new.at = n
      BY <2>1, <2>6, <3>1 DEF Approves
    <3>6. ApprovalsListed'
      <4>1. \A a \in approvals' : Approves(a)'
        BY <2>3, <3>2, <3>5
      <4>2. \A d \in DOMAIN session' :
               ApprovingDecision(session'[d]) => \E a \in approvals' : a.at = d
        BY <2>1, <2>4, <3>2, <3>5
      <4> QED
        BY <4>1, <4>2 DEF ApprovalsListed, ApprovingDecision
    <3>7. ApprovalsHold'
      BY <1>2, <1>4, <3>2, <3>4 DEF ApprovalsHold
    <3> QED
      BY <3>6, <3>7
  <2> QED
    BY <2>5, <2>6
<1> QED
  BY <1>3, <1>5, <1>6

-----------------------------------------------------------------------------
(***************************************************************************)
(* The transaction, the claims and the time.                               *)
(***************************************************************************)
LEMMA DraftStays ==
    ASSUME DraftIsReviewed, [PathNext]_pathVars
    PROVE  DraftIsReviewed' /\ draft' = draft
<1>1. draft' = draft
  BY DEF PathNext, SubmitReviewed, RefuseReviewed, ReviewReviewed, DecideReviewed, PathOn, pathVars
<1>2. CASE ProposeDraft
  <2>1. UnderReview' => action' = [ptb |-> draft.ptb, manifest |-> draft.manifest]
    BY <1>2 DEF ProposeDraft, ProposePtb, UnderReview
  <2> QED
    BY <1>1, <2>1 DEF DraftIsReviewed
<1>3. CASE action' = action /\ (UnderReview' => UnderReview)
  BY <1>1, <1>3 DEF DraftIsReviewed
<1>4. CASE ReviewReviewed
  <2>1. action' = action /\ (phase' = phase \/ phase = "proposed")
    BY <1>4 DEF ReviewReviewed, Register, Inspect, Simulate, Review, Judge, EvaluateOn
  <2> QED
    BY <1>3, <2>1 DEF UnderReview
<1>5. CASE DecideReviewed
  <2>1. action' = action /\ phase' = phase
    BY <1>5 DEF DecideReviewed, EvaluateReturns
  <2> QED
    BY <1>3, <2>1 DEF UnderReview
<1>6. CASE UNCHANGED reviewVars
  BY <1>3, <1>6 DEF UnderReview, reviewVars
<1> QED
  BY <1>2, <1>4, <1>5, <1>6 DEF PathNext, SubmitReviewed, RefuseReviewed, PathOn, pathVars

\* A claim is granted on an approval that was found in the session.
LEMMA GrantsStay ==
    ASSUME IInv, GrantsRest, [HeavyNext]_heavyVars
    PROVE  GrantsRest'
<1> SUFFICES ASSUME NEW h \in Hashes, grants'[h] # << >> PROVE Recorded("decision", h)'
  BY DEF GrantsRest
<1>1. grants \in [Hashes -> Seq(Grant)]
  BY DEF IInv, HeavyTypeOK
<1>2. Recorded("decision", h) => Recorded("decision", h)'
  BY RecordedStays
<1>3. CASE grants'[h] = grants[h]
  BY <1>2, <1>3 DEF GrantsRest
<1>4. ASSUME NEW x \in Executors, NEW k \in Hashes, ClaimOnGuard(x, k)
      PROVE  Recorded("decision", h)'
  <2>1. PICK choice \in DecisionsOn(k) :
           /\ choice.verdict = "approved"
           /\ \/ grants' = grants
              \/ \E lease : grants' = [grants EXCEPT ![k] = Append(@, lease)]
    BY <1>4 DEF ClaimOnGuard, LocalClaim, Accepts
  <2>2. CASE h = k
    BY <1>2, <2>1, <2>2, ApprovalFound
  <2>3. CASE h # k
    BY <1>1, <1>3, <2>1, <2>3
  <2> QED
    BY <2>2, <2>3
<1>5. ASSUME NEW k \in Hashes, CloseGrant(k), grants[k] # << >> PROVE Recorded("decision", h)'
  <2>1. CASE h = k
    BY <1>2, <1>5, <2>1 DEF GrantsRest
  <2>2. CASE h # k
    BY <1>1, <1>3, <1>5, <2>2 DEF CloseGrant
  <2> QED
    BY <2>1, <2>2
<1>6. ASSUME NEW x \in Executors, Complete(x) PROVE Recorded("decision", h)'
  <2>1. /\ call[x].action \in Hashes /\ call[x].grant \in DOMAIN grants[call[x].action]
        /\ CloseGrant(call[x].action) \/ grants' = grants
    BY <1>6, CallOf DEF Complete
  <2>2. grants[call[x].action] # << >>
    BY <2>1
  <2> QED
    BY <1>3, <1>5, <2>1, <2>2
<1>7. ASSUME NEW x \in Executors, GiveUp(x) PROVE Recorded("decision", h)'
  <2>1. /\ call[x].action \in Hashes /\ call[x].grant \in DOMAIN grants[call[x].action]
        /\ CloseGrant(call[x].action)
    BY <1>7, CallOf DEF GiveUp
  <2>2. grants[call[x].action] # << >>
    BY <2>1
  <2> QED
    BY <1>5, <2>1, <2>2
<1>8. ASSUME NEW x \in Executors, Begin(x) \/ RecordClaim(x) \/ Execute(x) \/ RecordReceipt(x)
                                  \/ Crash(x)
      PROVE  Recorded("decision", h)'
  BY <1>3, <1>8 DEF Begin, RecordClaim, Execute, RecordReceipt, Crash
<1>9. ASSUME NEW k \in Hashes, CoordinatorStep(k) PROVE Recorded("decision", h)'
  BY <1>3, <1>9
     DEF CoordinatorStep, Propose, Decide, RecordDecision, AnchorOnGuard, RecordAnchor
<1>10. CASE HeavyTick \/ UNCHANGED heavyVars
  BY <1>3, <1>10 DEF HeavyTick, heavyVars
<1> QED
  BY <1>4, <1>6, <1>7, <1>8, <1>9, <1>10 DEF HeavyNext, ExecutorStep, CallStep

\* An executor runs the action it has begun, with the time it read then.
LEMMA RunsAreBegun ==
    ASSUME IInv, NEW x \in Executors, [HeavyNext]_heavyVars, Running(x)'
    PROVE  \/ Running(x) /\ call'[x].at = call[x].at
           \/ Begin(x) /\ call[x].action = Reviewed /\ call'[x].at = now
<1>1. call \in [Executors -> Call] /\ call[x] \in Call
  BY DEF IInv, HeavyTypeOK
<1>2. call'[x].pc \in {"executing", "effected"} /\ call'[x].action = Reviewed
  BY DEF Running, InTheMiddle
<1>3. CASE call'[x] = call[x]
  BY <1>2, <1>3 DEF Running, InTheMiddle
<1>4. ASSUME NEW y \in Executors, NEW c, y # x, call' = [call EXCEPT ![y] = c]
      PROVE  call'[x] = call[x]
  BY <1>1, <1>4
<1>5. CASE Begin(x)
  BY <1>1, <1>2, <1>5 DEF Begin, Call
<1>6. CASE Execute(x)
  BY <1>1, <1>2, <1>6 DEF Execute, Running, InTheMiddle, Call
<1>7. CASE \/ RecordClaim(x) \/ Complete(x) \/ RecordReceipt(x) \/ Crash(x)
           \/ \E h \in Hashes : ClaimOnGuard(x, h)
  <2>1. \/ call' = call
        \/ call'[x].pc \in {"idle", "claiming", "refused", "holding", "recording"}
    <3>1. CASE RecordClaim(x)
      BY <1>1, <3>1 DEF RecordClaim, Call, Idle
    <3>2. CASE Complete(x)
      BY <1>1, <3>2 DEF Complete, Call
    <3>3. CASE RecordReceipt(x) \/ Crash(x)
      BY <1>1, <3>3 DEF RecordReceipt, Crash, Call, Idle
    <3>4. ASSUME NEW h \in Hashes, ClaimOnGuard(x, h)
          PROVE  call'[x].pc \in {"claiming", "refused"}
      <4> DEFINE refused == [Idle EXCEPT !.pc = "refused", !.action = h]
                 granted == [Idle EXCEPT !.pc = "claiming", !.action = h,
                                         !.grant = Len(grants[h]) + 1]
      <4>1. refused.pc = "refused" /\ granted.pc = "claiming"
        BY DEF Idle
      <4>2. call' = [call EXCEPT ![x] = refused] \/ call' = [call EXCEPT ![x] = granted]
        BY <3>4 DEF ClaimOnGuard
      <4> HIDE DEF refused, granted
      <4>3. call'[x] = refused \/ call'[x] = granted
        BY <1>1, <4>2
      <4> QED
        BY <4>1, <4>3
    <3> QED
      BY <1>7, <3>1, <3>2, <3>3, <3>4
  <2> QED
    BY <1>2, <1>3, <2>1
<1>8. ASSUME NEW y \in Executors, ExecutorStep(y), y # x PROVE call'[x] = call[x]
  <2>1. call' = call \/ \E c : call' = [call EXCEPT ![y] = c]
    BY <1>8 DEF ExecutorStep, CallStep, ClaimOnGuard, Begin, RecordClaim, Execute, Complete,
                RecordReceipt, GiveUp, Crash
  <2> QED
    BY <1>4, <1>8, <2>1
<1>9. CASE GiveUp(x)
  BY <1>3, <1>9 DEF GiveUp
<1>10. ASSUME NEW h \in Hashes, CoordinatorStep(h) PROVE call' = call
  BY <1>10 DEF CoordinatorStep, Propose, Decide, RecordDecision, AnchorOnGuard, RecordAnchor
<1>11. CASE HeavyTick \/ UNCHANGED heavyVars
  BY <1>3, <1>11 DEF HeavyTick, heavyVars
<1> QED
  BY <1>3, <1>5, <1>6, <1>7, <1>8, <1>9, <1>10, <1>11 DEF HeavyNext, ExecutorStep, CallStep

\* No call of the guard moves the end of an anchor that was made.
LEMMA ExpiryStays ==
    ASSUME IInv, draft \in Drafts, EndsInTime, [PathNext]_pathVars,
           anchors'[Reviewed].status # "absent"
    PROVE  anchors'[Reviewed].expires = draft.manifest.expires
<1>1. Reviewed \in Hashes /\ anchors \in [Hashes -> LocalAnchor]
  BY ReviewedAssumption DEF IInv, HeavyTypeOK, LocalTypeOK
<1> DEFINE a == anchors[Reviewed]
           b == anchors'[Reviewed]
<1>2. CASE a.status # "absent" /\ b.expires = a.expires
  BY <1>2 DEF EndsInTime
<1>3. CASE b = a
  BY <1>3 DEF EndsInTime
<1>4. CASE AnchorReviewed
  BY <1>1, <1>4 DEF AnchorReviewed, LocalAnchorAction, Unanchored
<1>5. ASSUME NEW h \in Hashes, h # Reviewed, AnchorOnGuard(h) PROVE b = a
  BY <1>1, <1>5 DEF AnchorOnGuard, LocalAnchorAction
<1>6. ASSUME NEW h \in Hashes, NEW c, c.status # "absent", anchors[h].status # "absent",
             c.expires = anchors[h].expires, anchors' = [anchors EXCEPT ![h] = c]
      PROVE  b = a \/ (a.status # "absent" /\ b.expires = a.expires)
  BY <1>1, <1>6
<1>7. ASSUME NEW x \in Executors, NEW h \in Hashes, ClaimOnGuard(x, h)
      PROVE  b = a \/ (a.status # "absent" /\ b.expires = a.expires)
  <2>1. PICK choice, lease : LocalClaim(h, choice, address[x], lease, now)
    BY <1>7 DEF ClaimOnGuard
  <2>2. CASE Duplicate(h, now)
    BY <2>1, <2>2 DEF LocalClaim
  <2>3. CASE ~Duplicate(h, now)
    <3>1. PICK who : anchors' = [anchors EXCEPT ![h] =
                       [anchors[h] EXCEPT !.claimant = who, !.status = "claimed",
                                          !.claimExpires = now + lease]]
      BY <2>1, <2>3 DEF LocalClaim
    <3>2. PICK c : c = [anchors[h] EXCEPT !.claimant = who, !.status = "claimed",
                                          !.claimExpires = now + lease]
      OBVIOUS
    <3>3. anchors[h] \in LocalAnchor
      BY <1>1
    <3>4. c.status = "claimed" /\ c.expires = anchors[h].expires
      BY <3>2, <3>3 DEF LocalAnchor
    <3>5. anchors' = [anchors EXCEPT ![h] = c]
      BY <3>1, <3>2
    <3>6. anchors[h].status # "absent"
      BY <2>1 DEF LocalClaim, Accepts, Known
    <3> QED
      BY <1>6, <3>4, <3>5, <3>6
  <2> QED
    BY <2>2, <2>3
<1>8. ASSUME NEW h \in Hashes, NEW receipt, NEW by, NEW at,
             LocalComplete(h, receipt, at) \/ LocalFail(h, by, at)
      PROVE  b = a \/ (a.status # "absent" /\ b.expires = a.expires)
  <2>1. PICK status \in {"executed", "failed"} :
           anchors' = [anchors EXCEPT ![h] = [anchors[h] EXCEPT !.status = status]]
    BY <1>8 DEF LocalComplete, LocalFail
  <2>2. PICK c : c = [anchors[h] EXCEPT !.status = status]
    OBVIOUS
  <2>3. anchors[h] \in LocalAnchor
    BY <1>1
  <2>4. c.status = status /\ c.expires = anchors[h].expires
    BY <2>2, <2>3 DEF LocalAnchor
  <2>5. anchors' = [anchors EXCEPT ![h] = c]
    BY <2>1, <2>2
  <2>6. anchors[h].status # "absent"
    BY <1>8 DEF LocalComplete, LocalFail, Closable
  <2> QED
    BY <1>6, <2>4, <2>5, <2>6
<1>9. ASSUME NEW x \in Executors, Complete(x) \/ GiveUp(x)
      PROVE  b = a \/ (a.status # "absent" /\ b.expires = a.expires)
  <2>1. call[x].action \in Hashes
    BY <1>9, CallOf DEF Complete, GiveUp
  <2>2. \/ anchors' = anchors
        \/ \E receipt, at : LocalComplete(call[x].action, receipt, at)
        \/ \E by, at : LocalFail(call[x].action, by, at)
    BY <1>9 DEF Complete, GiveUp
  <2> QED
    BY <1>8, <2>1, <2>2
<1>10. ASSUME NEW x \in Executors, Begin(x) \/ RecordClaim(x) \/ Execute(x) \/ RecordReceipt(x)
                                   \/ Crash(x)
       PROVE  b = a
  BY <1>10 DEF Begin, RecordClaim, Execute, RecordReceipt, Crash
<1>11. ASSUME NEW h \in Hashes, Propose(h) \/ Decide(h) \/ RecordAnchor(h) PROVE b = a
  BY <1>11 DEF Propose, Decide, RecordDecision, RecordAnchor
<1>12. ASSUME SubmitReviewed \/ DecideReviewed PROVE b = a
  BY <1>12 DEF SubmitReviewed, DecideReviewed, Propose, RecordDecision
<1>13. ASSUME RefuseReviewed \/ ReviewReviewed \/ HeavyTick \/ UNCHANGED pathVars PROVE b = a
  BY <1>13 DEF RefuseReviewed, ReviewReviewed, pathVars, heavyVars, HeavyTick, LocalTick
<1> HIDE DEF a, b
<1>14. b = a \/ (a.status # "absent" /\ b.expires = a.expires) \/ AnchorReviewed
  <2>1. CASE PathOn
    BY <1>1, <1>5, <1>7, <1>9, <1>10, <1>11, <1>13, <2>1
       DEF PathOn, CoordinatorStep, ExecutorStep, CallStep
  <2> QED
    BY <1>12, <1>13, <2>1 DEF PathNext
<1> QED
  BY <1>2, <1>3, <1>4, <1>14 DEF a, b

LEMMA TimeStays ==
    ASSUME PathInv, [PathNext]_pathVars
    PROVE  EndsInTime'
<1>1. draft' = draft /\ [HeavyNext]_heavyVars
  BY DraftStays, HeavySide DEF PathInv
<1>2. anchors'[Reviewed].status # "absent" => anchors'[Reviewed].expires = draft'.manifest.expires
  BY <1>1, ExpiryStays DEF PathInv
<1>3. ASSUME NEW x \in Executors, Running(x)' PROVE call'[x].at < draft'.manifest.expires
  <2>1. CASE Running(x) /\ call'[x].at = call[x].at
    BY <1>1, <2>1 DEF PathInv, EndsInTime
  <2>2. CASE Begin(x) /\ call[x].action = Reviewed /\ call'[x].at = now
    <3>1. now < anchors[Reviewed].expires
      BY <2>2 DEF Begin
    <3>2. Reviewed \in Hashes /\ call[x].grant \in DOMAIN grants[Reviewed]
      BY <2>2, CallOf, ReviewedAssumption DEF Begin, PathInv
    <3>3. anchors[Reviewed].status # "absent"
      BY <3>2 DEF PathInv, IInv, TableInv, RecordIsLast
    <3> QED
      BY <1>1, <2>2, <3>1, <3>3 DEF PathInv, EndsInTime
  <2>3. IInv
    BY DEF PathInv
  <2> QED
    BY <1>1, <1>3, <2>1, <2>2, <2>3, RunsAreBegun
<1> QED
  BY <1>2, <1>3 DEF EndsInTime

-----------------------------------------------------------------------------
(***************************************************************************)
(* The invariant.                                                          *)
(***************************************************************************)
LEMMA PathStart ==
    ASSUME PathInit
    PROVE  PathInv
<1>1. IInv /\ ReviewInv
  BY InitHolds, ReviewStart DEF PathInit
<1>2. draft \in Drafts /\ approvals = {} /\ session = << >> /\ Reviewed \in Hashes
  BY ReviewedAssumption DEF PathInit, HeavyInit
<1>3. DraftIsReviewed
  BY DEF PathInit, ReviewInit, DraftIsReviewed, UnderReview
<1>4. ApprovalsListed /\ ApprovalsHold
  BY <1>2 DEF ApprovalsListed, ApprovalsHold
<1>5. GrantsRest
  BY DEF PathInit, HeavyInit, GrantsRest
<1>6. EndsInTime
  <2>1. anchors[Reviewed].status = "absent"
    BY <1>2 DEF PathInit, HeavyInit, LocalInit, Unanchored
  <2>2. \A x \in Executors : call[x].pc = "idle"
    BY IdleCall DEF PathInit, HeavyInit
  <2> QED
    BY <2>1, <2>2 DEF EndsInTime, Running, InTheMiddle
<1> QED
  BY <1>1, <1>2, <1>3, <1>4, <1>5, <1>6 DEF PathInv

LEMMA PathStep ==
    ASSUME PathInv, [PathNext]_pathVars
    PROVE  PathInv'
<1>1. IInv /\ ReviewInv /\ draft \in Drafts /\ DraftIsReviewed /\ GrantsRest
      /\ ApprovalsListed /\ ApprovalsHold
  BY DEF PathInv
<1>2. [HeavyNext]_heavyVars /\ [ReviewNext]_reviewVars
  BY <1>1, HeavySide, ReviewSide
<1>3. IInv' /\ ReviewInv'
  BY <1>1, <1>2, NextKeeps, ReviewStep
<1>4. draft' \in Drafts /\ DraftIsReviewed'
  BY <1>1, DraftStays
<1>5. ApprovalsListed' /\ ApprovalsHold'
  BY <1>1, ListStays, HoldStays, DecisionKeeps
<1>6. GrantsRest' /\ EndsInTime'
  BY <1>1, <1>2, GrantsStay, TimeStays
<1> QED
  BY <1>3, <1>4, <1>5, <1>6 DEF PathInv

-----------------------------------------------------------------------------
(***************************************************************************)
(* What follows.                                                           *)
(***************************************************************************)
\* A decision in the session on which the action was claimed is one of the approvals.
LEMMA DecisionIsApproval ==
    ASSUME PathInv, NEW j, Before(session, j, "decision", Reviewed, Reviewed)
    PROVE  \E a \in approvals : a.at < j /\ Approves(a) /\ KeptTo(a.policy)
<1>1. PICK d \in DOMAIN session : d < j /\ ApprovingDecision(session[d])
  BY DEF Before, ApprovingDecision
<1>2. PICK a \in approvals : a.at = d
  BY <1>1 DEF PathInv, ApprovalsListed
<1> QED
  BY <1>1, <1>2 DEF PathInv, ApprovalsListed, ApprovalsHold

\* A successful claim in the session rests on a decision before it.
LEMMA ClaimRests ==
    ASSUME PathInv, NEW j \in 1 .. Len(session) + 1,
           Before(session, j, "claim", Reviewed, Reviewed)
    PROVE  Before(session, j, "decision", Reviewed, Reviewed)
<1>1. PICK c \in DOMAIN session : /\ c < j /\ session[c].type = "claim"
                                  /\ session[c].trace = Reviewed /\ session[c].says = "yes"
  BY DEF Before
<1>2. Before(session, c, "decision", Reviewed, Reviewed)
  BY <1>1 DEF PathInv, IInv, SessionRests, Rests
<1>3. DOMAIN session = 1 .. Len(session) /\ Len(session) \in Nat
  BY DEF PathInv, IInv, HeavyTypeOK
<1> QED
  BY <1>1, <1>2, <1>3 DEF Before

\* Who runs the action holds a claim that is in the session.
LEMMA RunRests ==
    ASSUME PathInv, NEW x \in Executors, Running(x)
    PROVE  Recorded("decision", Reviewed)
<1>1. Recorded("claim", Reviewed)
  BY CallOf DEF PathInv, Running, InTheMiddle
<1>2. Len(session) + 1 \in 1 .. Len(session) + 1
  BY DEF PathInv, IInv, HeavyTypeOK
<1> QED
  BY <1>1, <1>2, ClaimRests DEF Recorded

LEMMA RunsWithinPolicy ==
    ASSUME PathInv
    PROVE  ExecutedWithinPolicy
<1> DEFINE Vouched == \E a \in approvals : Approves(a) /\ KeptTo(a.policy)
<1>0. Reviewed \in Hashes /\ Len(session) \in Nat /\ DOMAIN session = 1 .. Len(session)
  BY ReviewedAssumption DEF PathInv, IInv, HeavyTypeOK
<1>1. Recorded("decision", Reviewed) => Vouched
  BY DecisionIsApproval DEF Recorded
<1>2. ASSUME NEW x \in Executors, Running(x) PROVE Vouched
  BY <1>1, <1>2, RunRests
<1>3. ASSUME anchors[Reviewed].status = "executed" PROVE Vouched
  <2>1. grants[Reviewed] # << >>
    BY <1>0, <1>3 DEF PathInv, IInv, TableInv, RecordIsLast
  <2> QED
    BY <1>0, <1>1, <2>1 DEF PathInv, GrantsRest
<1>4. ASSUME NEW j \in DOMAIN session, Receipted(j)
      PROVE  \E a \in approvals : a.at < j /\ Approves(a) /\ KeptTo(a.policy)
  <2>1. Before(session, j, "claim", Reviewed, Reviewed)
    BY <1>4 DEF Receipted, PathInv, IInv, SessionRests, Rests
  <2>2. j \in 1 .. Len(session) + 1
    BY <1>0
  <2> QED
    BY <2>1, <2>2, ClaimRests, DecisionIsApproval
<1>5. ASSUME NEW x \in Executors, Running(x) PROVE call[x].at < action.manifest.expires
  <2>1. phase = "inspected"
    BY <1>2, <1>5 DEF PathInv, ApprovalsHold
  <2>2. action.manifest = draft.manifest
    BY <2>1 DEF PathInv, DraftIsReviewed, UnderReview
  <2> QED
    BY <1>5, <2>2 DEF PathInv, EndsInTime
<1> QED
  BY <1>2, <1>3, <1>4, <1>5 DEF ExecutedWithinPolicy

LEMMA PathInvariance == PathSpec => []PathInv
<1>1. PathInit => PathInv
  BY PathStart
<1>2. PathInv /\ [PathNext]_pathVars => PathInv'
  BY PathStep
<1> QED
  BY <1>1, <1>2, PTL DEF PathSpec

(***************************************************************************)
(* proposePtb to executeApprovedAndRecord: for any transactions,           *)
(* manifests, registries, policies and executors, the action runs, is      *)
(* executed or has a receipt only after an approving decision that was     *)
(* given for a policy the transaction keeps to, and no run begins once its *)
(* manifest has expired.                                                   *)
(***************************************************************************)
THEOREM ExecutionsKeepPolicy == PathSpec => []ExecutedWithinPolicy
<1>1. PathInv => ExecutedWithinPolicy
  BY RunsWithinPolicy
<1> QED
  BY <1>1, PathInvariance, PTL

(***************************************************************************)
(* With the review in front of it the path takes no step the heavy path    *)
(* does not take.                                                          *)
(***************************************************************************)
THEOREM PathIsHeavy == PathSpec => HeavyInit /\ [][HeavyNext]_heavyVars
<1>1. PathInit => HeavyInit
  BY DEF PathInit
<1>2. PathInv /\ [PathNext]_pathVars => [HeavyNext]_heavyVars
  BY HeavySide DEF PathInv
<1> QED
  BY <1>1, <1>2, PathInvariance, PTL DEF PathSpec

(***************************************************************************)
(* ... and the review no other than it takes alone, though decisions are   *)
(* sent, lost and asked for again and time passes by the guard's clock.    *)
(***************************************************************************)
THEOREM PathIsReview == PathSpec => ReviewSpec
<1>1. PathInit => ReviewInit
  BY DEF PathInit
<1>2. PathInv /\ [PathNext]_pathVars => [ReviewNext]_reviewVars
  BY ReviewSide DEF PathInv
<1> QED
  BY <1>1, <1>2, PathInvariance, PTL DEF PathSpec, ReviewSpec

\* What was shown of each part by itself is true of the two together.
THEOREM PartsKeepTheirWord ==
    PathSpec => /\ []GrantClosedOnce /\ []OverlapOnlyAfterLapse
                /\ []ReceiptRestsOnClaim /\ []OnlyAnchorsGoMissing
                /\ []ApprovedByRules /\ []RejectionStands
                /\ []ApprovedWithinLimits /\ []DangerReviewed /\ []PlansAccepted
<1>1. PathInv => /\ GrantClosedOnce /\ OverlapOnlyAfterLapse
                 /\ ReceiptRestsOnClaim /\ OnlyAnchorsGoMissing
  BY ClosesOnce, OverlapLapsed, ReceiptRests, AnchorMissing DEF PathInv
<1>2. PathSpec => /\ []ApprovedByRules /\ []RejectionStands
                  /\ []ApprovedWithinLimits /\ []DangerReviewed /\ []PlansAccepted
  BY PathIsReview, ApprovalIsExact, RejectionIsFinal, ApprovalsKeepLimits, DangerIsReviewed,
     PlansAreAccepted, PTL
<1> QED
  BY <1>1, <1>2, PathInvariance, PTL
=============================================================================
