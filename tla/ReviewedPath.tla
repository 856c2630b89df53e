---------------------------- MODULE ReviewedPath ----------------------------
(***************************************************************************)
(* The review in front of the heavy path: one action of the session is     *)
(* proposed, reviewed and decided by ActionReview, where HeavyPath leaves  *)
(* the choice open, and anchored and executed by HeavyPath.  The           *)
(* coordinator is that of scripts/live/heavy-action-live.ts and            *)
(* docs/usage.md: it anchors with the expiry of the manifest.  Each step   *)
(* is one of both components, or of one while the other stands still.      *)
(*                                                                         *)
(* An action hash is the hash of one transaction and manifest: draft.      *)
(* What execute() sends is its caller's business; the code ties it to the  *)
(* approved action by the hash alone.                                      *)
(***************************************************************************)
EXTENDS HeavyPath, ActionReview

CONSTANT Reviewed   \* the hash of the action that is reviewed

\* What can be proposed: by a client, or by the agent from a plan it found valid and
\* could build.
Draft(from, ptb, manifest) == [from |-> from, ptb |-> ptb, manifest |-> manifest]
Drafts == {Draft(p, PlanPtb(p), PlanManifest(p)) : p \in {q \in Plans : PlanValid(q) /\ Buildable(q)}}
          \cup UNION {{Draft(None, ptb, manifest) : manifest \in Manifests(ptb)} : ptb \in Ptbs}

ASSUME ReviewedAssumption == /\ Reviewed \in Hashes
                             /\ 0 .. MaxTime \subseteq Times
                             /\ \A d \in Drafts : d.manifest.expires \in Expiries

VARIABLES draft,      \* the transaction and the manifest behind the hash
          approvals   \* history: the approving decisions in the session and their policies

pathVars == <<heavyVars, reviewVars, draft, approvals>>

PathInit == /\ HeavyInit /\ ReviewInit
            /\ draft \in Drafts
            /\ approvals = {}

-----------------------------------------------------------------------------
ProposeDraft == ProposePtb(draft.from, draft.ptb, draft.manifest)

DraftStands == ManifestValid(draft.manifest, Inspection(draft.ptb, draft.manifest, registry))

\* proposePtb: the inspection, the validation and then the send; a caller whose send
\* threw has no proposal and may call again.
SubmitReviewed == /\ DraftStands
                  /\ Propose(Reviewed)
                  /\ IF stage'[Reviewed] = "proposed" THEN ProposeDraft
                     ELSE phase = "drafting" /\ UNCHANGED reviewVars
                  /\ UNCHANGED <<draft, approvals>>

\* ... or it throws before anything is sent.
RefuseReviewed == /\ ~DraftStands /\ ProposeDraft
                  /\ UNCHANGED <<heavyVars, draft, approvals>>

\* The reviewer's calls, until a decision is recorded.
ReviewReviewed ==
    /\ \/ \E t \in Targets, entry \in Entries : Register(t, entry)
       \/ Inspect
       \/ \E simulator \in Simulators, slippage \in Slippages : Simulate(simulator, slippage)
       \/ stage[Reviewed] = "proposed" /\ \E p \in Policies : Judge(p, now)
       \/ EvaluateOn
    /\ UNCHANGED <<heavyVars, draft, approvals>>

\* Whatever was not rejected is recorded as an approval.
VerdictUnlessRejected == IF decision = "rejected" THEN "no" ELSE "yes"

\* What verify and the guards read in the decision.
Verdict == IF decision = "approved" THEN "yes" ELSE "no"

\* evaluateAndRecord behind the evaluation: nothing happens between the two.
DecideReviewed ==
    /\ place = "done"
    /\ RecordDecision(Reviewed, Verdict)
    /\ EvaluateReturns
    /\ approvals' = IF Verdict = "yes" /\ session' # session
                    THEN approvals \cup {[at |-> Len(session'), policy |-> policy]}
                    ELSE approvals
    /\ UNCHANGED draft

\* The script's anchorAndRecord: for any executor, until the manifest expires.
AnchorReviewed ==
    /\ stage[Reviewed] = "approved"
    /\ \E executor \in Optional \cup {ZeroAddress} :
          LocalAnchorAction(Reviewed, executor, draft.manifest.expires, now)
    /\ stage' = [stage EXCEPT ![Reviewed] = "anchoring"]
    /\ UNCHANGED <<now, session, address, call, grants>>

\* The rest of the path: the clock, the executors, other actions in the session.
PathOn ==
    /\ \/ HeavyTick
       \/ AnchorReviewed
       \/ RecordAnchor(Reviewed)
       \/ \E h \in Hashes \ {Reviewed} : CoordinatorStep(h)
       \/ \E x \in Executors : ExecutorStep(x)
    /\ UNCHANGED <<reviewVars, draft, approvals>>

PathNext == SubmitReviewed \/ RefuseReviewed \/ ReviewReviewed \/ DecideReviewed \/ PathOn

PathSpec == PathInit /\ [][PathNext]_pathVars

-----------------------------------------------------------------------------
\* What is true of the transaction if p approved it.
KeptTo(p) ==
    /\ \A n \in DOMAIN p : WithinRule(p[n])
    /\ Len(p) >= 3 /\ SubSeq(p, 1, 3) = DefaultRules /\ Dangerous => VouchedFor

\* a is an approving decision on the action in the session.
Approves(a) == /\ a.at \in DOMAIN session
               /\ session[a.at].type = "decision" /\ session[a.at].says = "yes"
               /\ session[a.at].trace = Reviewed /\ session[a.at].hash = Reviewed

Running(x) == InTheMiddle(x) /\ call[x].action = Reviewed
Receipted(j) == session[j].type = "receipt" /\ session[j].trace = Reviewed

(***************************************************************************)
(* docs/protocol.md:484 and the coordinator of heavy-action-live.ts: the   *)
(* action runs, and is executed, with or without a receipt, only after a   *)
(* decision to approve it was written to the session, for a reason: by     *)
(* what its bytes say the transaction keeps to every rule of the policy    *)
(* that was evaluated, and dangerous code was vouched for.  A receipt has  *)
(* such a decision before it, and no run begins once the manifest that was *)
(* judged has expired.  Whatever was sent twice or not at all, evaluated   *)
(* again under another policy, claimed by several, crashed or came late.   *)
(***************************************************************************)
ExecutedWithinPolicy ==
    /\ (\E x \in Executors : Running(x)) \/ anchors[Reviewed].status = "executed" =>
          \E a \in approvals : Approves(a) /\ KeptTo(a.policy)
    /\ \A j \in DOMAIN session : Receipted(j) =>
          \E a \in approvals : a.at < j /\ Approves(a) /\ KeptTo(a.policy)
    /\ \A x \in Executors : Running(x) => call[x].at < action.manifest.expires
=============================================================================
