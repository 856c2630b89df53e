------------------------- MODULE ActionReviewProofs -------------------------
(***************************************************************************)
(* The policy engine for any rules, policies, facts and times: what the    *)
(* loop over the rules has made of the decision so far, and hence what an  *)
(* approval and a rejection mean.  Then the inspector for any well-formed  *)
(* transaction: what the facts say is what the bytes say, amounts added up *)
(* over the transfers included.  Both together: what an approval says of   *)
(* the bytes.                                                              *)
(***************************************************************************)
EXTENDS ActionReview, FiniteSetTheorems, WellFoundedInduction, TLAPS

(***************************************************************************)
(* The loop over the rules.                                                *)
(***************************************************************************)
\* The loop as far as rule k - 1: an approval is the absence of objections, ...
ApprovedSoFar ==
    decision = "approved" <=> \A n \in DOMAIN policy : n < next => ~Objects(n)

\* ... and a rejection is there still, unless a later rule took its place.
RejectedSoFar ==
    \A n \in DOMAIN policy :
        n < next /\ Objection(policy[n], facts, time) = "rejected" =>
            \/ decision = "rejected"
            \/ \E m \in DOMAIN policy : n < m /\ m < next /\ Overrides(policy[m], facts)

\* At the end: exactly what the code asks for, which is no successful simulation.
ApprovedExactly ==
    place = "done" =>
        (decision = "approved" <=> NobodyObjects /\ ChecksAreRules /\ ~SimulationFailed(facts))

EngineTypeOK == /\ policy \in Seq(Rules)
                /\ next \in 1 .. Len(policy) + 1
                /\ decision \in Decisions
                /\ place \in {"idle", "rules", "done"}

EngineInv == /\ EngineTypeOK
             /\ place = "idle" => next = 1 /\ decision = "approved"
             /\ place = "rules" => ApprovedSoFar /\ RejectedSoFar
             /\ ApprovedExactly
             /\ RejectionStands

-----------------------------------------------------------------------------
\* The worse of two decisions is one of the two, and the worst there is.
LEMMA WorseIsWorst ==
    ASSUME NEW a \in Decisions, NEW b \in Decisions
    PROVE  /\ WorseDecision(a, b) \in Decisions
           /\ WorseDecision(a, b) = "approved" <=> a = "approved" /\ b = "approved"
           /\ WorseDecision(a, b) = "rejected" <=> a = "rejected" \/ b = "rejected"
  BY DEF WorseDecision, Decisions

\* What a rule says is a decision.
LEMMA ObjectionIsDecision ==
    ASSUME NEW r \in Rules, NEW f, NEW t
    PROVE  Objection(r, f, t) \in Decisions
  BY PolicyAssumption DEF Objection, Decisions, Modes

\* A rule that overrides does not reject.
LEMMA OverridingIsNoRejection ==
    ASSUME NEW r \in Rules, NEW f, NEW t, Overrides(r, f)
    PROVE  Objection(r, f, t) # "rejected"
<1>1. r.name = "max_value_at_risk" /\ ~TooMuch(r, f)
  BY DEF Overrides, TooMuch
<1> QED
  BY <1>1 DEF Objection

\* One rule: no other way to an approval, and one way out of a rejection.
LEMMA OneRule ==
    ASSUME NEW d \in Decisions, NEW r \in Rules, NEW f, NEW t
    PROVE  /\ DecisionAfter(d, r, f, t) \in Decisions
           /\ DecisionAfter(d, r, f, t) = "approved" <=>
                 d = "approved" /\ Objection(r, f, t) = "approved" /\ ~Overrides(r, f)
           /\ Objection(r, f, t) = "rejected" => DecisionAfter(d, r, f, t) = "rejected"
           /\ d = "rejected" => DecisionAfter(d, r, f, t) = "rejected" \/ Overrides(r, f)
<1>1. Objection(r, f, t) \in Decisions
  BY ObjectionIsDecision
<1>2. CASE Overrides(r, f)
  BY <1>2, OverridingIsNoRejection DEF DecisionAfter, Decisions
<1>3. CASE ~Overrides(r, f)
  BY <1>1, <1>3, WorseIsWorst DEF DecisionAfter
<1> QED
  BY <1>2, <1>3

\* The end: nothing is approved that the loop did not approve, and a rejection stays.
LEMMA TheEnd ==
    ASSUME NEW d \in Decisions, NEW p, NEW f
    PROVE  /\ Conclusion(d, p, f) \in Decisions
           /\ Conclusion(d, p, f) = "approved" <=>
                 d = "approved" /\ MissingChecks(p, f) = {} /\ ~SimulationFailed(f)
           /\ d = "rejected" => Conclusion(d, p, f) = "rejected"
<1>1. "requires_confirmation" \in Decisions /\ "rejected" \in Decisions
  BY DEF Decisions
<1> QED
  BY <1>1, WorseIsWorst DEF Conclusion

\* Checks are missing unless each is a rule.
LEMMA NothingMissing ==
    ASSUME NEW p, NEW f
    PROVE  MissingChecks(p, f) = {} <=> f.requirements \subseteq NamesIn(p)
  BY DEF MissingChecks

-----------------------------------------------------------------------------
\* What was simulated with success did not fail.
LEMMA ExactByRules == ApprovedExactly => ApprovedByRules
  BY DEF ApprovedExactly, ApprovedByRules, SimulationFailed

LEMMA EngineInit == ReviewInit => EngineInv
<1> SUFFICES ASSUME ReviewInit PROVE EngineInv
  OBVIOUS
<1>1. policy \in Seq(Rules) /\ Len(policy) = 0 /\ next = 1
      /\ decision = "approved" /\ place = "idle"
  BY DEF ReviewInit
<1> QED
  BY <1>1 DEF EngineInv, EngineTypeOK, Decisions, ApprovedExactly, RejectionStands

\* Whoever leaves the engine alone leaves what is said of it.
LEMMA EngineKept == EngineInv /\ UNCHANGED policyVars => EngineInv'
  BY DEF EngineInv, policyVars, EngineTypeOK, ApprovedSoFar, RejectedSoFar, ApprovedExactly,
         NobodyObjects, ChecksAreRules, RejectionStands, Objects

LEMMA JudgeKeeps ==
    ASSUME EngineInv, NEW p \in Policies, NEW t \in Times, Judge(p, t)
    PROVE  EngineInv'
<1>1. p \in Seq(Rules)
  BY PolicyAssumption
<1>2. /\ place = "idle" /\ place' = "rules"
      /\ policy' = p /\ next' = next /\ decision' = decision
  BY DEF Judge, Evaluate
<1>3. next = 1 /\ decision = "approved"
  BY <1>2 DEF EngineInv
<1>4. EngineTypeOK'
  BY <1>1, <1>2, <1>3 DEF EngineTypeOK, Decisions
<1>5. \A n \in DOMAIN p : ~(n < 1)
  BY <1>1
<1>6. (ApprovedSoFar /\ RejectedSoFar)'
  BY <1>2, <1>3, <1>5 DEF ApprovedSoFar, RejectedSoFar
<1> QED
  BY <1>2, <1>4, <1>6 DEF EngineInv, ApprovedExactly, RejectionStands

LEMMA NextRuleKeeps ==
    ASSUME EngineInv, NextRule
    PROVE  EngineInv'
<1> DEFINE r == policy[next]
<1>1. /\ place = "rules" /\ place' = "rules"
      /\ next \in DOMAIN policy /\ next' = next + 1
      /\ decision' = DecisionAfter(decision, r, facts, time)
      /\ policy' = policy /\ facts' = facts /\ time' = time
  BY DEF NextRule
<1>2. EngineTypeOK /\ ApprovedSoFar /\ RejectedSoFar
  BY <1>1 DEF EngineInv
<1>3. /\ r \in Rules /\ decision \in Decisions
      /\ DOMAIN policy = 1 .. Len(policy) /\ Len(policy) \in Nat /\ next \in Nat
  BY <1>1, <1>2 DEF EngineTypeOK
<1>4. /\ decision' \in Decisions
      /\ decision' = "approved" <=>
            /\ decision = "approved" /\ ~Overrides(r, facts)
            /\ Objection(r, facts, time) = "approved"
      /\ Objection(r, facts, time) = "rejected" => decision' = "rejected"
      /\ decision = "rejected" => decision' = "rejected" \/ Overrides(r, facts)
  <2> HIDE DEF r
  <2> QED
    BY <1>1, <1>3, OneRule
<1>5. EngineTypeOK'
  BY <1>1, <1>2, <1>3, <1>4 DEF EngineTypeOK
<1>6. \A n \in DOMAIN policy : n < next + 1 <=> n < next \/ n = next
  BY <1>3
<1>7. \A n \in DOMAIN policy : Objects(n)' <=> Objects(n)
  BY <1>1 DEF Objects
<1>8. ApprovedSoFar'
  <2>1. decision' = "approved" <=> decision = "approved" /\ ~Objects(next)
    BY <1>4 DEF Objects
  <2>2. decision = "approved" <=> \A n \in DOMAIN policy : n < next => ~Objects(n)
    BY <1>2 DEF ApprovedSoFar
  <2>3. decision' = "approved" <=> \A n \in DOMAIN policy : n < next + 1 => ~Objects(n)
    BY <1>1, <1>6, <2>1, <2>2
  <2> QED
    BY <1>1, <1>7, <2>3 DEF ApprovedSoFar
<1>9. RejectedSoFar'
  <2> SUFFICES ASSUME NEW n \in DOMAIN policy, n < next + 1,
                      Objection(policy[n], facts, time) = "rejected"
               PROVE  \/ decision' = "rejected"
                      \/ \E m \in DOMAIN policy :
                            n < m /\ m < next + 1 /\ Overrides(policy[m], facts)
    BY <1>1 DEF RejectedSoFar
  <2>1. CASE n = next
    BY <1>4, <2>1
  <2>2. CASE n < next
    <3>1. CASE decision = "rejected"
      <4>1. next < next + 1
        BY <1>3
      <4> QED
        BY <1>1, <1>4, <2>2, <3>1, <4>1
    <3>2. CASE \E m \in DOMAIN policy : n < m /\ m < next /\ Overrides(policy[m], facts)
      BY <1>6, <3>2
    <3> QED
      BY <1>2, <2>2, <3>1, <3>2 DEF RejectedSoFar
  <2> QED
    BY <1>6, <2>1, <2>2
<1> QED
  BY <1>1, <1>5, <1>8, <1>9 DEF EngineInv, ApprovedExactly, RejectionStands

LEMMA ConcludeKeeps ==
    ASSUME EngineInv, Conclude
    PROVE  EngineInv'
<1>1. /\ place = "rules" /\ place' = "done"
      /\ next = Len(policy) + 1 /\ next' = next
      /\ decision' = Conclusion(decision, policy, facts)
      /\ policy' = policy /\ facts' = facts /\ time' = time
  BY DEF Conclude
<1>2. EngineTypeOK /\ ApprovedSoFar /\ RejectedSoFar
  BY <1>1 DEF EngineInv
<1>3. /\ decision \in Decisions
      /\ \A n \in DOMAIN policy : n < next
  BY <1>1, <1>2 DEF EngineTypeOK
<1>4. /\ decision' \in Decisions
      /\ decision' = "approved" <=> /\ decision = "approved"
                                    /\ facts.requirements \subseteq NamesIn(policy)
                                    /\ ~SimulationFailed(facts)
      /\ decision = "rejected" => decision' = "rejected"
  BY <1>1, <1>3, TheEnd, NothingMissing
<1>5. EngineTypeOK'
  BY <1>1, <1>2, <1>4 DEF EngineTypeOK
<1>6. decision = "approved" <=> \A n \in DOMAIN policy : ~Objects(n)
  BY <1>2, <1>3 DEF ApprovedSoFar
<1>7. \A n \in DOMAIN policy : Objects(n)' <=> Objects(n)
  BY <1>1 DEF Objects
<1>8. ApprovedExactly'
  BY <1>1, <1>4, <1>6, <1>7 DEF ApprovedExactly, NobodyObjects, ChecksAreRules, NamesIn,
                                SimulationFailed
<1>9. RejectionStands'
  BY <1>1, <1>2, <1>3, <1>4 DEF RejectedSoFar, RejectionStands
<1> QED
  BY <1>1, <1>5, <1>8, <1>9 DEF EngineInv

LEMMA GivingKeeps ==
    ASSUME GiveDecision
    PROVE  EngineInv'
<1>1. << >> \in Seq(Rules) /\ 1 \in 1 .. Len(<< >>) + 1
  OBVIOUS
<1> QED
  BY <1>1 DEF GiveDecision, EngineInv, EngineTypeOK, Decisions, ApprovedExactly, RejectionStands

LEMMA EngineStep == EngineInv /\ [ReviewNext]_reviewVars => EngineInv'
<1> SUFFICES ASSUME EngineInv, [ReviewNext]_reviewVars PROVE EngineInv'
  OBVIOUS
<1>1. ASSUME NEW t \in Targets, NEW entry \in Entries, Register(t, entry) PROVE EngineInv'
  BY <1>1, EngineKept DEF Register
<1>2. ASSUME NEW who, NEW ptb, NEW manifest, ProposePtb(who, ptb, manifest) PROVE EngineInv'
  BY <1>2, EngineKept DEF ProposePtb
<1>3. ASSUME NEW p \in Plans, ProposePlan(p) \/ BuildFails(p) PROVE EngineInv'
  <2>1. CASE ProposePlan(p)
    BY <1>2, <2>1 DEF ProposePlan
  <2>2. CASE BuildFails(p)
    BY <2>2, EngineKept DEF BuildFails
  <2> QED
    BY <1>3, <2>1, <2>2
<1>4. ASSUME NEW f, Review(f) PROVE EngineInv'
  BY <1>4, EngineKept DEF Review
<1>5. CASE Inspect
  BY <1>4, <1>5 DEF Inspect
<1>6. ASSUME NEW simulator \in Simulators, NEW slippage \in Slippages,
             Simulate(simulator, slippage)
      PROVE  EngineInv'
  BY <1>4, <1>6 DEF Simulate
<1>7. ASSUME NEW p \in Policies, NEW t \in Times, Judge(p, t) PROVE EngineInv'
  BY <1>7, JudgeKeeps
<1>8. CASE EvaluateOn
  BY <1>8, NextRuleKeeps, ConcludeKeeps DEF EvaluateOn
<1>9. CASE EvaluateReturns
  BY <1>9, GivingKeeps DEF EvaluateReturns
<1>10. CASE UNCHANGED reviewVars
  BY <1>10, EngineKept DEF reviewVars
<1> QED
  BY <1>1, <1>2, <1>3, <1>5, <1>6, <1>7, <1>8, <1>9, <1>10 DEF ReviewNext

-----------------------------------------------------------------------------
(***************************************************************************)
(* evaluate in packages/policy-engine: for all rules, policies, facts and  *)
(* times, a decision is an approval exactly if no rule objected, every     *)
(* required check is a rule, and no simulation failed.  That none was made *)
(* is no objection of the code, whatever docs/protocol.md:464 says; what   *)
(* both agree on is ApprovedByRules.                                       *)
(***************************************************************************)
THEOREM ApprovalIsExact == ReviewSpec => []ApprovedExactly /\ []ApprovedByRules
<1>1. EngineInv => ApprovedExactly /\ ApprovedByRules
  BY ExactByRules DEF EngineInv
<1> QED
  BY <1>1, EngineInit, EngineStep, PTL DEF ReviewSpec

(***************************************************************************)
(* evaluate in packages/policy-engine: for all rules, policies, facts and  *)
(* times, only a max_value rule that cannot read the amount takes back     *)
(* what a rule before it rejected.                                         *)
(***************************************************************************)
THEOREM RejectionIsFinal == ReviewSpec => []RejectionStands
<1>1. EngineInv => RejectionStands
  BY DEF EngineInv
<1> QED
  BY <1>1, EngineInit, EngineStep, PTL DEF ReviewSpec

-----------------------------------------------------------------------------
(***************************************************************************)
(* Sums over finite sets, by the definition of SumFunctionOnSet: a         *)
(* smallest set for which a statement fails cannot exist.                  *)
(***************************************************************************)
\* h has the sum of f over every subset of S.
Iterates(f, S, h) ==
    h = [s \in SUBSET S |-> IF s = {} THEN 0
                            ELSE LET x == CHOOSE x \in s : TRUE IN f[x] + h[s \ {x}]]

SumOver(f, S) == SumFunctionOnSet(f, S)

\* Among subsets of a finite set there is one of which no proper subset is among them.
LEMMA MinimalSet ==
    ASSUME NEW S, IsFiniteSet(S), NEW T, T \subseteq SUBSET S, T # {}
    PROVE  \E X \in T : \A Y \in T : Y \subseteq X => Y = X
<1> DEFINE F == FiniteSubsetsOf(S)
           R == StrictSubsetOrdering(S)
<1>1. IsWellFoundedOn(R, F)
  BY FS_StrictSubsetOrderingWellFounded
<1>2. T \subseteq F
  <2> SUFFICES ASSUME NEW X \in T PROVE X \in F
    OBVIOUS
  <2>1. IsFiniteSet(X)
    BY FS_Subset
  <2> QED
    BY <2>1 DEF FiniteSubsetsOf
<1>3. \E X \in T : \A Y \in T : ~(<<Y, X>> \in R)
  BY <1>1, <1>2, WFMin
<1>4. PICK X \in T : \A Y \in T : ~(<<Y, X>> \in R)
  BY <1>3
<1>5. ASSUME NEW Y \in T, Y \subseteq X, Y # X PROVE FALSE
  <2>1. <<Y, X>> \in R
    BY <1>5 DEF StrictSubsetOrdering
  <2> QED
    BY <1>4, <2>1
<1> QED
  BY <1>4, <1>5

LEMMA IterStep ==
    ASSUME NEW f, NEW S, NEW h, Iterates(f, S, h)
    PROVE  /\ h[{}] = 0
           /\ \A s \in SUBSET S : s # {} =>
                 h[s] = f[CHOOSE x \in s : TRUE] + h[s \ {CHOOSE x \in s : TRUE}]
<1> DEFINE k == [s \in SUBSET S |-> IF s = {} THEN 0
                   ELSE LET x == CHOOSE x \in s : TRUE IN f[x] + h[s \ {x}]]
<1>1. h = k
  BY DEF Iterates
<1>2. k[{}] = 0
  OBVIOUS
<1>3. \A s \in SUBSET S : s # {} =>
         k[s] = f[CHOOSE x \in s : TRUE] + h[s \ {CHOOSE x \in s : TRUE}]
  OBVIOUS
<1> HIDE DEF k
<1> QED
  BY <1>1, <1>2, <1>3

\* Two of them agree.
LEMMA IteratesAgree ==
    ASSUME NEW f, NEW S, IsFiniteSet(S), NEW h, Iterates(f, S, h),
           NEW U \in SUBSET S, NEW k, Iterates(f, U, k)
    PROVE  \A u \in SUBSET U : h[u] = k[u]
<1> DEFINE Bad == {u \in SUBSET U : h[u] # k[u]}
<1> SUFFICES ASSUME Bad # {} PROVE FALSE
  OBVIOUS
<1>1. PICK u \in Bad : \A v \in Bad : v \subseteq u => v = u
  <2>1. Bad \subseteq SUBSET S
    OBVIOUS
  <2> HIDE DEF Bad
  <2> QED
    BY <2>1, MinimalSet
<1>2. u \in SUBSET U /\ u \in SUBSET S /\ h[u] # k[u]
  OBVIOUS
<1>3. u # {}
  <2>1. h[{}] = 0 /\ k[{}] = 0
    BY IterStep
  <2> QED
    BY <1>2, <2>1
<1> DEFINE x == CHOOSE x \in u : TRUE
<1>4. x \in u
  BY <1>3
<1>5. h[u] = f[x] + h[u \ {x}] /\ k[u] = f[x] + k[u \ {x}]
  BY <1>2, <1>3, IterStep
<1>6. u \ {x} \in SUBSET U /\ ~(u \ {x} \in Bad)
  BY <1>1, <1>2, <1>4
<1>7. h[u \ {x}] = k[u \ {x}]
  BY <1>6
<1> QED
  BY <1>2, <1>5, <1>7

LEMMA IteratesExist ==
    ASSUME NEW f, NEW S, IsFiniteSet(S)
    PROVE  \E h : Iterates(f, S, h)
<1> DEFINE Bad == {s \in SUBSET S : ~\E h : Iterates(f, s, h)}
<1> SUFFICES ASSUME Bad # {} PROVE FALSE
  OBVIOUS
<1>1. PICK T \in Bad : \A v \in Bad : v \subseteq T => v = T
  <2>1. Bad \subseteq SUBSET S
    OBVIOUS
  <2> HIDE DEF Bad
  <2> QED
    BY <2>1, MinimalSet
<1>2. T \in SUBSET S /\ (~\E h : Iterates(f, T, h))
  OBVIOUS
<1>3. \A s \in SUBSET T : s # T => \E h : Iterates(f, s, h)
  <2> SUFFICES ASSUME NEW s \in SUBSET T, s # T PROVE \E h : Iterates(f, s, h)
    OBVIOUS
  <2>1. s \in SUBSET S /\ ~(s \in Bad)
    BY <1>1, <1>2
  <2> QED
    BY <2>1
<1> HIDE DEF Bad
<1> DEFINE H(s) == CHOOSE h : Iterates(f, s, h)
<1>4. \A s \in SUBSET T : s # T => Iterates(f, s, H(s))
  BY <1>3
<1>5. \A s \in SUBSET T : IsFiniteSet(s)
  <2> SUFFICES ASSUME NEW s \in SUBSET T PROVE IsFiniteSet(s)
    OBVIOUS
  <2>1. s \subseteq S
    BY <1>2
  <2> QED
    BY <2>1, FS_Subset
<1> DEFINE rest(s) == s \ {CHOOSE x \in s : TRUE}
           first(s) == f[CHOOSE x \in s : TRUE]
<1>6. \A s \in SUBSET T : s # {} => rest(s) \in SUBSET T /\ rest(s) # s /\ rest(s) # T
                                    /\ rest(s) \in SUBSET s
  OBVIOUS
<1>7. \A s \in SUBSET T : s # T /\ s # {} => H(s)[s] = first(s) + H(rest(s))[rest(s)]
  <2> SUFFICES ASSUME NEW s \in SUBSET T, s # T, s # {}
               PROVE  H(s)[s] = first(s) + H(rest(s))[rest(s)]
    OBVIOUS
  <2>1. Iterates(f, s, H(s)) /\ Iterates(f, rest(s), H(rest(s)))
    BY <1>4, <1>6
  <2>2. H(s)[s] = first(s) + H(s)[rest(s)]
    <3> HIDE DEF H
    <3> QED
      BY <2>1, IterStep
  <2>3. H(s)[rest(s)] = H(rest(s))[rest(s)]
    <3> HIDE DEF H, rest
    <3>1. rest(s) \in SUBSET s /\ IsFiniteSet(s) /\ rest(s) \in SUBSET rest(s)
      BY <1>5, <1>6
    <3> QED
      BY <2>1, <3>1, IteratesAgree
  <2> QED
    BY <2>2, <2>3
<1>8. \A s \in SUBSET T : s # T /\ s = {} => H(s)[s] = 0
  <2> HIDE DEF H
  <2> QED
    BY <1>4, IterStep
<1> HIDE DEF H, first, rest
<1> DEFINE top == IF T = {} THEN 0 ELSE first(T) + H(rest(T))[rest(T)]
           g == [s \in SUBSET T |-> IF s = T THEN top ELSE H(s)[s]]
<1>9. \A s \in SUBSET T : g[s] = IF s = {} THEN 0 ELSE first(s) + g[rest(s)]
  <2> SUFFICES ASSUME NEW s \in SUBSET T
               PROVE  g[s] = IF s = {} THEN 0 ELSE first(s) + g[rest(s)]
    OBVIOUS
  <2>1. s # {} => g[rest(s)] = H(rest(s))[rest(s)]
    BY <1>6
  <2>2. CASE s = T
    BY <2>1, <2>2
  <2>3. CASE s # T
    BY <1>7, <1>8, <2>1, <2>3
  <2> QED
    BY <2>2, <2>3
<1>10. g = [s \in SUBSET T |-> g[s]]
  OBVIOUS
<1> HIDE DEF g
<1>11. Iterates(f, T, g)
  <2>1. g = [s \in SUBSET T |-> IF s = {} THEN 0 ELSE first(s) + g[rest(s)]]
    BY <1>9, <1>10
  <2> QED
    BY <2>1 DEF Iterates, first, rest
<1> QED
  BY <1>2, <1>11

LEMMA SumIterates ==
    ASSUME NEW f, NEW S, IsFiniteSet(S)
    PROVE  \E h : Iterates(f, S, h) /\ \A s \in SUBSET S : SumOver(f, s) = h[s]
<1> DEFINE H(s) == CHOOSE h : Iterates(f, s, h)
<1>1. \A s : SumOver(f, s) = H(s)[s]
  BY DEF SumOver, SumFunctionOnSet, FoldFunctionOnSet, MapThenFoldSet, Iterates
<1>2. \A s \in SUBSET S : Iterates(f, s, H(s))
  <2> SUFFICES ASSUME NEW s \in SUBSET S PROVE Iterates(f, s, H(s))
    OBVIOUS
  <2>1. \E h : Iterates(f, s, h)
    BY FS_Subset, IteratesExist
  <2> QED
    BY <2>1
<1> HIDE DEF H
<1>3. \A s \in SUBSET S : H(S)[s] = H(s)[s]
  <2> SUFFICES ASSUME NEW s \in SUBSET S PROVE H(S)[s] = H(s)[s]
    OBVIOUS
  <2>1. s \in SUBSET s /\ S \in SUBSET S
    OBVIOUS
  <2> QED
    BY <1>2, <2>1, IteratesAgree
<1> QED
  BY <1>1, <1>2, <1>3

-----------------------------------------------------------------------------
\* What a function makes of a finite set is finite.
LEMMA ImageIsFinite ==
    ASSUME NEW S, IsFiniteSet(S), NEW b
    PROVE  IsFiniteSet({b[x] : x \in S})
<1> DEFINE T == {b[x] : x \in S}
           f == [x \in S |-> b[x]]
<1>1. f \in Surjection(S, T)
  BY DEF Surjection
<1> HIDE DEF f, T
<1>2. IsFiniteSet(T)
  BY <1>1, FS_Surjection
<1> QED
  BY <1>2 DEF T

LEMMA SumOfNone ==
    ASSUME NEW f
    PROVE  SumOver(f, {}) = 0
<1>1. IsFiniteSet({})
  BY FS_EmptySet
<1> QED
  BY <1>1, SumIterates, IterStep

LEMMA SumOfSome ==
    ASSUME NEW f, NEW S, IsFiniteSet(S), S # {}
    PROVE  \E x \in S : SumOver(f, S) = f[x] + SumOver(f, S \ {x})
<1> DEFINE x == CHOOSE x \in S : TRUE
<1>1. x \in S /\ S \in SUBSET S /\ S \ {x} \in SUBSET S
  OBVIOUS
<1>2. PICK h : Iterates(f, S, h) /\ \A s \in SUBSET S : SumOver(f, s) = h[s]
  BY SumIterates
<1>3. h[S] = f[x] + h[S \ {x}]
  BY <1>1, <1>2, IterStep
<1>4. SumOver(f, S) = h[S] /\ SumOver(f, S \ {x}) = h[S \ {x}]
  BY <1>1, <1>2
<1> QED
  BY <1>1, <1>3, <1>4

LEMMA SumIsNat ==
    ASSUME NEW f, NEW S, IsFiniteSet(S), \A x \in S : f[x] \in Nat
    PROVE  SumOver(f, S) \in Nat
<1> DEFINE Bad == {s \in SUBSET S : SumOver(f, s) \notin Nat}
<1> SUFFICES ASSUME Bad # {} PROVE FALSE
  OBVIOUS
<1>1. PICK s \in Bad : \A v \in Bad : v \subseteq s => v = s
  <2>1. Bad \subseteq SUBSET S
    OBVIOUS
  <2> HIDE DEF Bad
  <2> QED
    BY <2>1, MinimalSet
<1>2. s \in SUBSET S /\ SumOver(f, s) \notin Nat
  OBVIOUS
<1>3. IsFiniteSet(s) /\ s # {}
  <2>1. IsFiniteSet(s)
    BY <1>2, FS_Subset
  <2>2. SumOver(f, {}) \in Nat
    BY SumOfNone
  <2> QED
    BY <1>2, <2>1, <2>2
<1>4. PICK x \in s : SumOver(f, s) = f[x] + SumOver(f, s \ {x})
  BY <1>3, SumOfSome
<1>5. s \ {x} \in SUBSET S /\ ~(s \ {x} \in Bad)
  BY <1>1, <1>2, <1>4
<1>6. SumOver(f, s \ {x}) \in Nat /\ f[x] \in Nat
  BY <1>2, <1>4, <1>5
<1> QED
  BY <1>2, <1>4, <1>6

\* Any member may be taken out.
LEMMA SumTakes ==
    ASSUME NEW f, NEW S, IsFiniteSet(S), \A x \in S : f[x] \in Nat, NEW x \in S
    PROVE  SumOver(f, S) = f[x] + SumOver(f, S \ {x})
<1> DEFINE Bad == {s \in SUBSET S : \E y \in s : SumOver(f, s) # f[y] + SumOver(f, s \ {y})}
<1> SUFFICES ASSUME Bad # {} PROVE FALSE
  OBVIOUS
<1>1. PICK s \in Bad : \A v \in Bad : v \subseteq s => v = s
  <2>1. Bad \subseteq SUBSET S
    OBVIOUS
  <2> HIDE DEF Bad
  <2> QED
    BY <2>1, MinimalSet
<1>2. s \in SUBSET S /\ \E y \in s : SumOver(f, s) # f[y] + SumOver(f, s \ {y})
  OBVIOUS
<1>3. PICK y \in s : SumOver(f, s) # f[y] + SumOver(f, s \ {y})
  BY <1>2
<1>4. IsFiniteSet(s) /\ s # {}
  BY <1>2, <1>3, FS_Subset
<1>5. PICK z \in s : SumOver(f, s) = f[z] + SumOver(f, s \ {z})
  BY <1>4, SumOfSome
<1>6. z # y
  BY <1>3, <1>5
<1>7. /\ s \ {z} \in SUBSET S /\ ~(s \ {z} \in Bad) /\ y \in s \ {z}
      /\ s \ {y} \in SUBSET S /\ ~(s \ {y} \in Bad) /\ z \in s \ {y}
  BY <1>1, <1>2, <1>3, <1>5, <1>6
<1> DEFINE both == s \ {y, z}
<1>8. (s \ {z}) \ {y} = both /\ (s \ {y}) \ {z} = both
  OBVIOUS
<1>9. /\ SumOver(f, s \ {z}) = f[y] + SumOver(f, both)
      /\ SumOver(f, s \ {y}) = f[z] + SumOver(f, both)
  BY <1>7, <1>8
<1>10. SumOver(f, both) \in Nat
  <2>1. both \subseteq S /\ IsFiniteSet(both)
    BY <1>2, FS_Subset
  <2> HIDE DEF both
  <2> QED
    BY <2>1, SumIsNat
<1>11. f[y] \in Nat /\ f[z] \in Nat
  BY <1>2, <1>3, <1>5
<1> HIDE DEF both, Bad
<1>12. f[z] + (f[y] + SumOver(f, both)) = f[y] + (f[z] + SumOver(f, both))
  BY <1>10, <1>11
<1> QED
  BY <1>3, <1>5, <1>9, <1>12

\* The same amounts under other names.
LEMMA SumRenamed ==
    ASSUME NEW f, NEW S, IsFiniteSet(S), \A x \in S : f[x] \in Nat,
           NEW b, \A x, y \in S : b[x] = b[y] => x = y,
           NEW g, \A x \in S : g[b[x]] = f[x]
    PROVE  SumOver(g, {b[x] : x \in S}) = SumOver(f, S)
<1> DEFINE Image(s) == {b[x] : x \in s}
           Bad == {s \in SUBSET S : SumOver(g, Image(s)) # SumOver(f, s)}
<1> SUFFICES ASSUME Bad # {} PROVE FALSE
  OBVIOUS
<1>1. PICK s \in Bad : \A v \in Bad : v \subseteq s => v = s
  <2>1. Bad \subseteq SUBSET S
    OBVIOUS
  <2> HIDE DEF Bad
  <2> QED
    BY <2>1, MinimalSet
<1>2. s \in SUBSET S /\ SumOver(g, Image(s)) # SumOver(f, s)
  OBVIOUS
<1>3. IsFiniteSet(s) /\ s # {}
  <2>1. Image({}) = {}
    OBVIOUS
  <2>2. s # {}
    BY <1>2, <2>1, SumOfNone
  <2> QED
    BY <1>2, <2>2, FS_Subset
<1>4. PICK x \in s : TRUE
  BY <1>3
<1>5. SumOver(f, s) = f[x] + SumOver(f, s \ {x})
  BY <1>2, <1>3, SumTakes
<1>6. s \ {x} \in SUBSET S /\ ~(s \ {x} \in Bad)
  BY <1>1, <1>2, <1>4
<1>7. SumOver(g, Image(s \ {x})) = SumOver(f, s \ {x})
  BY <1>6
<1>8. Image(s \ {x}) = Image(s) \ {b[x]} /\ b[x] \in Image(s)
  BY <1>2
<1>9. IsFiniteSet(Image(s)) /\ \A y \in Image(s) : g[y] \in Nat
  <2>1. IsFiniteSet(Image(s))
    BY <1>3, ImageIsFinite
  <2> QED
    BY <1>2, <2>1
<1>10. SumOver(g, Image(s)) = g[b[x]] + SumOver(g, Image(s) \ {b[x]})
  <2> HIDE DEF Image
  <2> QED
    BY <1>8, <1>9, SumTakes
<1>11. g[b[x]] = f[x]
  BY <1>2
<1> HIDE DEF Image, Bad
<1> QED
  BY <1>2, <1>5, <1>7, <1>8, <1>10, <1>11

\* Parts that have nothing in common.
LEMMA SumOfParts ==
    ASSUME NEW f, NEW A, IsFiniteSet(A), NEW B, IsFiniteSet(B), A \cap B = {},
           \A x \in A \cup B : f[x] \in Nat
    PROVE  SumOver(f, A \cup B) = SumOver(f, A) + SumOver(f, B)
<1> DEFINE Bad == {s \in SUBSET A : SumOver(f, s \cup B) # SumOver(f, s) + SumOver(f, B)}
<1> SUFFICES ASSUME Bad # {} PROVE FALSE
  OBVIOUS
<1>1. PICK s \in Bad : \A v \in Bad : v \subseteq s => v = s
  <2>1. Bad \subseteq SUBSET A
    OBVIOUS
  <2> HIDE DEF Bad
  <2> QED
    BY <2>1, MinimalSet
<1>2. s \in SUBSET A /\ SumOver(f, s \cup B) # SumOver(f, s) + SumOver(f, B)
  OBVIOUS
<1>3. SumOver(f, B) \in Nat
  BY SumIsNat
<1>4. IsFiniteSet(s) /\ s # {}
  <2>1. {} \cup B = B
    OBVIOUS
  <2>2. s # {}
    BY <1>2, <1>3, <2>1, SumOfNone
  <2> QED
    BY <1>2, <2>2, FS_Subset
<1>5. PICK x \in s : TRUE
  BY <1>4
<1>6. s \ {x} \in SUBSET A /\ ~(s \ {x} \in Bad)
  BY <1>1, <1>2, <1>5
<1>7. SumOver(f, (s \ {x}) \cup B) = SumOver(f, s \ {x}) + SumOver(f, B)
  BY <1>6
<1>8. (s \cup B) \ {x} = (s \ {x}) \cup B
  BY <1>2
<1>9. SumOver(f, s) = f[x] + SumOver(f, s \ {x})
  BY <1>2, <1>4, SumTakes
<1>10. SumOver(f, s \cup B) = f[x] + SumOver(f, (s \cup B) \ {x})
  <2>1. IsFiniteSet(s \cup B) /\ \A y \in s \cup B : f[y] \in Nat
    BY <1>2, <1>4, FS_Union
  <2> QED
    BY <2>1, SumTakes
<1>11. f[x] \in Nat /\ SumOver(f, s \ {x}) \in Nat
  BY <1>2, <1>6, FS_Subset, SumIsNat
<1> HIDE DEF Bad
<1>12. f[x] + (SumOver(f, s \ {x}) + SumOver(f, B)) = (f[x] + SumOver(f, s \ {x})) + SumOver(f, B)
  BY <1>3, <1>11
<1> QED
  BY <1>2, <1>7, <1>8, <1>9, <1>10, <1>12

\* A sum of sums: U consists of the sets row[n], which have nothing in common.
LEMMA SumOfSums ==
    ASSUME NEW N, IsFiniteSet(N),
           NEW row, \A n \in N : IsFiniteSet(row[n]),
           \A m, n \in N : m # n => row[m] \cap row[n] = {},
           NEW U, \A x : x \in U <=> \E n \in N : x \in row[n],
           NEW f, \A x \in U : f[x] \in Nat,
           NEW t, \A n \in N : t[n] = SumOver(f, row[n])
    PROVE  SumOver(f, U) = SumOver(t, N)
<1> DEFINE All(s) == UNION {row[n] : n \in s}
           Bad == {s \in SUBSET N : SumOver(f, All(s)) # SumOver(t, s)}
<1>1. U = All(N)
  OBVIOUS
<1> SUFFICES ASSUME Bad # {} PROVE FALSE
  <2>1. N \in SUBSET N
    OBVIOUS
  <2> QED
    BY <1>1, <2>1
<1>2. PICK s \in Bad : \A v \in Bad : v \subseteq s => v = s
  <2>1. Bad \subseteq SUBSET N
    OBVIOUS
  <2> HIDE DEF Bad
  <2> QED
    BY <2>1, MinimalSet
<1>3. s \in SUBSET N /\ SumOver(f, All(s)) # SumOver(t, s)
  OBVIOUS
<1>4. IsFiniteSet(s) /\ s # {}
  <2>1. All({}) = {}
    OBVIOUS
  <2>2. s # {}
    BY <1>3, <2>1, SumOfNone
  <2> QED
    BY <1>3, <2>2, FS_Subset
<1>5. PICK n \in s : TRUE
  BY <1>4
<1> DEFINE A == row[n]
           B == All(s \ {n})
<1>6. SumOver(f, B) = SumOver(t, s \ {n})
  <2>1. s \ {n} \in SUBSET N /\ ~(s \ {n} \in Bad)
    BY <1>2, <1>3, <1>5
  <2> QED
    BY <2>1
<1>7. All(s) = A \cup B /\ A \cap B = {} /\ \A x \in A \cup B : f[x] \in Nat
  BY <1>3
<1>8. IsFiniteSet(A) /\ IsFiniteSet(B)
  <2> DEFINE rows == {row[m] : m \in s \ {n}}
  <2>1. IsFiniteSet(s \ {n})
    BY <1>4, FS_Subset
  <2>2. IsFiniteSet(rows)
    BY <2>1, ImageIsFinite
  <2>3. \A r \in rows : IsFiniteSet(r)
    BY <1>3
  <2>4. IsFiniteSet(UNION rows)
    <3> HIDE DEF rows
    <3> QED
      BY <2>2, <2>3, FS_UNION
  <2> QED
    BY <1>3, <2>4
<1>9. \A m \in s : t[m] \in Nat
  <2> SUFFICES ASSUME NEW m \in s PROVE t[m] \in Nat
    OBVIOUS
  <2>1. IsFiniteSet(row[m]) /\ (\A x \in row[m] : f[x] \in Nat) /\ t[m] = SumOver(f, row[m])
    BY <1>3
  <2> QED
    BY <2>1, SumIsNat
<1> HIDE DEF A, B, All, Bad
<1>10. SumOver(f, A \cup B) = SumOver(f, A) + SumOver(f, B)
  BY <1>7, <1>8, SumOfParts
<1>11. SumOver(t, s) = t[n] + SumOver(t, s \ {n})
  BY <1>4, <1>5, <1>9, SumTakes
<1>12. t[n] = SumOver(f, A)
  BY <1>3, <1>5 DEF A
<1> QED
  BY <1>3, <1>6, <1>7, <1>10, <1>11, <1>12

-----------------------------------------------------------------------------
(***************************************************************************)
(* The inspector.                                                          *)
(***************************************************************************)
LEMMA OfKindShape ==
    ASSUME NEW commands, NEW kind
    PROVE  /\ \A n : n \in DOMAIN OfKind(commands, kind) <=>
                      n \in DOMAIN commands /\ commands[n].kind = kind
           /\ \A n \in DOMAIN OfKind(commands, kind) : OfKind(commands, kind)[n] = commands[n]
  BY DEF OfKind, RestrictValues, Restrict

\* What a normalized command is, by the kind of the command.
LEMMA NormalizedKinds ==
    ASSUME NEW commands, NEW n,
           commands[n].kind \in CommandKinds \ {"SplitCoins"}
    PROVE  LET c == commands[n]
               m == Normalize(commands, n)
           IN  /\ m.kind = "transfer" <=> c.kind = "TransferObjects"
               /\ m.kind = "moveCall" <=> c.kind = "MoveCall"
               /\ m.kind = "publish" <=> c.kind = "Publish"
               /\ m.kind = "upgrade" <=> c.kind = "Upgrade"
               /\ m.kind # "custom"
               /\ c.kind = "TransferObjects" => m = Transfer(commands, n)
               /\ c.kind = "MoveCall" => m.target = c.target /\ c.target.package \in m.packages
               /\ c.kind = "Upgrade" => c.package \in m.packages
<1> DEFINE c == commands[n]
<1>1. CASE c.kind = "MoveCall"
  BY <1>1 DEF Normalize, MoveCall
<1>2. CASE c.kind = "MergeCoins"
  BY <1>2 DEF Normalize, Normalized
<1>3. CASE c.kind = "TransferObjects"
  <2>1. Normalize(commands, n) = Transfer(commands, n)
    BY <1>3 DEF Normalize
  <2>2. Transfer(commands, n).kind = "transfer"
    BY DEF Transfer
  <2> QED
    BY <1>3, <2>1, <2>2
<1>4. CASE c.kind = "MakeMoveVec"
  BY <1>4 DEF Normalize, Normalized
<1>5. CASE c.kind = "Publish"
  BY <1>5 DEF Normalize, Normalized
<1>6. CASE c.kind = "Upgrade"
  BY <1>6 DEF Normalize, Normalized
<1> QED
  BY <1>1, <1>2, <1>3, <1>4, <1>5, <1>6 DEF CommandKinds

\* The places at which a transaction has a command of some kind.
PlacesOf(ptb, kind) == {n \in DOMAIN ptb.commands : ptb.commands[n].kind = kind}

\* What the inspector makes of the commands of a Sui transaction.
LEMMA CommandsFound ==
    ASSUME NEW ptb, WellFormed(ptb), ptb.format = "sui"
    PROVE  LET found == Commands(ptb)
               given == DOMAIN ptb.commands \ PlacesOf(ptb, "SplitCoins")
           IN  /\ given # {} => /\ DOMAIN found = given
                                /\ \A n \in given : found[n] = Normalize(ptb.commands, n)
               /\ given = {} => found = <<OpaquePtb>>
               /\ \A n \in given : ptb.commands[n].kind \in CommandKinds \ {"SplitCoins"}
  BY DEF Commands, WellFormed, PlacesOf

\* Transfers, calls and what is published or upgraded are found where they are.
LEMMA KindsFound ==
    ASSUME NEW ptb, WellFormed(ptb), ptb.format = "sui"
    PROVE  /\ DOMAIN OfKind(Commands(ptb), "transfer") = PlacesOf(ptb, "TransferObjects")
           /\ DOMAIN OfKind(Commands(ptb), "moveCall") = PlacesOf(ptb, "MoveCall")
           /\ \A n \in PlacesOf(ptb, "TransferObjects") :
                 OfKind(Commands(ptb), "transfer")[n] = Transfer(ptb.commands, n)
           /\ \A n \in PlacesOf(ptb, "MoveCall") :
                 OfKind(Commands(ptb), "moveCall")[n].target = ptb.commands[n].target
           /\ Has(Commands(ptb), "publish") <=> PlacesOf(ptb, "Publish") # {}
           /\ Has(Commands(ptb), "upgrade") <=> PlacesOf(ptb, "Upgrade") # {}
           /\ Has(Commands(ptb), "custom") <=>
                 DOMAIN ptb.commands = PlacesOf(ptb, "SplitCoins")
<1> DEFINE given == DOMAIN ptb.commands \ PlacesOf(ptb, "SplitCoins")
           found == Commands(ptb)
<1>1. /\ given # {} => /\ DOMAIN found = given
                       /\ \A n \in given : found[n] = Normalize(ptb.commands, n)
      /\ given = {} => found = <<OpaquePtb>>
      /\ \A n \in given : ptb.commands[n].kind \in CommandKinds \ {"SplitCoins"}
  BY CommandsFound
<1>2. /\ given = {} <=> DOMAIN ptb.commands = PlacesOf(ptb, "SplitCoins")
  BY DEF PlacesOf
<1>5. /\ PlacesOf(ptb, "TransferObjects") = {n \in given : ptb.commands[n].kind = "TransferObjects"}
      /\ PlacesOf(ptb, "MoveCall") = {n \in given : ptb.commands[n].kind = "MoveCall"}
      /\ PlacesOf(ptb, "Publish") = {n \in given : ptb.commands[n].kind = "Publish"}
      /\ PlacesOf(ptb, "Upgrade") = {n \in given : ptb.commands[n].kind = "Upgrade"}
  BY DEF PlacesOf
<1> HIDE DEF given, found
<1>3. CASE given = {}
  <2>1. found = <<OpaquePtb>> /\ DOMAIN found = {1} /\ found[1].kind = "custom"
    BY <1>1, <1>3 DEF OpaquePtb, Normalized
  <2>2. /\ PlacesOf(ptb, "TransferObjects") = {} /\ PlacesOf(ptb, "MoveCall") = {}
        /\ PlacesOf(ptb, "Publish") = {} /\ PlacesOf(ptb, "Upgrade") = {}
    BY <1>3, <1>5
  <2>3. /\ \A n : n \in DOMAIN OfKind(found, "transfer") <=>
                   n \in DOMAIN found /\ found[n].kind = "transfer"
        /\ \A n : n \in DOMAIN OfKind(found, "moveCall") <=>
                   n \in DOMAIN found /\ found[n].kind = "moveCall"
    BY OfKindShape
  <2>4. DOMAIN OfKind(found, "transfer") = {} /\ DOMAIN OfKind(found, "moveCall") = {}
    BY <2>1, <2>3
  <2>5. Has(found, "custom") /\ ~Has(found, "publish") /\ ~Has(found, "upgrade")
    BY <2>1 DEF Has
  <2> QED
    BY <1>2, <1>3, <2>2, <2>4, <2>5 DEF found
<1>4. CASE given # {}
  <2>1. DOMAIN found = given /\ \A n \in given : found[n] = Normalize(ptb.commands, n)
    BY <1>1, <1>4
  <2>2. \A n \in given :
           /\ found[n].kind = "transfer" <=> ptb.commands[n].kind = "TransferObjects"
           /\ found[n].kind = "moveCall" <=> ptb.commands[n].kind = "MoveCall"
           /\ found[n].kind = "publish" <=> ptb.commands[n].kind = "Publish"
           /\ found[n].kind = "upgrade" <=> ptb.commands[n].kind = "Upgrade"
           /\ found[n].kind # "custom"
           /\ ptb.commands[n].kind = "TransferObjects" => found[n] = Transfer(ptb.commands, n)
           /\ ptb.commands[n].kind = "MoveCall" => found[n].target = ptb.commands[n].target
    BY <1>1, <2>1, NormalizedKinds
  <2>6. /\ \A n : n \in DOMAIN OfKind(found, "transfer") <=>
                   n \in DOMAIN found /\ found[n].kind = "transfer"
        /\ \A n : n \in DOMAIN OfKind(found, "moveCall") <=>
                   n \in DOMAIN found /\ found[n].kind = "moveCall"
        /\ \A n \in DOMAIN OfKind(found, "transfer") : OfKind(found, "transfer")[n] = found[n]
        /\ \A n \in DOMAIN OfKind(found, "moveCall") : OfKind(found, "moveCall")[n] = found[n]
    BY OfKindShape
  <2>3. /\ DOMAIN OfKind(found, "transfer") = PlacesOf(ptb, "TransferObjects")
        /\ DOMAIN OfKind(found, "moveCall") = PlacesOf(ptb, "MoveCall")
    BY <1>5, <2>1, <2>2, <2>6
  <2>4. /\ \A n \in PlacesOf(ptb, "TransferObjects") :
              OfKind(found, "transfer")[n] = Transfer(ptb.commands, n)
        /\ \A n \in PlacesOf(ptb, "MoveCall") :
              OfKind(found, "moveCall")[n].target = ptb.commands[n].target
    BY <1>5, <2>2, <2>3, <2>6
  <2>5. /\ Has(found, "publish") <=> PlacesOf(ptb, "Publish") # {}
        /\ Has(found, "upgrade") <=> PlacesOf(ptb, "Upgrade") # {}
        /\ ~Has(found, "custom")
    BY <1>5, <2>1, <2>2 DEF Has
  <2> QED
    BY <1>2, <1>4, <2>3, <2>4, <2>5 DEF found
<1> QED
  BY <1>3, <1>4

\* Whatever is called or upgraded is among the packages.
LEMMA PackagesFound ==
    ASSUME NEW ptb, WellFormed(ptb), ptb.format = "sui"
    PROVE  LET found == Commands(ptb)
               packages == UNION {found[n].packages : n \in DOMAIN found}
           IN  /\ \A n \in PlacesOf(ptb, "MoveCall") : ptb.commands[n].target.package \in packages
               /\ \A n \in PlacesOf(ptb, "Upgrade") : ptb.commands[n].package \in packages
<1> DEFINE found == Commands(ptb)
           given == DOMAIN ptb.commands \ PlacesOf(ptb, "SplitCoins")
<1>1. ASSUME NEW n \in DOMAIN ptb.commands, ptb.commands[n].kind \in {"MoveCall", "Upgrade"}
      PROVE  /\ n \in DOMAIN found
             /\ ptb.commands[n].kind = "MoveCall" =>
                   ptb.commands[n].target.package \in found[n].packages
             /\ ptb.commands[n].kind = "Upgrade" => ptb.commands[n].package \in found[n].packages
  <2>1. n \in given
    BY <1>1 DEF PlacesOf
  <2>2. /\ n \in DOMAIN found /\ found[n] = Normalize(ptb.commands, n)
        /\ ptb.commands[n].kind \in CommandKinds \ {"SplitCoins"}
    BY <2>1, CommandsFound
  <2> HIDE DEF found
  <2> QED
    BY <2>2, NormalizedKinds
<1> HIDE DEF found
<1> QED
  BY <1>1 DEF PlacesOf, found

\* Every split coin that a transfer sends has an amount, if it decodes.
LEMMA SplitAmounts ==
    ASSUME NEW ptb, WellFormed(ptb), ptb.format = "sui",
           NEW n \in PlacesOf(ptb, "TransferObjects")
    PROVE  /\ IsFiniteSet(Splits(ptb.commands, n))
           /\ \A i \in Splits(ptb.commands, n) :
                 SplitAmount(ptb.commands, ptb.commands[n].args[i]) \in Nat \cup {Unknown}
<1> DEFINE commands == ptb.commands
           args == commands[n].args
<1>1. /\ commands \in Seq(Range(commands)) /\ n \in DOMAIN commands
      /\ args \in Seq(Range(args))
      /\ \A m \in DOMAIN commands : commands[m].kind = "SplitCoins" =>
            \A i \in DOMAIN commands[m].amounts :
               Decoded(commands[m].amounts[i]) \in Nat \cup {Unknown}
  BY DEF PlacesOf, WellFormed
<1>2. Splits(commands, n) \subseteq DOMAIN args /\ IsFiniteSet(DOMAIN args)
  <2>1. DOMAIN args = 1 .. Len(args) /\ Len(args) \in Nat
    BY <1>1
  <2>2. IsFiniteSet(1 .. Len(args))
    BY <2>1, FS_Interval
  <2> QED
    BY <2>1, <2>2 DEF Splits
<1>3. ASSUME NEW i \in Splits(commands, n)
      PROVE  SplitAmount(commands, args[i]) \in Nat \cup {Unknown}
  <2> DEFINE arg == args[i]
  <2>1. /\ arg.command \in 1 .. n - 1 /\ commands[arg.command].kind = "SplitCoins"
        /\ arg.result \in DOMAIN commands[arg.command].amounts
    BY DEF Splits, FromSplit
  <2>2. arg.command \in DOMAIN commands
    BY <1>1, <2>1
  <2> QED
    BY <1>1, <2>1, <2>2 DEF SplitAmount
<1> QED
  BY <1>2, <1>3, FS_Subset

\* The amount of a transfer, if it is known, is the sum of the coins it sends.
LEMMA TransferAmount ==
    ASSUME NEW ptb, WellFormed(ptb), ptb.format = "sui",
           NEW n \in PlacesOf(ptb, "TransferObjects"), Unknown \notin Nat
    PROVE  LET sent == Splits(ptb.commands, n)
               amount(i) == SplitAmount(ptb.commands, ptb.commands[n].args[i])
               t == Transfer(ptb.commands, n)
           IN  /\ t.recipient = Decoded(ptb.commands[n].address)
               /\ t.coin = IF sent = {} THEN Unknown ELSE "SUI"
               /\ t.amount \in Nat \cup {Unknown}
               /\ sent = {} => t.amount = Unknown
               /\ t.amount # Unknown =>
                     /\ \A i \in sent : amount(i) \in Nat
                     /\ t.amount = SumOver([i \in sent |-> amount(i)], sent)
<1> DEFINE sent == Splits(ptb.commands, n)
           amounts == [i \in sent |-> SplitAmount(ptb.commands, ptb.commands[n].args[i])]
           t == Transfer(ptb.commands, n)
<1>1. /\ t.recipient = Decoded(ptb.commands[n].address)
      /\ t.coin = IF sent = {} THEN Unknown ELSE "SUI"
      /\ t.amount = IF sent = {} THEN Unknown ELSE Total(amounts)
  BY DEF Transfer
<1>2. IsFiniteSet(sent) /\ \A i \in sent : amounts[i] \in Nat \cup {Unknown}
  BY SplitAmounts
<1>3. /\ DOMAIN amounts = sent
      /\ Unknown \in Range(amounts) <=> \E i \in sent : amounts[i] = Unknown
  BY DEF Range
<1>4. CASE \E i \in sent : amounts[i] = Unknown
  BY <1>1, <1>3, <1>4 DEF Total
<1>5. CASE \A i \in sent : amounts[i] # Unknown
  <2>1. Total(amounts) = SumOver(amounts, sent)
    BY <1>3, <1>5 DEF Total, SumFunction, SumOver
  <2>2. \A i \in sent : amounts[i] \in Nat
    BY <1>2, <1>5
  <2>3. SumOver(amounts, sent) \in Nat
    <3> HIDE DEF amounts, sent
    <3> QED
      BY <1>2, <2>2, SumIsNat
  <2> QED
    BY <1>1, <2>1, <2>2, <2>3
<1> QED
  BY <1>4, <1>5

\* The split coins a transaction sends, by the places of their transfers.
CoinsSent(ptb) == UNION {{<<n, i>> : i \in Splits(ptb.commands, n)} :
                       n \in PlacesOf(ptb, "TransferObjects")}
Amounts(ptb) == [s \in CoinsSent(ptb) |-> SplitAmount(ptb.commands, ptb.commands[s[1]].args[s[2]])]

\* If every transfer has an amount, they add up to the coins that are sent.
LEMMA AmountsAddUp ==
    ASSUME NEW ptb, WellFormed(ptb), ptb.format = "sui", Unknown \notin Nat,
           \A n \in PlacesOf(ptb, "TransferObjects") : Transfer(ptb.commands, n).amount # Unknown
    PROVE  /\ \A s \in CoinsSent(ptb) : Amounts(ptb)[s] \in Nat
           /\ LET places == PlacesOf(ptb, "TransferObjects")
              IN  SumOver(Amounts(ptb), CoinsSent(ptb)) =
                     SumOver([n \in places |-> Transfer(ptb.commands, n).amount], places)
<1> DEFINE places == PlacesOf(ptb, "TransferObjects")
           sent(n) == Splits(ptb.commands, n)
           amount(n, i) == SplitAmount(ptb.commands, ptb.commands[n].args[i])
           f == Amounts(ptb)
           t == [n \in places |-> Transfer(ptb.commands, n).amount]
<1>1. \A n \in places : /\ IsFiniteSet(sent(n))
                        /\ \A i \in sent(n) : amount(n, i) \in Nat
                        /\ t[n] = SumOver([i \in sent(n) |-> amount(n, i)], sent(n))
  BY SplitAmounts, TransferAmount
<1>2. \A n \in places : \A i \in sent(n) : <<n, i>> \in CoinsSent(ptb) /\ f[<<n, i>>] = amount(n, i)
  BY DEF CoinsSent, Amounts
<1>3. \A n \in places : t[n] = SumOver(f, {<<n, i>> : i \in sent(n)})
  <2> SUFFICES ASSUME NEW n \in places PROVE t[n] = SumOver(f, {<<n, i>> : i \in sent(n)})
    OBVIOUS
  <2> DEFINE S == sent(n)
             a == [i \in S |-> amount(n, i)]
             b == [i \in S |-> <<n, i>>]
  <2>1. /\ IsFiniteSet(S) /\ (\A i \in S : a[i] \in Nat)
        /\ (\A x, y \in S : b[x] = b[y] => x = y) /\ (\A x \in S : f[b[x]] = a[x])
    BY <1>1, <1>2
  <2>2. t[n] = SumOver(a, S) /\ {<<n, i>> : i \in sent(n)} = {b[i] : i \in S}
    BY <1>1
  <2> HIDE DEF a, b, S, f, t
  <2>3. SumOver(f, {b[i] : i \in S}) = SumOver(a, S)
    BY <2>1, SumRenamed
  <2> QED
    BY <2>2, <2>3
<1>4. IsFiniteSet(places)
  <2>1. DOMAIN ptb.commands = 1 .. Len(ptb.commands) /\ Len(ptb.commands) \in Nat
    BY DEF WellFormed
  <2>2. IsFiniteSet(1 .. Len(ptb.commands)) /\ places \subseteq 1 .. Len(ptb.commands)
    BY <2>1, FS_Interval DEF PlacesOf
  <2> QED
    BY <2>2, FS_Subset
<1> DEFINE row == [n \in places |-> {<<n, i>> : i \in sent(n)}]
<1>5. \A n \in places : IsFiniteSet(row[n])
  <2> SUFFICES ASSUME NEW n \in places PROVE IsFiniteSet(row[n])
    OBVIOUS
  <2> DEFINE b == [i \in sent(n) |-> <<n, i>>]
  <2>1. row[n] = {b[i] : i \in sent(n)} /\ IsFiniteSet(sent(n))
    BY <1>1
  <2> HIDE DEF b, row, sent
  <2> QED
    BY <2>1, ImageIsFinite
<1>6. /\ \A m, n \in places : m # n => row[m] \cap row[n] = {}
      /\ \A x : x \in CoinsSent(ptb) <=> \E n \in places : x \in row[n]
      /\ \A n \in places : t[n] = SumOver(f, row[n])
  BY <1>3 DEF CoinsSent
<1>7. \A x \in CoinsSent(ptb) : f[x] \in Nat
  <2> SUFFICES ASSUME NEW x \in CoinsSent(ptb) PROVE f[x] \in Nat
    OBVIOUS
  <2>1. PICK n \in places : x \in row[n]
    BY <1>6
  <2>2. PICK i \in sent(n) : x = <<n, i>>
    BY <2>1
  <2>3. f[<<n, i>>] = amount(n, i) /\ amount(n, i) \in Nat
    BY <1>1, <1>2
  <2> HIDE DEF f, amount
  <2> QED
    BY <2>2, <2>3
<1> HIDE DEF row, f, t, places, sent, amount
<1>8. SumOver(f, CoinsSent(ptb)) = SumOver(t, places)
  BY <1>4, <1>5, <1>6, <1>7, SumOfSums
<1> QED
  BY <1>7, <1>8 DEF f, t, places

\* The first of some places is one of them.
LEMMA FirstPlace ==
    ASSUME NEW S, S \subseteq Nat, S # {}
    PROVE  Min(S) \in S
<1>1. PICK x \in S : \A y \in S : ~(<<y, x>> \in OpToRel(<, Nat))
  BY NatLessThanWellFounded, WFMin
<1>2. \A y \in S : x <= y
  <2> SUFFICES ASSUME NEW y \in S PROVE x <= y
    OBVIOUS
  <2>1. ~(y < x)
    BY <1>1 DEF OpToRel
  <2> QED
    BY <2>1
<1> QED
  BY <1>2 DEF Min

\* What a limit on the value that did not object says of the coins that are sent.
LEMMA ValueWithin ==
    ASSUME NEW ptb, WellFormed(ptb), ptb.format = "sui",
           NEW value, LET inferred == InferValueAtRisk(OfKind(Commands(ptb), "transfer"))
                      IN  inferred # None => value = inferred,
           NEW r, NEW f, f.value = value, r.max \in Nat,
           \/ r.coin = None
           \/ /\ r.coin = "SUI"
              /\ \A m, n \in PlacesOf(ptb, "TransferObjects") :
                    Splits(ptb.commands, m) = {} => Splits(ptb.commands, n) = {},
           ~NotAnInteger(r, f), ~TooMuch(r, f)
    PROVE  /\ \A s \in CoinsSent(ptb) : Amounts(ptb)[s] \in Nat
           /\ SumOver(Amounts(ptb), CoinsSent(ptb)) <= r.max
<1> DEFINE T == OfKind(Commands(ptb), "transfer")
           places == PlacesOf(ptb, "TransferObjects")
           inferred == InferValueAtRisk(T)
           coin == First(T).coin
           amounts == [n \in places |-> T[n].amount]
<1>1. {None, Unknown} \cap Nat = {}
  BY ValueAssumption
<1>2. DOMAIN T = places /\ \A n \in places : T[n] = Transfer(ptb.commands, n)
  BY KindsFound
<1>3. \A n \in places : /\ T[n].coin = IF Splits(ptb.commands, n) = {} THEN Unknown ELSE "SUI"
                        /\ T[n].amount \in Nat \cup {Unknown}
  <2> SUFFICES ASSUME NEW n \in places
               PROVE  /\ T[n].coin = IF Splits(ptb.commands, n) = {} THEN Unknown ELSE "SUI"
                      /\ T[n].amount \in Nat \cup {Unknown}
    OBVIOUS
  <2>1. Unknown \notin Nat
    BY <1>1
  <2>2. LET t == Transfer(ptb.commands, n)
        IN  /\ t.coin = IF Splits(ptb.commands, n) = {} THEN Unknown ELSE "SUI"
            /\ t.amount \in Nat \cup {Unknown}
    BY <2>1, TransferAmount
  <2> HIDE DEF T
  <2> QED
    BY <1>2, <2>2
<1>4. CASE CoinsSent(ptb) = {}
  BY <1>4, SumOfNone
<1>5. CASE CoinsSent(ptb) # {}
  <2>1. PICK n \in places : Splits(ptb.commands, n) # {}
    BY <1>5 DEF CoinsSent
  <2>2. Min(places) \in places
    <3>1. places \subseteq Nat
      BY DEF PlacesOf, WellFormed
    <3> HIDE DEF places
    <3> QED
      BY <2>1, <3>1, FirstPlace
  <2>3. First(T) = T[Min(places)]
    BY <1>2 DEF First
  <2>4. inferred = IF \E m \in places : T[m].coin # coin
                   THEN [amount |-> Unknown, coin |-> "mixed"]
                   ELSE [amount |-> Total(amounts), coin |-> coin]
    BY <1>2, <2>1 DEF InferValueAtRisk
  <2>5. \A m \in places : amounts[m] = T[m].amount
    OBVIOUS
  <2>6. IsFiniteSet(places)
    <3>1. DOMAIN ptb.commands = 1 .. Len(ptb.commands) /\ Len(ptb.commands) \in Nat
      BY DEF WellFormed
    <3>2. IsFiniteSet(1 .. Len(ptb.commands)) /\ places \subseteq 1 .. Len(ptb.commands)
      BY <3>1, FS_Interval DEF PlacesOf
    <3> QED
      BY <3>2, FS_Subset
  <2>7. Total(amounts) = IF \E m \in places : T[m].amount = Unknown
                         THEN Unknown ELSE SumOver(amounts, places)
    BY DEF Total, Range, SumFunction, SumOver
  <2>8. Total(amounts) \in Nat \cup {Unknown}
    <3>1. CASE \E m \in places : T[m].amount = Unknown
      BY <2>7, <3>1
    <3>2. CASE \A m \in places : T[m].amount # Unknown
      <4>1. \A m \in places : amounts[m] \in Nat
        BY <1>3, <2>5, <3>2
      <4>2. SumOver(amounts, places) \in Nat
        <5> HIDE DEF amounts, places
        <5> QED
          BY <2>6, <4>1, SumIsNat
      <4> QED
        BY <2>7, <3>2, <4>2
    <3> QED
      BY <3>1, <3>2
  <2>9. coin \in {"SUI", Unknown}
    BY <1>3, <2>2, <2>3
  <2> HIDE DEF T, places, inferred, coin, amounts
  <2>10. /\ inferred # None /\ f.value = inferred
         /\ inferred.amount \in Nat \cup {Unknown}
         /\ inferred.amount # Unknown => /\ inferred.amount = Total(amounts)
                                         /\ inferred.coin = coin
                                         /\ \A m \in places : T[m].coin = coin
    <3>1. inferred \in [amount : Nat \cup {Unknown, Padded}, coin : {"SUI", "mixed", Unknown}]
      BY <2>4, <2>8, <2>9
    <3>2. inferred # None
      BY <3>1, ValueAssumption
    <3>3. f.value = inferred
      BY <3>2 DEF inferred, T
    <3> QED
      BY <2>4, <2>8, <3>2, <3>3
  <2>11. r.coin \in {None, inferred.coin}
    <3>1. CASE r.coin = None
      BY <3>1
    <3>2. CASE r.coin = "SUI" /\ \A m, k \in places :
                   Splits(ptb.commands, m) = {} => Splits(ptb.commands, k) = {}
      <4>1. \A m \in places : T[m].coin = "SUI"
        BY <1>3, <2>1, <3>2
      <4>2. coin = "SUI"
        BY <2>2, <2>3, <4>1 DEF coin
      <4> QED
        BY <2>4, <3>2, <4>1, <4>2
    <3> QED
      BY <3>1, <3>2 DEF places
  <2>12. Compares(r, f)
    BY <1>1, <2>10, <2>11 DEF Compares
  <2>13. inferred.amount # Unknown /\ r.max # Unknown
    BY <1>1, <2>10, <2>12 DEF NotAnInteger
  <2>14. inferred.amount <= r.max
    BY <2>10, <2>12, <2>13 DEF TooMuch
  <2>15. Total(amounts) = SumOver(amounts, places) /\ \A m \in places : T[m].amount # Unknown
    BY <2>7, <2>10, <2>13
  <2>16. amounts = [m \in places |-> Transfer(ptb.commands, m).amount]
    BY <1>2 DEF amounts
  <2>17. /\ \A s \in CoinsSent(ptb) : Amounts(ptb)[s] \in Nat
         /\ SumOver(Amounts(ptb), CoinsSent(ptb)) = SumOver(amounts, places)
    <3>1. \A m \in PlacesOf(ptb, "TransferObjects") : Transfer(ptb.commands, m).amount # Unknown
      BY <1>2, <2>15 DEF places
    <3> QED
      BY <1>1, <2>16, <3>1, AmountsAddUp DEF places
  <2> QED
    BY <2>10, <2>13, <2>14, <2>15, <2>17
<1> QED
  BY <1>4, <1>5

\* What a reader of the facts sees.
LEMMA InspectionShape ==
    ASSUME NEW ptb, NEW manifest, NEW registered
    PROVE  LET found     == Inspection(ptb, manifest, registered)
               moves     == OfKind(Commands(ptb), "moveCall")
               transfers == OfKind(Commands(ptb), "transfer")
               entry     == Entry(registered, found.calls)
               inferred  == InferValueAtRisk(transfers)
           IN  /\ found.calls = [n \in DOMAIN moves |-> moves[n].target]
               /\ found.transfers = transfers
               /\ found.packages = UNION {Commands(ptb)[n].packages : n \in DOMAIN Commands(ptb)}
               /\ inferred # None => found.value = inferred
               /\ found.risk = IF entry # None THEN entry.risk ELSE InferRisk(Commands(ptb))
  BY DEF Inspection

\* Neither the simulation nor the slippage is any of this.
LEMMA SimulatedShape ==
    ASSUME NEW ptb, NEW manifest, NEW registered, NEW outcome, NEW slippage
    PROVE  LET found == Inspection(ptb, manifest, registered)
               simulated == [found EXCEPT !.simulation = outcome, !.slippage = slippage]
           IN  /\ simulated.calls = found.calls /\ simulated.transfers = found.transfers
               /\ simulated.packages = found.packages /\ simulated.value = found.value
               /\ simulated.risk = found.risk
  BY DEF Inspection

-----------------------------------------------------------------------------
(***************************************************************************)
(* The agent's plan.                                                       *)
(***************************************************************************)
\* The transaction of a plan: a split and a transfer of what it gives.
LEMMA PlanPtbShape ==
    ASSUME NEW p \in Plans
    PROVE  LET ptb == PlanPtb(p)
               commands == ptb.commands
           IN  /\ WellFormed(ptb) /\ ptb.format = "sui"
               /\ DOMAIN commands = {1, 2}
               /\ PlacesOf(ptb, "SplitCoins") = {1} /\ PlacesOf(ptb, "TransferObjects") = {2}
               /\ PlacesOf(ptb, "MoveCall") = {} /\ PlacesOf(ptb, "Publish") = {}
               /\ PlacesOf(ptb, "Upgrade") = {}
               /\ Splits(commands, 2) = {1}
               /\ SplitAmount(commands, commands[2].args[1]) = p.amount
               /\ IdsOf(commands[2].args) = {}
               /\ ObjectIds(commands[commands[2].args[1].command].coin) = {"gas"}
<1> DEFINE split == [kind |-> "SplitCoins", coin |-> [kind |-> "gas"],
                     amounts |-> <<[kind |-> "pure", value |-> p.amount]>>]
           send == [kind |-> "TransferObjects",
                    args |-> <<[kind |-> "nested", command |-> 1, result |-> 1]>>,
                    address |-> [kind |-> "pure", value |-> AddressOf(p.recipient)]]
           commands == <<split, send>>
<1>1. PlanPtb(p).commands = commands /\ PlanPtb(p).format = "sui"
  BY DEF PlanPtb
<1>2. /\ DOMAIN commands = {1, 2} /\ commands[1] = split /\ commands[2] = send
      /\ Range(commands) = {split, send} /\ commands \in Seq({split, send})
  BY DEF Range
<1>3. /\ split.kind = "SplitCoins" /\ split.coin = [kind |-> "gas"]
      /\ DOMAIN split.amounts = {1} /\ split.amounts[1] = [kind |-> "pure", value |-> p.amount]
  OBVIOUS
<1>4. /\ send.kind = "TransferObjects" /\ DOMAIN send.args = {1}
      /\ send.args[1] = [kind |-> "nested", command |-> 1, result |-> 1]
      /\ send.args \in Seq(Range(send.args))
  BY DEF Range
<1>5. p.amount \in Nat
  BY ReviewAssumption
<1> HIDE DEF split, send, commands
<1>6. /\ WellFormed(PlanPtb(p))
  BY <1>1, <1>2, <1>3, <1>4, <1>5 DEF WellFormed, CommandKinds, Decoded
<1>7. /\ PlacesOf(PlanPtb(p), "SplitCoins") = {1} /\ PlacesOf(PlanPtb(p), "TransferObjects") = {2}
      /\ PlacesOf(PlanPtb(p), "MoveCall") = {} /\ PlacesOf(PlanPtb(p), "Publish") = {}
      /\ PlacesOf(PlanPtb(p), "Upgrade") = {}
  BY <1>1, <1>2, <1>3, <1>4 DEF PlacesOf
<1>8. Splits(commands, 2) = {1}
  BY <1>2, <1>3, <1>4 DEF Splits, FromSplit
<1>9. SplitAmount(commands, commands[2].args[1]) = p.amount
  BY <1>2, <1>3, <1>4 DEF SplitAmount, Decoded
<1>10. IdsOf(commands[2].args) = {}
  BY <1>2, <1>4 DEF IdsOf, ObjectIds
<1>11. ObjectIds(commands[commands[2].args[1].command].coin) = {"gas"}
  BY <1>2, <1>3, <1>4 DEF ObjectIds
<1> QED
  BY <1>1, <1>2, <1>6, <1>7, <1>8, <1>9, <1>10, <1>11

\* A sum of one.
LEMMA TotalOfOne ==
    ASSUME NEW amounts, NEW x, DOMAIN amounts = {x}, amounts[x] \in Nat, Unknown \notin Nat
    PROVE  Total(amounts) = amounts[x]
<1>1. Unknown \notin Range(amounts)
  BY DEF Range
<1>2. Total(amounts) = SumOver(amounts, {x})
  BY <1>1 DEF Total, SumFunction, SumOver
<1>3. IsFiniteSet({x}) /\ {x} \ {x} = {}
  BY FS_Singleton
<1>4. SumOver(amounts, {x}) = amounts[x] + SumOver(amounts, {x} \ {x})
  BY <1>3, SumTakes
<1>5. SumOver(amounts, {}) = 0
  BY SumOfNone
<1> QED
  BY <1>2, <1>3, <1>4, <1>5

\* What the inspector finds in it.
LEMMA PlanFacts ==
    ASSUME NEW p \in Plans, NEW manifest, NEW registered
    PROVE  LET found == Inspection(PlanPtb(p), manifest, registered)
           IN  /\ found.semanticType = "transfer" /\ found.risk = "medium"
               /\ DOMAIN found.calls = {} /\ found.objects = {"gas"}
               /\ found.value = [amount |-> p.amount, coin |-> "SUI"]
<1> DEFINE ptb == PlanPtb(p)
           found == Commands(ptb)
           transfer == Transfer(ptb.commands, 2)
<1>1. /\ WellFormed(ptb) /\ ptb.format = "sui"
      /\ PlacesOf(ptb, "SplitCoins") = {1} /\ PlacesOf(ptb, "TransferObjects") = {2}
      /\ PlacesOf(ptb, "MoveCall") = {} /\ PlacesOf(ptb, "Publish") = {}
      /\ PlacesOf(ptb, "Upgrade") = {}
      /\ DOMAIN ptb.commands = {1, 2} /\ Splits(ptb.commands, 2) = {1}
      /\ SplitAmount(ptb.commands, ptb.commands[2].args[1]) = p.amount
      /\ IdsOf(ptb.commands[2].args) = {}
      /\ ObjectIds(ptb.commands[ptb.commands[2].args[1].command].coin) = {"gas"}
  BY PlanPtbShape
<1>2. p.amount \in Nat /\ p.amount # Unknown
  BY ReviewAssumption, ValueAssumption
<1> HIDE DEF ptb
<1>3. DOMAIN found = {2} /\ found[2] = Normalize(ptb.commands, 2)
  <2>1. DOMAIN ptb.commands \ PlacesOf(ptb, "SplitCoins") = {2}
    BY <1>1
  <2> QED
    BY <1>1, <2>1, CommandsFound
<1>4. /\ DOMAIN OfKind(found, "transfer") = {2} /\ OfKind(found, "transfer")[2] = transfer
      /\ DOMAIN OfKind(found, "moveCall") = {}
      /\ ~Has(found, "publish") /\ ~Has(found, "upgrade") /\ ~Has(found, "custom")
  <2>1. /\ DOMAIN OfKind(found, "transfer") = PlacesOf(ptb, "TransferObjects")
        /\ DOMAIN OfKind(found, "moveCall") = PlacesOf(ptb, "MoveCall")
        /\ \A n \in PlacesOf(ptb, "TransferObjects") :
              OfKind(found, "transfer")[n] = Transfer(ptb.commands, n)
    BY <1>1, KindsFound
  <2>2. /\ Has(found, "publish") <=> PlacesOf(ptb, "Publish") # {}
        /\ Has(found, "upgrade") <=> PlacesOf(ptb, "Upgrade") # {}
        /\ Has(found, "custom") <=> DOMAIN ptb.commands = PlacesOf(ptb, "SplitCoins")
    BY <1>1, KindsFound
  <2>3. DOMAIN ptb.commands # PlacesOf(ptb, "SplitCoins")
    BY <1>1
  <2> HIDE DEF found
  <2> QED
    BY <1>1, <2>1, <2>2, <2>3
<1>5. found[2] = transfer /\ transfer.kind = "transfer"
  <2>1. found[2] = OfKind(found, "transfer")[2]
    BY <1>4, OfKindShape
  <2> QED
    BY <1>4, <2>1 DEF Transfer
<1>6. transfer.objects = {"gas"} /\ transfer.coin = "SUI"
  BY <1>1 DEF Transfer
<1>7. transfer.amount = p.amount
  <2> DEFINE amounts == [i \in {1} |-> SplitAmount(ptb.commands, ptb.commands[2].args[i])]
  <2>1. transfer.amount = Total(amounts)
    BY <1>1 DEF Transfer
  <2>2. DOMAIN amounts = {1} /\ amounts[1] = p.amount
    BY <1>1
  <2> HIDE DEF amounts
  <2> QED
    BY <1>2, <2>1, <2>2, TotalOfOne, ValueAssumption
<1>8. InferValueAtRisk(OfKind(found, "transfer")) = [amount |-> p.amount, coin |-> "SUI"]
  <2> DEFINE T == OfKind(found, "transfer")
             amounts == [n \in DOMAIN T |-> T[n].amount]
  <2>1. DOMAIN T = {2} /\ T[2].coin = "SUI" /\ T[2].amount = p.amount
    BY <1>4, <1>6, <1>7
  <2>2. DOMAIN amounts = {2} /\ amounts[2] = p.amount
    BY <2>1
  <2>3. Total(amounts) = p.amount
    <3> HIDE DEF amounts
    <3> QED
      BY <1>2, <2>2, TotalOfOne, ValueAssumption
  <2>4. Min(DOMAIN T) = 2
    BY <2>1 DEF Min
  <2>5. First(T) = T[2]
    BY <2>4 DEF First
  <2> HIDE DEF T
  <2>6. InferValueAtRisk(T) = [amount |-> Total(amounts), coin |-> First(T).coin]
    BY <2>1, <2>5 DEF InferValueAtRisk
  <2> QED
    BY <2>1, <2>3, <2>5, <2>6 DEF T
<1>9. InferSemanticType(found) = "transfer" /\ InferRisk(found) = "medium"
  <2>1. Cardinality(DOMAIN found) = 1
    BY <1>3, FS_Singleton
  <2>2. Has(found, "transfer") /\ ~Has(found, "moveCall")
    BY <1>3, <1>5 DEF Has
  <2> HIDE DEF found
  <2> QED
    BY <1>4, <2>1, <2>2 DEF InferSemanticType, InferRisk
<1>10. UNION {found[n].objects : n \in DOMAIN found} = {"gas"}
  BY <1>3, <1>5, <1>6
<1>11. [amount |-> p.amount, coin |-> "SUI"] # None
  BY <1>2, ValueAssumption
<1> DEFINE moves == OfKind(found, "moveCall")
           calls == [n \in DOMAIN moves |-> moves[n].target]
           facts0 == Inspection(ptb, manifest, registered)
<1>12. Entry(registered, calls) = None
  BY <1>4 DEF Entry
<1>13. /\ facts0.semanticType = "transfer" /\ facts0.risk = "medium"
       /\ facts0.calls = calls /\ facts0.objects = {"gas"}
       /\ facts0.value = [amount |-> p.amount, coin |-> "SUI"]
  BY <1>8, <1>9, <1>10, <1>11, <1>12 DEF Inspection
<1> QED
  BY <1>4, <1>13 DEF ptb

\* The plan's own risk, or the floor: not below that of a transfer.
LEMMA PlanRiskHolds ==
    ASSUME NEW p, p.semanticType = "transfer"
    PROVE  RiskRank(PlanRisk(p)) >= RiskRank("medium")
  BY DEF PlanRisk, RiskRank

LEMMA PlanProposal ==
    ASSUME NEW p \in Plans, PlanValid(p), NEW registered
    PROVE  ManifestValid(PlanManifest(p), Inspection(PlanPtb(p), PlanManifest(p), registered))
              <=> ~p.padded
<1> DEFINE m == PlanManifest(p)
           f == Inspection(PlanPtb(p), m, registered)
           written == IF p.padded THEN Padded ELSE p.amount
<1>1. /\ m.semanticType = "transfer" /\ m.target = None /\ m.objects = {"gas"}
      /\ m.value = [amount |-> written, coin |-> "SUI"]
      /\ m.risk = PlanRisk(p) /\ m.expires = PlanExpires
  BY DEF PlanManifest, TransferManifest, PtbManifest
<1>2. /\ f.semanticType = "transfer" /\ f.risk = "medium"
      /\ DOMAIN f.calls = {} /\ f.objects = {"gas"}
      /\ f.value = [amount |-> p.amount, coin |-> "SUI"]
  BY PlanFacts
<1>3. /\ p.amount \in Nat /\ p.padded \in BOOLEAN /\ p.amount # Padded
      /\ PlanExpires \in Nat /\ PlanExpires > 0
  BY ReviewAssumption, ValueAssumption
<1>4. m.value # None /\ f.value # None
  BY <1>1, <1>2, <1>3, ValueAssumption
<1>5. RiskRank(m.risk) >= RiskRank(f.risk)
  BY <1>1, <1>2, PlanRiskHolds DEF PlanValid
<1> HIDE DEF m, f
<1>6. m.value = f.value <=> ~p.padded
  BY <1>1, <1>2, <1>3
<1>7. ManifestValid(m, f) <=> ~p.padded
  BY <1>1, <1>2, <1>3, <1>4, <1>5, <1>6 DEF ManifestValid
<1> QED
  BY <1>7 DEF m, f

-----------------------------------------------------------------------------
(***************************************************************************)
(* The review of an action.                                                *)
(***************************************************************************)
\* The facts that were found are those of the proposed transaction, with some registry
\* and the entry that was consulted in it, whatever a simulation added to them.
FactsFit ==
    phase = "inspected" =>
        \E registered \in [Targets -> Entries \cup {None}] :
            LET found == Inspection(action.ptb, action.manifest, registered)
            IN  /\ inspected.calls = found.calls /\ inspected.transfers = found.transfers
                /\ inspected.packages = found.packages /\ inspected.value = found.value
                /\ inspected.risk = found.risk
                /\ consulted = Entry(registered, found.calls)

UnderReview == phase \in {"proposed", "inspected"}

ReviewInv == /\ EngineInv
             /\ registry \in [Targets -> Entries \cup {None}]
             /\ UnderReview => action.ptb \in Ptbs \cup PlanPtbs
             /\ FactsFit
             /\ place # "idle" => phase = "inspected" /\ facts = inspected
             /\ plan \in Plans \cup {None}
             /\ plan # None => phase # "drafting"
             /\ PlansAccepted

LEMMA ReviewStart == ReviewInit => ReviewInv
<1> SUFFICES ASSUME ReviewInit PROVE ReviewInv
  OBVIOUS
<1>1. EngineInv
  BY EngineInit
<1>2. phase = "drafting" /\ place = "idle" /\ plan = None
  BY DEF ReviewInit
<1>3. registry \in [Targets -> Entries \cup {None}]
  BY DEF ReviewInit
<1> QED
  BY <1>1, <1>2, <1>3 DEF ReviewInv, UnderReview, FactsFit, PlansAccepted

\* Who leaves the transaction, its facts and the plan alone leaves what is said of them.
LEMMA ReviewKept ==
    ASSUME ReviewInv, EngineInv', UNCHANGED <<action, plan, phase, inspected, consulted>>,
           registry' \in [Targets -> Entries \cup {None}],
           place' # "idle" => phase = "inspected" /\ facts' = inspected
    PROVE  ReviewInv'
  BY DEF ReviewInv, UnderReview, FactsFit, PlansAccepted

LEMMA KeptByProposing ==
    ASSUME ReviewInv, EngineInv', NEW from \in Plans \cup {None}, NEW ptb \in Ptbs \cup PlanPtbs,
           NEW manifest, ProposePtb(from, ptb, manifest),
           from # None => /\ ManifestValid(manifest, Inspection(ptb, manifest, registry))
                                <=> ~from.padded
                          /\ Buildable(from)
    PROVE  ReviewInv'
<1>1. /\ phase = "drafting" /\ plan' = from /\ phase' \in {"proposed", "refused"}
      /\ phase' = "proposed" => action' = [ptb |-> ptb, manifest |-> manifest]
      /\ phase' = "refused" <=> ~ManifestValid(manifest, Inspection(ptb, manifest, registry))
      /\ place' = place /\ registry' = registry
  BY DEF ProposePtb, policyVars
<1>2. place = "idle"
  BY <1>1 DEF ReviewInv
<1>3. UnderReview' => action'.ptb \in Ptbs \cup PlanPtbs
  BY <1>1 DEF UnderReview
<1>4. FactsFit'
  BY <1>1 DEF FactsFit
<1>5. PlansAccepted'
  <2>1. from # None => from.padded \in BOOLEAN /\ from.amount \in Nat /\ MaxU64 \in Nat
    BY ReviewAssumption
  <2>2. from # None => ~(from.amount > MaxU64) /\ AddressOf(from.recipient) # None
    BY <2>1 DEF Buildable
  <2> QED
    BY <1>1, <2>1, <2>2 DEF PlansAccepted
<1> QED
  BY <1>1, <1>2, <1>3, <1>4, <1>5 DEF ReviewInv

\* There is no transaction, and the plan is one of those.
LEMMA KeptByFailing ==
    ASSUME ReviewInv, EngineInv', NEW p \in Plans, BuildFails(p)
    PROVE  ReviewInv'
<1>1. /\ phase = "drafting" /\ plan' = p /\ phase' = "refused" /\ ~Buildable(p)
      /\ place' = place /\ registry' = registry
  BY DEF BuildFails, policyVars
<1>2. place = "idle"
  BY <1>1 DEF ReviewInv
<1>3. p.amount > MaxU64 \/ AddressOf(p.recipient) = None
  BY <1>1, ReviewAssumption DEF Buildable
<1>4. PlansAccepted'
  BY <1>1, <1>3 DEF PlansAccepted
<1> QED
  BY <1>1, <1>2, <1>4 DEF ReviewInv, UnderReview, FactsFit

LEMMA KeptByReview ==
    ASSUME ReviewInv, EngineInv', NEW f, Review(f),
           f.calls = FactsNow.calls, f.transfers = FactsNow.transfers,
           f.packages = FactsNow.packages, f.value = FactsNow.value, f.risk = FactsNow.risk
    PROVE  ReviewInv'
<1> DEFINE found == FactsNow
<1>1. /\ phase = "proposed" /\ phase' = "inspected" /\ inspected' = f
      /\ consulted' = Entry(registry, f.calls)
      /\ UNCHANGED <<registry, action, plan>> /\ place' = place
  BY DEF Review, policyVars
<1>2. /\ f.calls = found.calls /\ f.transfers = found.transfers
      /\ f.packages = found.packages /\ f.value = found.value /\ f.risk = found.risk
  OBVIOUS
<1>3. FactsFit'
  <2>1. found = Inspection(action'.ptb, action'.manifest, registry)
    BY <1>1 DEF FactsNow
  <2>2. registry \in [Targets -> Entries \cup {None}]
    BY DEF ReviewInv
  <2> HIDE DEF found
  <2> QED
    BY <1>1, <1>2, <2>1, <2>2 DEF FactsFit
<1>4. place = "idle"
  BY <1>1 DEF ReviewInv
<1>5. PlansAccepted'
  BY <1>1 DEF ReviewInv, PlansAccepted
<1>6. (UnderReview => action.ptb \in Ptbs \cup PlanPtbs)'
  BY <1>1 DEF ReviewInv, UnderReview
<1> QED
  BY <1>1, <1>3, <1>4, <1>5, <1>6 DEF ReviewInv

LEMMA ReviewStep == ReviewInv /\ [ReviewNext]_reviewVars => ReviewInv'
<1> SUFFICES ASSUME ReviewInv, [ReviewNext]_reviewVars PROVE ReviewInv'
  OBVIOUS
<1>1. EngineInv'
  BY EngineStep DEF ReviewInv
<1>2. ASSUME NEW t \in Targets, NEW entry \in Entries, Register(t, entry) PROVE ReviewInv'
  <2>1. registry' \in [Targets -> Entries \cup {None}]
    BY <1>2 DEF Register, ReviewInv
  <2>2. /\ UNCHANGED <<action, plan, phase, inspected, consulted>>
        /\ place' = place /\ facts' = facts
    BY <1>2 DEF Register, policyVars
  <2> QED
    BY <1>1, <2>1, <2>2, ReviewKept DEF ReviewInv
<1>3. ASSUME NEW ptb \in Ptbs, NEW manifest, ProposePtb(None, ptb, manifest) PROVE ReviewInv'
  BY <1>1, <1>3, KeptByProposing
<1>4. ASSUME NEW p \in Plans, ProposePlan(p) PROVE ReviewInv'
  <2>1. /\ PlanValid(p) /\ Buildable(p) /\ ProposePtb(p, PlanPtb(p), PlanManifest(p))
        /\ PlanPtb(p) \in Ptbs \cup PlanPtbs /\ p \in Plans \cup {None}
    BY <1>4 DEF ProposePlan, PlanPtbs
  <2> DEFINE ptb == PlanPtb(p)
             manifest == PlanManifest(p)
  <2>2. ManifestValid(manifest, Inspection(ptb, manifest, registry)) <=> ~p.padded
    BY <2>1, PlanProposal
  <2> HIDE DEF ptb, manifest
  <2> QED
    BY <1>1, <2>1, <2>2, KeptByProposing DEF ptb, manifest
<1>11. ASSUME NEW p \in Plans, BuildFails(p) PROVE ReviewInv'
  BY <1>1, <1>11, KeptByFailing
<1>5. CASE Inspect
  BY <1>1, <1>5, KeptByReview DEF Inspect
<1>6. ASSUME NEW simulator \in Simulators, NEW slippage \in Slippages,
             Simulate(simulator, slippage)
      PROVE  ReviewInv'
  <2>1. PICK outcome : Review([FactsNow EXCEPT !.simulation = outcome, !.slippage = slippage])
    BY <1>6 DEF Simulate
  <2> DEFINE ptb == action.ptb
             manifest == action.manifest
             f == [FactsNow EXCEPT !.simulation = outcome, !.slippage = slippage]
  <2>2. /\ f.calls = FactsNow.calls /\ f.transfers = FactsNow.transfers
        /\ f.packages = FactsNow.packages /\ f.value = FactsNow.value
        /\ f.risk = FactsNow.risk
    <3>1. FactsNow = Inspection(ptb, manifest, registry)
      BY DEF FactsNow
    <3> HIDE DEF ptb, manifest
    <3> QED
      BY <3>1, SimulatedShape
  <2>3. Review(f)
    BY <2>1
  <2> HIDE DEF f
  <2> QED
    BY <1>1, <2>2, <2>3, KeptByReview
<1>7. ASSUME NEW p \in Policies, NEW t \in Times, Judge(p, t) PROVE ReviewInv'
  BY <1>1, <1>7, ReviewKept DEF Judge, Evaluate, ReviewInv
<1>8. CASE EvaluateOn
  <2>1. /\ UNCHANGED <<registry, action, plan, phase, inspected, consulted, facts>>
        /\ place = "rules"
    BY <1>8 DEF EvaluateOn, NextRule, Conclude
  <2> QED
    BY <1>1, <2>1, ReviewKept DEF ReviewInv
<1>9. CASE EvaluateReturns
  BY <1>1, <1>9, ReviewKept DEF EvaluateReturns, GiveDecision, ReviewInv
<1>10. CASE UNCHANGED reviewVars
  BY <1>1, <1>10, ReviewKept DEF reviewVars, policyVars, ReviewInv
<1> QED
  BY <1>2, <1>3, <1>4, <1>5, <1>6, <1>7, <1>8, <1>9, <1>10, <1>11 DEF ReviewNext

\* What an approval says of the rules, and the facts it rests on.
LEMMA ApprovedFacts ==
    ASSUME ReviewInv, Approved
    PROVE  /\ policy \in Seq(Rules)
           /\ \A n \in DOMAIN policy : ~Overrides(policy[n], facts)
                                       /\ Objection(policy[n], facts, time) = "approved"
           /\ WellFormed(action.ptb)
           /\ LET found     == Commands(action.ptb)
                  moves     == OfKind(found, "moveCall")
                  transfers == OfKind(found, "transfer")
                  inferred  == InferValueAtRisk(transfers)
              IN  /\ facts.calls = [n \in DOMAIN moves |-> moves[n].target]
                  /\ facts.transfers = transfers
                  /\ facts.packages = UNION {found[n].packages : n \in DOMAIN found}
                  /\ inferred # None => facts.value = inferred
                  /\ facts.risk = IF consulted # None THEN consulted.risk ELSE InferRisk(found)
<1>1. EngineTypeOK /\ ApprovedExactly /\ place = "done" /\ decision = "approved"
  <2>1. EngineInv
    BY DEF ReviewInv
  <2>2. EngineTypeOK
    BY <2>1 DEF EngineInv
  <2>3. ApprovedExactly
    BY <2>1 DEF EngineInv
  <2> QED
    BY <2>2, <2>3 DEF Approved
<1>2. \A n \in DOMAIN policy : ~Overrides(policy[n], facts)
                               /\ Objection(policy[n], facts, time) = "approved"
  BY <1>1 DEF ApprovedExactly, NobodyObjects, Objects
<1>3. phase = "inspected" /\ facts = inspected /\ action.ptb \in Ptbs \cup PlanPtbs
  BY <1>1 DEF ReviewInv, UnderReview
<1>4. WellFormed(action.ptb)
  BY <1>3, ReviewAssumption, PlanPtbShape DEF PlanPtbs
<1>5. PICK registered :
         LET found == Inspection(action.ptb, action.manifest, registered)
         IN  /\ facts.calls = found.calls /\ facts.transfers = found.transfers
             /\ facts.packages = found.packages /\ facts.value = found.value
             /\ facts.risk = found.risk
             /\ consulted = Entry(registered, found.calls)
  BY <1>3 DEF ReviewInv, FactsFit
<1> DEFINE ptb == action.ptb
           manifest == action.manifest
           found == Inspection(ptb, manifest, registered)
           moves     == OfKind(Commands(ptb), "moveCall")
           transfers == OfKind(Commands(ptb), "transfer")
           entry     == Entry(registered, found.calls)
           inferred  == InferValueAtRisk(transfers)
<1>6. /\ found.calls = [n \in DOMAIN moves |-> moves[n].target]
      /\ found.transfers = transfers
      /\ found.packages = UNION {Commands(ptb)[n].packages : n \in DOMAIN Commands(ptb)}
      /\ inferred # None => found.value = inferred
      /\ found.risk = IF entry # None THEN entry.risk ELSE InferRisk(Commands(ptb))
  <2> HIDE DEF ptb, manifest
  <2> QED
    BY InspectionShape
<1>7. policy \in Seq(Rules)
  BY <1>1 DEF EngineTypeOK
<1> HIDE DEF found
<1>8. /\ facts.calls = found.calls /\ facts.transfers = found.transfers
      /\ facts.packages = found.packages /\ facts.value = found.value
      /\ facts.risk = found.risk
      /\ consulted = Entry(registered, found.calls)
  BY <1>5 DEF found
<1> QED
  BY <1>2, <1>4, <1>6, <1>7, <1>8

LEMMA WithinEveryRule ==
    ASSUME ReviewInv, Approved, NEW n \in DOMAIN policy
    PROVE  WithinRule(policy[n])
<1> DEFINE r == policy[n]
           ptb == action.ptb
           found == Commands(ptb)
           moves == OfKind(found, "moveCall")
           transfers == OfKind(found, "transfer")
           inferred == InferValueAtRisk(transfers)
<1>1. /\ ~Overrides(r, facts) /\ Objection(r, facts, time) = "approved"
      /\ WellFormed(ptb)
      /\ facts.calls = [k \in DOMAIN moves |-> moves[k].target]
      /\ facts.transfers = transfers
      /\ facts.packages = UNION {found[k].packages : k \in DOMAIN found}
      /\ inferred # None => facts.value = inferred
  BY ApprovedFacts
<1>2. CASE ptb.format # "sui"
  <2>1. \A kind : CommandsOf(kind) = {}
    BY <1>2 DEF CommandsOf
  <2>2. Touched = {} /\ SentSplits = {}
    BY <2>1 DEF Touched, SentSplits
  <2>3. r.max \in Nat => SumWithin(r.max)
    <3>1. SumFunction([s \in {} |-> AmountOf(s)]) = 0
      BY SumOfNone DEF SumFunction, SumOver
    <3> HIDE DEF r
    <3> QED
      BY <2>2, <3>1 DEF SumWithin
  <2> HIDE DEF r
  <2> QED
    BY <2>1, <2>2, <2>3 DEF WithinRule, r
<1>3. CASE ptb.format = "sui"
  <2>1. \A kind : CommandsOf(kind) = PlacesOf(ptb, kind)
    BY <1>3 DEF CommandsOf, PlacesOf
  <2> HIDE DEF r, ptb, found, moves, transfers, inferred
  <2>2. /\ DOMAIN transfers = PlacesOf(ptb, "TransferObjects")
        /\ DOMAIN moves = PlacesOf(ptb, "MoveCall")
        /\ \A k \in PlacesOf(ptb, "TransferObjects") : transfers[k] = Transfer(ptb.commands, k)
        /\ \A k \in PlacesOf(ptb, "MoveCall") : moves[k].target = ptb.commands[k].target
    BY <1>1, <1>3, KindsFound DEF transfers, moves, found
  <2>3. CASE r.name = "recipient_allowlist"
    <3>1. ~RecipientBlocked(r, facts)
      BY <1>1, <2>3 DEF Objection
    <3>2. \A k \in PlacesOf(ptb, "TransferObjects") :
             Decoded(ptb.commands[k].address) \in r.allowed
      <4>1. \A k : Transfer(ptb.commands, k).recipient = Decoded(ptb.commands[k].address)
        BY DEF Transfer
      <4> QED
        BY <1>1, <2>2, <3>1, <4>1 DEF RecipientBlocked
    <3>3. \A k \in CommandsOf("TransferObjects") :
             Decoded(action.ptb.commands[k].address) \in r.allowed
      BY <2>1, <3>2 DEF ptb
    <3> QED
      BY <2>3, <3>3 DEF WithinRule, r
  <2>4. CASE r.name = "package_allowlist"
    <3>1. facts.packages \subseteq r.allowed
      BY <1>1, <2>4 DEF Objection, PackageBlocked
    <3>2. /\ \A k \in PlacesOf(ptb, "MoveCall") : ptb.commands[k].target.package \in facts.packages
          /\ \A k \in PlacesOf(ptb, "Upgrade") : ptb.commands[k].package \in facts.packages
      BY <1>1, <1>3, PackagesFound DEF found
    <3>3. Touched \subseteq r.allowed
      BY <2>1, <3>1, <3>2 DEF Touched, ptb
    <3> QED
      BY <2>4, <3>3 DEF WithinRule, r
  <2>5. CASE r.name = "function_allowlist"
    <3>1. ~FunctionBlocked(r, facts)
      BY <1>1, <2>5 DEF Objection
    <3>2. \A k \in PlacesOf(ptb, "MoveCall") : ptb.commands[k].target \in r.allowed
      BY <1>1, <2>2, <3>1 DEF FunctionBlocked
    <3>3. \A k \in CommandsOf("MoveCall") : action.ptb.commands[k].target \in r.allowed
      BY <2>1, <3>2 DEF ptb
    <3> QED
      BY <2>5, <3>3 DEF WithinRule, r
  <2>6. CASE r.name = "max_value_at_risk" /\ r.max \in Nat
    <3> SUFFICES ASSUME r.coin = None \/ (r.coin = "SUI" /\ ~MixedTransfers)
                 PROVE  SumWithin(r.max)
      BY <2>6 DEF WithinRule, r
    <3>1. ~NotAnInteger(r, facts) /\ ~TooMuch(r, facts)
      BY <1>1, <2>6 DEF Overrides, Objection
    <3>2. ~MixedTransfers => \A m, k \in PlacesOf(ptb, "TransferObjects") :
             Splits(ptb.commands, m) = {} => Splits(ptb.commands, k) = {}
      BY <2>1 DEF MixedTransfers, SplitsOf, ptb
    <3>3. inferred # None => facts.value = inferred
      BY <1>1
    <3>4. /\ \A s \in CoinsSent(ptb) : Amounts(ptb)[s] \in Nat
          /\ SumOver(Amounts(ptb), CoinsSent(ptb)) <= r.max
      BY <1>1, <1>3, <2>6, <3>1, <3>2, <3>3, ValueWithin DEF inferred, transfers, found
    <3>5. SentSplits = CoinsSent(ptb)
      BY <2>1 DEF SentSplits, SplitsOf, CoinsSent, ptb
    <3>6. [s \in SentSplits |-> AmountOf(s)] = Amounts(ptb)
      BY <3>5 DEF Amounts, AmountOf, ptb
    <3>7. DOMAIN Amounts(ptb) = CoinsSent(ptb)
      BY DEF Amounts
    <3>8. SumFunction(Amounts(ptb)) = SumOver(Amounts(ptb), CoinsSent(ptb))
      BY <3>7 DEF SumFunction, SumOver
    <3>9. \A s \in SentSplits : AmountOf(s) = Amounts(ptb)[s]
      BY <3>6, <3>5 DEF Amounts, AmountOf, ptb
    <3>10. Unknown \notin Nat
      BY ValueAssumption
    <3> QED
      BY <3>4, <3>5, <3>6, <3>8, <3>9, <3>10 DEF SumWithin
  <2>7. CASE /\ r.name # "recipient_allowlist" /\ r.name # "package_allowlist"
             /\ r.name # "function_allowlist"
             /\ ~(r.name = "max_value_at_risk" /\ r.max \in Nat)
    BY <2>7 DEF WithinRule, r
  <2> QED
    BY <2>3, <2>4, <2>5, <2>6, <2>7
<1> QED
  BY <1>2, <1>3

LEMMA DangerIsHigh ==
    ASSUME ReviewInv, Approved, Dangerous
    PROVE  InferRisk(Commands(action.ptb)) \in {"high", "critical"}
<1> DEFINE ptb == action.ptb
<1>1. WellFormed(ptb)
  BY ApprovedFacts
<1>2. ptb.format = "sui" /\ \A kind : CommandsOf(kind) = PlacesOf(ptb, kind)
  BY DEF Dangerous, CommandsOf, PlacesOf
<1>3. \/ PlacesOf(ptb, "MoveCall") # {} \/ PlacesOf(ptb, "Publish") # {}
      \/ PlacesOf(ptb, "Upgrade") # {} \/ DOMAIN ptb.commands = PlacesOf(ptb, "SplitCoins")
  BY <1>2 DEF Dangerous
<1> HIDE DEF ptb
<1>4. \/ Has(Commands(ptb), "moveCall") \/ Has(Commands(ptb), "publish")
      \/ Has(Commands(ptb), "upgrade") \/ Has(Commands(ptb), "custom")
  <2>1. /\ DOMAIN OfKind(Commands(ptb), "moveCall") = PlacesOf(ptb, "MoveCall")
        /\ Has(Commands(ptb), "publish") <=> PlacesOf(ptb, "Publish") # {}
        /\ Has(Commands(ptb), "upgrade") <=> PlacesOf(ptb, "Upgrade") # {}
        /\ Has(Commands(ptb), "custom") <=> DOMAIN ptb.commands = PlacesOf(ptb, "SplitCoins")
    BY <1>1, <1>2, KindsFound
  <2>2. PlacesOf(ptb, "MoveCall") # {} => Has(Commands(ptb), "moveCall")
    BY <2>1, OfKindShape DEF Has
  <2> QED
    BY <1>3, <2>1, <2>2
<1> QED
  BY <1>4 DEF InferRisk, ptb

LEMMA DangerIsVouchedFor == ReviewInv => DangerReviewed
<1> SUFFICES ASSUME ReviewInv, Approved, Dangerous,
                    Len(policy) >= 3, SubSeq(policy, 1, 3) = DefaultRules
             PROVE  VouchedFor
  BY DEF DangerReviewed
<1>1. /\ policy \in Seq(Rules)
      /\ \A n \in DOMAIN policy : Objection(policy[n], facts, time) = "approved"
      /\ facts.risk = IF consulted # None THEN consulted.risk
                      ELSE InferRisk(Commands(action.ptb))
  BY ApprovedFacts
<1> DEFINE r == policy[2]
<1>2. 2 \in DOMAIN policy /\ r = RiskRule("high", "requires_confirmation")
  <2>1. Len(policy) \in Nat /\ DOMAIN policy = 1 .. Len(policy)
    BY <1>1
  <2>2. SubSeq(policy, 1, 3)[2] = policy[2]
    BY <1>1, <2>1
  <2>3. DefaultRules[2] = RiskRule("high", "requires_confirmation")
    BY DEF DefaultRules
  <2> QED
    BY <2>1, <2>2, <2>3
<1>3. r.name = "risk_level_guard" /\ r.minRisk = "high" /\ r.mode = "requires_confirmation"
  BY <1>2 DEF RiskRule, Rule
<1> HIDE DEF r
<1>4. ~(RiskRank(facts.risk) >= RiskRank("high"))
  <2>1. Objection(r, facts, time) = "approved"
    BY <1>1, <1>2 DEF r
  <2> QED
    BY <1>3, <2>1 DEF Objection
<1>5. facts.risk \in {"low", "medium"}
  BY <1>4 DEF RiskRank
<1>6. InferRisk(Commands(action.ptb)) \notin {"low", "medium"}
  BY DangerIsHigh
<1> QED
  BY <1>1, <1>5, <1>6 DEF VouchedFor

-----------------------------------------------------------------------------
(***************************************************************************)
(* proposePtb, inspect and evaluate: for all transactions, manifests,      *)
(* registries and policies, however the registry changes in between, an    *)
(* approved transaction keeps to the policy by what its bytes say.         *)
(***************************************************************************)
THEOREM ApprovalsKeepLimits == ReviewSpec => []ApprovedWithinLimits
<1>1. ReviewInv => ApprovedWithinLimits
  BY WithinEveryRule DEF ApprovedWithinLimits
<1> QED
  BY <1>1, ReviewStart, ReviewStep, PTL DEF ReviewSpec

(***************************************************************************)
(* docs/protocol.md:376: behind the default rules no transaction that runs *)
(* code or was not understood is approved, unless the registry vouches for *)
(* its first call.                                                         *)
(***************************************************************************)
THEOREM DangerIsReviewed == ReviewSpec => []DangerReviewed
<1> QED
  BY DangerIsVouchedFor, ReviewStart, ReviewStep, PTL DEF ReviewSpec

(***************************************************************************)
(* openai-agent-proposal-live.ts: every plan that passes validatePlan is   *)
(* proposed, for every recipient, amount, risk and requirements, unless    *)
(* its amount is written with leading zeros or is beyond u64, or its       *)
(* recipient is no address; and these are not.                             *)
(***************************************************************************)
THEOREM PlansAreAccepted == ReviewSpec => []PlansAccepted
<1>1. ReviewInv => PlansAccepted
  BY DEF ReviewInv
<1> QED
  BY <1>1, ReviewStart, ReviewStep, PTL DEF ReviewSpec

-----------------------------------------------------------------------------
(***************************************************************************)
(* What the types of a review say beyond ReviewInv.                        *)
(***************************************************************************)
OfTheirTypes(f) == /\ f.risk \in RiskLevels /\ f.semanticType \in SemanticTypes
                   /\ f.requirements \subseteq Checks

Proper == /\ phase \in {"drafting", "refused", "proposed", "inspected"}
          /\ action # None => action.ptb \in Ptbs \cup PlanPtbs
          /\ UnderReview => action.manifest.requirements \subseteq Checks
          /\ inspected # None => OfTheirTypes(inspected)
          /\ consulted \in Entries \cup {None}
          /\ policy \in Policies \cup {<< >>}
          /\ place = "idle" => facts = None
          /\ changes \in 0 .. MaxChanges

LEMMA ReviewTypesFollow == ReviewInv /\ Proper => ReviewTypeOK
<1> SUFFICES ASSUME ReviewInv, Proper PROVE ReviewTypeOK
  OBVIOUS
<1>1. EngineTypeOK
  BY DEF ReviewInv, EngineInv
<1>2. facts \in {None, inspected}
  BY DEF ReviewInv, Proper
<1> QED
  BY <1>1, <1>2 DEF ReviewInv, Proper, OfTheirTypes, EngineTypeOK, ReviewTypeOK

\* A plan's checks are its own or those of a transfer.
LEMMA PlanChecks ==
    ASSUME NEW p \in Plans
    PROVE  PlanManifest(p).requirements \subseteq Checks
<1>1. PlanManifest(p).requirements \in
         {{"max_value_at_risk", "recipient_allowlist", "expiration_check"}, p.requirements}
  BY DEF PlanManifest, TransferManifest, PtbManifest
<1>2. p.requirements \subseteq Checks
  BY DEF Checks, Asking
<1>3. {"max_value_at_risk", "recipient_allowlist", "expiration_check"} \subseteq Checks
  BY DEF Checks, RuleNames
<1> QED
  BY <1>1, <1>2, <1>3

\* The first call of a transaction is looked up where there are entries.
LEMMA EntryFound ==
    ASSUME NEW ptb \in Ptbs \cup PlanPtbs, NEW manifest,
           NEW registered \in [Targets -> Entries \cup {None}]
    PROVE  Entry(registered, Inspection(ptb, manifest, registered).calls) \in Entries \cup {None}
<1> DEFINE moves == OfKind(Commands(ptb), "moveCall")
           calls == Inspection(ptb, manifest, registered).calls
<1>1. calls = [n \in DOMAIN moves |-> moves[n].target]
  BY DEF Inspection
<1>2. DOMAIN calls \subseteq Nat /\ \A n \in DOMAIN calls : calls[n] \in Targets
  <2>1. CASE ptb \in Ptbs
    <3>1. \A n \in DOMAIN moves : /\ n \in DOMAIN Commands(ptb)
                                  /\ Commands(ptb)[n].kind = "moveCall"
                                  /\ moves[n] = Commands(ptb)[n]
      BY OfKindShape
    <3> HIDE DEF moves, calls
    <3> QED
      BY <1>1, <2>1, <3>1, EntryAssumption
  <2>2. ASSUME NEW p \in Plans, ptb = PlanPtb(p)
        PROVE  DOMAIN calls = {}
    <3>1. DOMAIN moves = PlacesOf(ptb, "MoveCall") /\ PlacesOf(ptb, "MoveCall") = {}
      BY <2>2, PlanPtbShape, KindsFound
    <3> HIDE DEF moves, calls
    <3> QED
      BY <1>1, <3>1
  <2> HIDE DEF moves, calls
  <2> QED
    BY <2>1, <2>2 DEF PlanPtbs
<1> HIDE DEF moves, calls
<1>3. DOMAIN calls # {} => First(calls) \in Targets
  BY <1>2, FirstPlace DEF First
<1>4. DOMAIN calls # {} => registered[First(calls)] \in Entries \cup {None}
  BY <1>3
<1> QED
  BY <1>4 DEF Entry, calls

LEMMA FactsOfTheirTypes ==
    ASSUME NEW ptb, NEW manifest, NEW registered, manifest.requirements \subseteq Checks,
           Entry(registered, Inspection(ptb, manifest, registered).calls) \in Entries \cup {None}
    PROVE  OfTheirTypes(Inspection(ptb, manifest, registered))
<1> DEFINE found == Inspection(ptb, manifest, registered)
           entry == Entry(registered, found.calls)
<1>1. /\ found.risk = IF entry # None THEN entry.risk ELSE InferRisk(Commands(ptb))
      /\ found.semanticType = IF entry # None THEN entry.semanticType
                              ELSE InferSemanticType(Commands(ptb))
      /\ found.requirements = manifest.requirements
                                 \cup (IF entry # None THEN entry.requirements ELSE {})
  BY DEF Inspection
<1>2. InferRisk(Commands(ptb)) \in RiskLevels
  BY DEF InferRisk, RiskLevels
<1>3. InferSemanticType(Commands(ptb)) \in SemanticTypes
  BY DEF InferSemanticType, SemanticTypes
<1>4. RuleNames \subseteq Checks
  BY DEF Checks
<1>5. entry \in Entries \cup {None}
  OBVIOUS
<1> HIDE DEF found, entry
<1>6. entry # None => /\ entry.semanticType \in SemanticTypes /\ entry.risk \in RiskLevels
                      /\ entry.requirements \subseteq RuleNames
  BY <1>5, EntryAssumption
<1>7. OfTheirTypes(found)
  BY <1>1, <1>2, <1>3, <1>4, <1>6 DEF OfTheirTypes
<1> QED
  BY <1>7 DEF found

LEMMA ProperStart == ReviewInit => Proper
  BY ReviewAssumption DEF ReviewInit, Proper, UnderReview

\* Who leaves the transaction and its facts alone.
LEMMA ProperKept ==
    ASSUME Proper, UNCHANGED <<action, phase, inspected, consulted>>,
           policy' \in Policies \cup {<< >>}, place' = "idle" => facts' = None,
           changes' \in 0 .. MaxChanges
    PROVE  Proper'
  BY DEF Proper, UnderReview, OfTheirTypes

LEMMA ProperProposing ==
    ASSUME Proper, NEW from, NEW ptb \in Ptbs \cup PlanPtbs, NEW manifest,
           manifest.requirements \subseteq Checks, ProposePtb(from, ptb, manifest)
    PROVE  Proper'
<1>1. /\ phase' = "proposed" => action' = [ptb |-> ptb, manifest |-> manifest]
      /\ phase' = "refused" => action' = action
      /\ phase' \in {"proposed", "refused"}
      /\ UNCHANGED <<inspected, consulted, changes, policy, facts, place>>
  BY DEF ProposePtb, policyVars
<1>2. CASE phase' = "proposed"
  <2>1. action'.ptb = ptb /\ action'.manifest = manifest
    BY <1>1, <1>2
  <2> QED
    BY <1>1, <1>2, <2>1 DEF Proper, UnderReview, OfTheirTypes
<1>3. CASE phase' = "refused"
  BY <1>1, <1>3 DEF Proper, UnderReview, OfTheirTypes
<1> QED
  BY <1>1, <1>2, <1>3

LEMMA ProperReview ==
    ASSUME ReviewInv, Proper, NEW f, Review(f), OfTheirTypes(FactsNow),
           f.calls = FactsNow.calls, f.risk = FactsNow.risk,
           f.semanticType = FactsNow.semanticType, f.requirements = FactsNow.requirements
    PROVE  Proper'
<1>1. /\ phase = "proposed" /\ phase' = "inspected" /\ inspected' = f
      /\ consulted' = Entry(registry, f.calls)
      /\ UNCHANGED <<action, changes, policy, facts, place>>
  BY DEF Review, policyVars
<1>2. OfTheirTypes(f)
  BY DEF OfTheirTypes
<1>3. action.ptb \in Ptbs \cup PlanPtbs /\ registry \in [Targets -> Entries \cup {None}]
  BY <1>1 DEF ReviewInv, UnderReview
<1>4. Entry(registry, FactsNow.calls) \in Entries \cup {None}
  BY <1>3, EntryFound DEF FactsNow
<1>5. consulted' \in Entries \cup {None}
  BY <1>1, <1>4
<1> QED
  BY <1>1, <1>2, <1>5 DEF Proper, UnderReview, OfTheirTypes

LEMMA ProperStep == ReviewInv /\ Proper /\ [ReviewNext]_reviewVars => Proper'
<1> SUFFICES ASSUME ReviewInv, Proper, [ReviewNext]_reviewVars PROVE Proper'
  OBVIOUS
<1>1. changes \in 0 .. MaxChanges /\ policy \in Policies \cup {<< >>}
      /\ (place = "idle" => facts = None)
  BY DEF Proper
<1>2. ASSUME NEW t \in Targets, NEW entry \in Entries, Register(t, entry) PROVE Proper'
  <2>1. /\ changes < MaxChanges /\ changes' = changes + 1
        /\ UNCHANGED <<action, phase, inspected, consulted, policy, facts, place>>
    BY <1>2 DEF Register, policyVars
  <2>2. changes' \in 0 .. MaxChanges
    BY <1>1, <2>1, ReviewAssumption
  <2> QED
    BY <1>1, <2>1, <2>2, ProperKept
<1>3. ASSUME NEW ptb \in Ptbs, NEW manifest \in Manifests(ptb), ProposePtb(None, ptb, manifest)
      PROVE  Proper'
  <2>1. manifest.requirements \subseteq Checks
    BY DEF Checks, Asking
  <2> QED
    BY <1>3, <2>1, ProperProposing
<1>4. ASSUME NEW p \in Plans, ProposePlan(p) PROVE Proper'
  <2>1. ProposePtb(p, PlanPtb(p), PlanManifest(p)) /\ PlanPtb(p) \in Ptbs \cup PlanPtbs
    BY <1>4 DEF ProposePlan, PlanPtbs
  <2>2. PlanManifest(p).requirements \subseteq Checks
    BY PlanChecks
  <2> QED
    BY <2>1, <2>2, ProperProposing
<1>12. ASSUME NEW p \in Plans, BuildFails(p) PROVE Proper'
  BY <1>1, <1>12 DEF BuildFails, Proper, UnderReview, OfTheirTypes, policyVars
<1>5. ASSUME phase = "proposed" PROVE OfTheirTypes(FactsNow)
  <2>1. /\ action.ptb \in Ptbs \cup PlanPtbs /\ registry \in [Targets -> Entries \cup {None}]
        /\ action.manifest.requirements \subseteq Checks
    BY <1>5 DEF ReviewInv, Proper, UnderReview
  <2>2. Entry(registry, Inspection(action.ptb, action.manifest, registry).calls)
           \in Entries \cup {None}
    BY <2>1, EntryFound
  <2> QED
    BY <2>1, <2>2, FactsOfTheirTypes DEF FactsNow
<1>6. CASE Inspect
  BY <1>5, <1>6, ProperReview DEF Inspect
<1>7. ASSUME NEW simulator \in Simulators, NEW slippage \in Slippages,
             Simulate(simulator, slippage)
      PROVE  Proper'
  <2>1. PICK outcome : Review([FactsNow EXCEPT !.simulation = outcome, !.slippage = slippage])
    BY <1>7 DEF Simulate
  <2> DEFINE f == [FactsNow EXCEPT !.simulation = outcome, !.slippage = slippage]
  <2>2. /\ f.calls = FactsNow.calls /\ f.risk = FactsNow.risk
        /\ f.semanticType = FactsNow.semanticType /\ f.requirements = FactsNow.requirements
    BY DEF FactsNow, Inspection
  <2>3. Review(f) /\ phase = "proposed"
    BY <2>1 DEF Review
  <2> HIDE DEF f
  <2> QED
    BY <1>5, <2>2, <2>3, ProperReview
<1>8. ASSUME NEW p \in Policies, NEW t \in Times, Judge(p, t) PROVE Proper'
  <2>1. /\ policy' = p /\ place' = "rules"
        /\ UNCHANGED <<action, phase, inspected, consulted, changes>>
    BY <1>8 DEF Judge, Evaluate
  <2> QED
    BY <1>1, <2>1, ProperKept
<1>9. CASE EvaluateOn
  <2>1. /\ UNCHANGED <<action, phase, inspected, consulted, changes, policy, facts>>
        /\ place' # "idle"
    BY <1>9 DEF EvaluateOn, NextRule, Conclude
  <2> QED
    BY <1>1, <2>1, ProperKept
<1>10. CASE EvaluateReturns
  <2>1. /\ UNCHANGED <<action, phase, inspected, consulted, changes>>
        /\ policy' = << >> /\ facts' = None
    BY <1>10 DEF EvaluateReturns, GiveDecision
  <2> QED
    BY <1>1, <2>1, ProperKept
<1>11. CASE UNCHANGED reviewVars
  BY <1>1, <1>11, ProperKept DEF reviewVars, policyVars
<1> QED
  BY <1>2, <1>3, <1>4, <1>6, <1>7, <1>8, <1>9, <1>10, <1>11, <1>12 DEF ReviewNext

(***************************************************************************)
(* The state of a review keeps its types: whatever a registry answers, the *)
(* facts have a risk and a semantic type that exist, ask for checks that   *)
(* somebody named, and are the ones the policy is given.                   *)
(***************************************************************************)
THEOREM ReviewTypeCorrect == ReviewSpec => []ReviewTypeOK
<1>1. ReviewInit => ReviewInv /\ Proper
  BY ReviewStart, ProperStart
<1>2. ReviewInv /\ Proper /\ [ReviewNext]_reviewVars => (ReviewInv /\ Proper)'
  BY ReviewStep, ProperStep
<1> QED
  BY <1>1, <1>2, ReviewTypesFollow, PTL DEF ReviewSpec
=============================================================================
