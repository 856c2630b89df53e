---------------------------- MODULE PolicyEngine ----------------------------
(***************************************************************************)
(* DefaultPolicyEngine of packages/policy-engine: evaluate goes through    *)
(* the rules of a policy in order, each worsening the decision so far, and *)
(* then looks at the required checks and at the simulation.  evaluate is   *)
(* one synchronous call; its loop is taken one rule at a time.  The facts  *)
(* come from ActionReview, which has the specification.                    *)
(*                                                                         *)
(* Reasons, hashes and the decider are left out.                           *)
(***************************************************************************)
EXTENDS Protocol, Sequences

CONSTANTS Rules,     \* the rules policies are made of
          Policies   \* the policies evaluated, each by its rules

Modes == {"requires_confirmation", "rejected"}

ASSUME PolicyAssumption == /\ \A r \in Rules : r.mode \in Modes
                           /\ Policies \subseteq Seq(Rules)

VARIABLES policy,    \* the rules of the policy
          facts,     \* the PolicyFacts under evaluation, see PtbInspector
          time,      \* nowMs
          next,      \* the rule that comes next
          decision,
          place      \* "idle", "rules", "done"

policyVars == <<policy, facts, time, next, decision, place>>

\* The later of the two.
LaterDecision(left, right) == IF right = "approved" THEN left ELSE right

WorseDecision(left, right) ==
    IF left = "rejected" \/ right = "rejected" THEN "rejected"
    ELSE IF "requires_confirmation" \in {left, right} THEN "requires_confirmation"
    ELSE "approved"

-----------------------------------------------------------------------------
(***************************************************************************)
(* The rules, as policyRules builds them: a record with a name and         *)
(* parameters, of which a rule reads its own.                              *)
(***************************************************************************)
Rule(name, mode) == [name |-> name, max |-> None, coin |-> None, allowed |-> {},
                     expires |-> None, minRisk |-> "high", mode |-> mode]

MaxValueRule(max, coin) ==
    [Rule("max_value_at_risk", "rejected") EXCEPT !.max = max, !.coin = coin]
AllowlistRule(name, allowed) == [Rule(name, "rejected") EXCEPT !.allowed = allowed]
ExpirationRule(expires) == [Rule("expiration_check", "rejected") EXCEPT !.expires = expires]
RiskRule(minRisk, mode) == [Rule("risk_level_guard", mode) EXCEPT !.minRisk = minRisk]
UnknownContractRule(mode) == Rule("unknown_contract_guard", mode)
SlippageRule(max, mode) == [Rule("slippage_limit", mode) EXCEPT !.max = max]

DefaultRules == <<ExpirationRule(None),
                  RiskRule("high", "requires_confirmation"),
                  UnknownContractRule("requires_confirmation")>>

\* createDefaultPolicy: rules are added to the default ones.
DefaultPolicy(rules) == DefaultRules \o rules

-----------------------------------------------------------------------------
\* max_value_at_risk has something to compare.
Compares(r, f) == /\ f.value # None /\ r.max # None
                  /\ r.coin \in {None, f.value.coin}
NotAnInteger(r, f) == Compares(r, f) /\ Unknown \in {f.value.amount, r.max}
TooMuch(r, f) == Compares(r, f) /\ ~NotAnInteger(r, f) /\ f.value.amount > r.max

RecipientBlocked(r, f) ==
    \E n \in DOMAIN f.transfers : f.transfers[n].recipient \notin r.allowed
PackageBlocked(r, f) == ~(f.packages \subseteq r.allowed)
FunctionBlocked(r, f) == \E n \in DOMAIN f.calls : f.calls[n] \notin r.allowed

Expired(r, f, t) ==
    LET expires == IF r.expires # None THEN r.expires ELSE f.expires
    IN  expires # None /\ expires <= t

\* What a rule makes the decision at least.
Objection(r, f, t) ==
    CASE r.name = "max_value_at_risk"   -> IF TooMuch(r, f) THEN "rejected" ELSE "approved"
      [] r.name = "recipient_allowlist" -> IF RecipientBlocked(r, f) THEN "rejected" ELSE "approved"
      [] r.name = "package_allowlist"   -> IF PackageBlocked(r, f) THEN "rejected" ELSE "approved"
      [] r.name = "function_allowlist"  -> IF FunctionBlocked(r, f) THEN "rejected" ELSE "approved"
      [] r.name = "expiration_check"    -> IF Expired(r, f, t) THEN "rejected" ELSE "approved"
      [] r.name = "risk_level_guard"    -> IF RiskRank(f.risk) >= RiskRank(r.minRisk)
                                           THEN r.mode ELSE "approved"
      [] r.name = "unknown_contract_guard" -> IF f.semanticType = "unknown" THEN r.mode ELSE "approved"
      [] r.name = "slippage_limit"      -> IF r.max = None THEN "approved"
                                           ELSE IF f.slippage = None THEN r.mode
                                           ELSE IF f.slippage > r.max THEN "rejected"
                                           ELSE "approved"
      [] OTHER -> "approved"

\* The one assignment that does not ask for the decision so far.
Overrides(r, f) == r.name = "max_value_at_risk" /\ NotAnInteger(r, f)

DecisionAfter(d, r, f, t) ==
    IF Overrides(r, f) THEN "requires_confirmation" ELSE WorseDecision(d, Objection(r, f, t))

NamesIn(p) == {p[n].name : n \in DOMAIN p}

\* No check is asked for.
NoMissingChecks(p, f) == {}

\* The required checks that are no rule of the policy.
MissingChecks(p, f) == f.requirements \ NamesIn(p)

SimulationFailed(f) == f.simulation = "failed"

\* The end of evaluate.
Conclusion(d, p, f) ==
    IF SimulationFailed(f) THEN "rejected"
    ELSE IF MissingChecks(p, f) # {} THEN WorseDecision(d, "requires_confirmation")
    ELSE d

-----------------------------------------------------------------------------
Evaluate(p, f, t) == /\ place = "idle"
                     /\ policy' = p /\ facts' = f /\ time' = t
                     /\ place' = "rules"
                     /\ UNCHANGED <<next, decision>>

NextRule == /\ place = "rules" /\ next \in DOMAIN policy
            /\ decision' = DecisionAfter(decision, policy[next], facts, time)
            /\ next' = next + 1
            /\ UNCHANGED <<policy, facts, time, place>>

Conclude == /\ place = "rules" /\ next = Len(policy) + 1
            /\ decision' = Conclusion(decision, policy, facts)
            /\ place' = "done"
            /\ UNCHANGED <<policy, facts, time, next>>

\* evaluate returns its decision and keeps nothing.
GiveDecision == /\ place = "done"
                /\ policy' = << >> /\ facts' = None /\ time' = 0
                /\ next' = 1 /\ decision' = "approved" /\ place' = "idle"

-----------------------------------------------------------------------------
Objects(n) == Objection(policy[n], facts, time) # "approved" \/ Overrides(policy[n], facts)

NobodyObjects == \A n \in DOMAIN policy : ~Objects(n)
ChecksAreRules == facts.requirements \subseteq NamesIn(policy)

(***************************************************************************)
(* evaluate: nothing is approved over the objection of a rule, without a   *)
(* required check or after a simulation that failed, and what was          *)
(* simulated with success and meets no objection is approved.  Facts that  *)
(* were not simulated at all are left open here; ApprovedOnlySimulated of  *)
(* ActionReview is about them.                                             *)
(***************************************************************************)
ApprovedByRules ==
    place = "done" =>
        /\ decision = "approved" => NobodyObjects /\ ChecksAreRules /\ ~SimulationFailed(facts)
        /\ NobodyObjects /\ ChecksAreRules /\ facts.simulation = "ok" => decision = "approved"

(***************************************************************************)
(* evaluate: what one rule rejected stays rejected whatever the others     *)
(* say, in whichever order they come, but for one thing: a max_value rule  *)
(* further on that cannot read the amount asks for confirmation instead.   *)
(***************************************************************************)
RejectionStands ==
    place = "done" =>
        \A n \in DOMAIN policy :
            Objection(policy[n], facts, time) = "rejected" =>
                \/ decision = "rejected"
                \/ \E m \in DOMAIN policy : m > n /\ Overrides(policy[m], facts)
=============================================================================
