------------------------------ MODULE Protocol ------------------------------
(***************************************************************************)
(* What packages/protocol shares among inspection, policy and proposals:   *)
(* the levels of risk and the builders of manifests.  A manifest is a      *)
(* record without ids and texts.                                           *)
(***************************************************************************)
EXTENDS Naturals

CONSTANTS None,     \* undefined
          Unknown   \* the amount "unknown", which is no integer

RiskLevels == {"low", "medium", "high", "critical"}
SemanticTypes == {"transfer", "move_call", "swap", "copy_trade", "prediction_market", "unknown"}
Decisions == {"approved", "requires_confirmation", "rejected"}

RuleNames == {"max_value_at_risk", "recipient_allowlist", "package_allowlist",
              "function_allowlist", "slippage_limit", "expiration_check",
              "risk_level_guard", "unknown_contract_guard"}

\* riskRank, which the inspector and the policy engine both have.
RiskRank(risk) == CASE risk = "low" -> 1
                    [] risk = "medium" -> 2
                    [] risk = "high" -> 3
                    [] OTHER -> 4

-----------------------------------------------------------------------------
\* createPtbManifest without optional input.
PtbManifest(expires) ==
    [semanticType |-> "unknown", risk |-> "high", value |-> None, target |-> None,
     objects |-> {}, requirements |-> {}, expires |-> expires]

TransferManifest(amount, coin, objects, expires) ==
    [PtbManifest(expires) EXCEPT
        !.semanticType = "transfer", !.risk = "medium",
        !.value = [amount |-> amount, coin |-> coin], !.objects = objects,
        !.requirements = {"max_value_at_risk", "recipient_allowlist", "expiration_check"}]

MoveCallManifest(target, objects, expires) ==
    [PtbManifest(expires) EXCEPT
        !.semanticType = "move_call", !.target = target, !.objects = objects,
        !.requirements = {"package_allowlist", "function_allowlist", "expiration_check"}]
=============================================================================
