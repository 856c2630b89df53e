---------------------------- MODULE ActionReview ----------------------------
(***************************************************************************)
(* From a transaction to a decision: SuiMeshClient's proposePtb, inspect,  *)
(* simulate and policy.evaluate over the inspector, the action registry    *)
(* and the policy engine, for one action.  The registry may change between *)
(* any two of the calls, each of which looks it up anew.                   *)
(*                                                                         *)
(* A proposal is made by a client with any manifest, or by the agent of    *)
(* scripts/live/openai-agent-proposal-live.ts from a language model's      *)
(* plan.  External: the model, and the node that dry-runs a transaction.   *)
(***************************************************************************)
EXTENDS PtbInspector, PolicyEngine

CONSTANTS Ptbs,        \* transactions
          Manifests(_),\* what a client may claim about a transaction
          Plans,       \* what the language model answers; recipients are written in hex
          AddressOf(_),\* the address a recipient in hex stands for, None if it is too long
          MaxU64,      \* the largest amount a transaction can hold
          Targets,     \* functions that can be called
          Entries,     \* registry entries: semanticType, risk, requirements
          Times,       \* nowMs
          Simulators,  \* "local", "devInspect"
          Slippages,   \* slippageBps a simulator may report; None
          PlanExpires, \* expiresAtMs of the agent's proposals, 10 minutes ahead
          Padded,      \* an amount written with leading zeros
          MaxChanges   \* bound: changes of the registry

ASSUME ReviewAssumption == /\ None \notin Entries \cup Plans
                           /\ \A ptb \in Ptbs : WellFormed(ptb)
                           /\ \A p \in Plans : p.amount \in Nat /\ p.padded \in BOOLEAN
                           /\ PlanExpires \in Nat \ {0} /\ MaxChanges \in Nat
                           /\ MaxU64 \in Nat

\* Registry entries are of the type ActionRegistryEntry, and the commands of a
\* transaction are an array that calls functions.
ASSUME EntryAssumption ==
    /\ \A entry \in Entries :
          /\ entry.semanticType \in SemanticTypes /\ entry.risk \in RiskLevels
          /\ entry.requirements \subseteq RuleNames
    /\ \A ptb \in Ptbs : \A n \in DOMAIN Commands(ptb) :
          n \in Nat /\ (Commands(ptb)[n].kind = "moveCall" => Commands(ptb)[n].target \in Targets)

\* undefined and "unknown" are no numbers, and undefined is no value.
ASSUME ValueAssumption ==
    /\ {None, Unknown, Padded} \cap Nat = {}
    /\ None \notin [amount : Nat \cup {Unknown, Padded}, coin : {"SUI", "mixed", Unknown}]

VARIABLES registry,   \* entries of the ActionRegistry by selector
          action,     \* the SuiPtbAction, or None
          plan,       \* the plan the proposal was made from, None if a client made it
          phase,      \* "drafting", "refused", "proposed", "inspected"
          inspected,  \* the facts that were found, or None
          consulted,  \* the registry entry they rest on, or None
          changes

reviewVars == <<registry, action, plan, phase, inspected, consulted, changes, policyVars>>

ReviewInit == /\ registry = [t \in Targets |-> None]
              /\ action = None /\ plan = None /\ phase = "drafting"
              /\ inspected = None /\ consulted = None
              /\ changes = 0
              /\ policy = << >> /\ facts = None /\ time = 0
              /\ next = 1 /\ decision = "approved" /\ place = "idle"

-----------------------------------------------------------------------------
\* LocalActionRegistry.register, or whoever maintains a registry on chain.  Once
\* the facts are found nobody looks at the registry again.
Register(t, entry) == /\ changes < MaxChanges /\ phase \in {"drafting", "proposed"}
                      /\ registry' = [registry EXCEPT ![t] = entry]
                      /\ changes' = changes + 1
                      /\ UNCHANGED <<action, plan, phase, inspected, consulted, policyVars>>

\* proposePtb throws unless the manifest agrees with what is inspected.
ProposePtb(from, ptb, manifest) ==
    /\ phase = "drafting"
    /\ plan' = from
    /\ IF ManifestValid(manifest, Inspection(ptb, manifest, registry))
       THEN /\ action' = [ptb |-> ptb, manifest |-> manifest]
            /\ phase' = "proposed"
       ELSE phase' = "refused" /\ UNCHANGED action
    /\ UNCHANGED <<registry, inspected, consulted, changes, policyVars>>

-----------------------------------------------------------------------------
\* validatePlan: only transfers of a positive amount.
PlanValid(p) == p.semanticType = "transfer" /\ p.amount > 0

\* The model's word is taken for it.
PlanRiskAsTold(p) == p.risk

\* riskFloorForPlan and maxRiskLevel.
PlanRisk(p) == LET floor == IF p.semanticType = "unknown" THEN "high" ELSE "medium"
               IN  IF RiskRank(p.risk) >= RiskRank(floor) THEN p.risk ELSE floor

\* What buildTransfer does not throw for: tx.pure.u64 and tx.pure.address take it.
Buildable(p) == p.amount <= MaxU64 /\ AddressOf(p.recipient) # None

\* buildTransfer reads the amount as a number and the recipient as an address.
PlanPtb(p) ==
    [format |-> "sui",
     commands |-> <<[kind |-> "SplitCoins", coin |-> [kind |-> "gas"],
                     amounts |-> <<[kind |-> "pure", value |-> p.amount]>>],
                    [kind |-> "TransferObjects",
                     args |-> <<[kind |-> "nested", command |-> 1, result |-> 1]>>,
                     address |-> [kind |-> "pure", value |-> AddressOf(p.recipient)]]>>]

PlanPtbs == {PlanPtb(p) : p \in {q \in Plans : Buildable(q)}}

\* The manifest has the amount as the model wrote it.
PlanManifest(p) ==
    LET written == IF p.padded THEN Padded ELSE p.amount
        usual   == TransferManifest(written, "SUI", {"gas"}, PlanExpires)
    IN  [usual EXCEPT !.risk = PlanRisk(p),
                      !.requirements = IF p.requirements = {} THEN @ ELSE p.requirements]

ProposePlan(p) == /\ PlanValid(p) /\ Buildable(p)
                  /\ ProposePtb(p, PlanPtb(p), PlanManifest(p))

\* buildTransfer throws before there is a transaction, and the script ends.
BuildFails(p) == /\ PlanValid(p) /\ ~Buildable(p)
                 /\ phase = "drafting"
                 /\ plan' = p /\ phase' = "refused"
                 /\ UNCHANGED <<registry, action, inspected, consulted, changes, policyVars>>

-----------------------------------------------------------------------------
FactsNow == Inspection(action.ptb, action.manifest, registry)

\* inspect, and simulate, which inspects and then asks the simulator; neither
\* compares the manifest with the facts again.
Review(f) == /\ phase = "proposed"
             /\ phase' = "inspected"
             /\ inspected' = f
             /\ consulted' = Entry(registry, f.calls)
             /\ UNCHANGED <<registry, action, plan, changes, policyVars>>

Inspect == phase = "proposed" /\ Review(FactsNow)

Simulate(simulator, slippage) ==
    /\ phase = "proposed"
    /\ \E outcome \in {"ok", "failed"} :
          /\ simulator = "local" => outcome = LocalSimulation(FactsNow) /\ slippage = None
          /\ Review([FactsNow EXCEPT !.simulation = outcome, !.slippage = slippage])

\* policy.evaluate and evaluateAndRecord, with the facts a caller was given.
Judge(p, t) == /\ phase = "inspected"
               /\ Evaluate(p, inspected, t)
               /\ UNCHANGED <<registry, action, plan, phase, inspected, consulted, changes>>

EvaluateOn == /\ NextRule \/ Conclude
              /\ UNCHANGED <<registry, action, plan, phase, inspected, consulted, changes>>

\* The caller has its decision and may ask again, perhaps of another policy.
EvaluateReturns ==
    /\ GiveDecision
    /\ UNCHANGED <<registry, action, plan, phase, inspected, consulted, changes>>

ReviewNext ==
    \/ \E t \in Targets, entry \in Entries : Register(t, entry)
    \/ \E ptb \in Ptbs : \E manifest \in Manifests(ptb) : ProposePtb(None, ptb, manifest)
    \/ \E p \in Plans : ProposePlan(p) \/ BuildFails(p)
    \/ Inspect
    \/ \E simulator \in Simulators, slippage \in Slippages : Simulate(simulator, slippage)
    \/ \E p \in Policies, t \in Times : Judge(p, t)
    \/ EvaluateOn
    \/ EvaluateReturns

ReviewSpec == ReviewInit /\ [][ReviewNext]_reviewVars

-----------------------------------------------------------------------------
\* The checks that an entry, a manifest or a plan can ask for; those of a manifest are
\* strings of any kind.
Asking == Plans \cup UNION {Manifests(ptb) : ptb \in Ptbs}
Checks == RuleNames \cup (UNION {m.requirements : m \in Asking})

ReviewTypeOK ==
    /\ registry \in [Targets -> Entries \cup {None}]
    /\ action # None => action.ptb \in Ptbs \cup PlanPtbs
    /\ plan \in Plans \cup {None}
    /\ phase \in {"drafting", "refused", "proposed", "inspected"}
    /\ inspected # None =>
          /\ inspected.risk \in RiskLevels /\ inspected.semanticType \in SemanticTypes
          /\ inspected.requirements \subseteq Checks
    /\ consulted \in Entries \cup {None}
    /\ policy \in Policies \cup {<< >>}
    /\ facts \in {None, inspected}
    /\ next \in 1 .. Len(policy) + 1
    /\ decision \in Decisions
    /\ place \in {"idle", "rules", "done"}
    /\ changes \in 0 .. MaxChanges

Approved == place = "done" /\ decision = "approved"

\* What the bytes say, command by command: the coins that are sent after they were
\* split off, the code that is called and upgraded.
CommandsOf(kind) == {n \in DOMAIN action.ptb.commands :
                        action.ptb.format = "sui" /\ action.ptb.commands[n].kind = kind}
SplitsOf(n) == {<<n, i>> : i \in Splits(action.ptb.commands, n)}
SentSplits == UNION {SplitsOf(n) : n \in CommandsOf("TransferObjects")}
AmountOf(s) == SplitAmount(action.ptb.commands, action.ptb.commands[s[1]].args[s[2]])

\* Some transfers send split coins and others whole objects only.
MixedTransfers == \E m, n \in CommandsOf("TransferObjects") : SplitsOf(m) = {} /\ SplitsOf(n) # {}

Touched == {action.ptb.commands[n].target.package : n \in CommandsOf("MoveCall")}
           \cup {action.ptb.commands[n].package : n \in CommandsOf("Upgrade")}

SumWithin(max) == /\ \A s \in SentSplits : AmountOf(s) # Unknown
                  /\ SumFunction([s \in SentSplits |-> AmountOf(s)]) <= max

WithinRule(r) ==
    CASE r.name = "recipient_allowlist" ->
             \A n \in CommandsOf("TransferObjects") :
                Decoded(action.ptb.commands[n].address) \in r.allowed
      [] r.name = "package_allowlist" -> Touched \subseteq r.allowed
      [] r.name = "function_allowlist" ->
             \A n \in CommandsOf("MoveCall") : action.ptb.commands[n].target \in r.allowed
      [] r.name = "max_value_at_risk" /\ r.max \in Nat ->
             (r.coin = None \/ (r.coin = "SUI" /\ ~MixedTransfers)) => SumWithin(r.max)
      [] OTHER -> TRUE

(***************************************************************************)
(* proposePtb, inspect, evaluate: an approved transaction keeps to every   *)
(* rule of the policy by what its bytes say, through all conversions: it   *)
(* sends to allowed recipients only, calls and upgrades allowed code only, *)
(* and the amounts split off and sent add up to no more than the limit.    *)
(* A limit for SUI has a gap: beside a transfer of whole objects only, the *)
(* value is "mixed" and is not compared with it.                           *)
(***************************************************************************)
ApprovedWithinLimits == Approved => \A n \in DOMAIN policy : WithinRule(policy[n])

\* Code is run, published or upgraded, or nothing was recognized.
Dangerous == \/ CommandsOf("MoveCall") # {} \/ CommandsOf("Publish") # {}
             \/ CommandsOf("Upgrade") # {}
             \/ /\ action.ptb.format = "sui"
                /\ DOMAIN action.ptb.commands = CommandsOf("SplitCoins")
VouchedFor == consulted # None /\ consulted.risk \in {"low", "medium"}

(***************************************************************************)
(* docs/protocol.md:376 and createDefaultPolicy: with the default rules    *)
(* in place, in whatever company, a transaction that runs code or that was *)
(* not understood is approved only if the registry entry of its first call *)
(* vouches for it.                                                         *)
(***************************************************************************)
DangerReviewed ==
    /\ Approved
    /\ Len(policy) >= 3 /\ SubSeq(policy, 1, 3) = DefaultRules
    /\ Dangerous
    => VouchedFor

(***************************************************************************)
(* openai-agent-proposal-live.ts: whatever risk and requirements the       *)
(* language model names, a plan that passes validatePlan becomes a         *)
(* proposal that proposePtb accepts, except three kinds that the schema    *)
(* and validatePlan let through: an amount written with leading zeros is   *)
(* not what the inspector reads from the bytes, and an amount beyond u64   *)
(* and a recipient of more than 64 digits go into no transaction.          *)
(***************************************************************************)
PlansAccepted ==
    plan # None => (phase = "refused" <=> \/ plan.padded
                                          \/ plan.amount > MaxU64
                                          \/ AddressOf(plan.recipient) = None)

(***************************************************************************)
(* docs/protocol.md:464: "No successful inspect/simulate, no policy        *)
(* approval."  evaluate looks at a simulation only if there is one, and    *)
(* the facts that inspect returns have none.                               *)
(***************************************************************************)
ApprovedOnlySimulated == Approved => inspected.simulation = "ok"
=============================================================================
