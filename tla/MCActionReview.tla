--------------------------- MODULE MCActionReview ---------------------------
(***************************************************************************)
(* ActionReview with transactions of each kind of command, honest and      *)
(* mistaken manifests, and policies in several orders.                     *)
(***************************************************************************)
EXTENDS ActionReview

\* Arguments and commands.
gas == [kind |-> "gas"]
Object(id) == [kind |-> "object", id |-> id]
Pure(v) == [kind |-> "pure", value |-> v]
Nested(c, r) == [kind |-> "nested", command |-> c, result |-> r]
Split(coin, amounts) == [kind |-> "SplitCoins", coin |-> coin, amounts |-> amounts]
SendTo(args, address) == [kind |-> "TransferObjects", args |-> args, address |-> address]
Run(target, args) == [kind |-> "MoveCall", target |-> target, args |-> args]
Sui(commands) == [format |-> "sui", commands |-> commands]

deposit == [package |-> "escrow", name |-> "deposit"]
steal == [package |-> "other", name |-> "f"]

SuiPtbs == {
    \* one split coin, two of them, and one of an amount or to an address unread
    Sui(<<Split(gas, <<Pure(1)>>), SendTo(<<Nested(1, 1)>>, Pure("alice"))>>),
    Sui(<<Split(gas, <<Pure(1), Pure(2)>>), SendTo(<<Nested(1, 1), Nested(1, 2)>>, Pure("alice"))>>),
    Sui(<<Split(gas, <<Nested(1, 1)>>), SendTo(<<Nested(1, 1)>>, Pure("alice"))>>),
    Sui(<<Split(gas, <<Pure(1)>>), SendTo(<<Nested(1, 1)>>, Object("o1"))>>),
    \* two transfers, a whole object, an object beside a coin
    Sui(<<Split(gas, <<Pure(1), Pure(2)>>), SendTo(<<Nested(1, 1)>>, Pure("alice")),
          SendTo(<<Nested(1, 2)>>, Pure("bob"))>>),
    Sui(<<SendTo(<<Object("o1")>>, Pure("alice"))>>),
    Sui(<<Split(Object("o1"), <<Pure(1)>>), SendTo(<<Nested(1, 1), Object("o2")>>, Pure("alice"))>>),
    Sui(<<SendTo(<<Object("o1")>>, Pure("alice")), Split(gas, <<Pure(3)>>),
          SendTo(<<Nested(2, 1)>>, Pure("alice"))>>),
    \* calls, alone and behind one another
    Sui(<<Run(deposit, <<Object("o1")>>)>>),
    Sui(<<Run(deposit, << >>), Run(steal, <<gas>>)>>),
    Sui(<<Run(steal, << >>), Run(deposit, << >>)>>),
    Sui(<<Split(gas, <<Pure(1)>>), Run(deposit, <<Nested(1, 1)>>), SendTo(<<gas>>, Pure("alice"))>>),
    \* everything else, and bytes that are not read
    Sui(<<[kind |-> "MergeCoins", args |-> <<gas, Object("o1")>>],
          [kind |-> "MakeMoveVec", args |-> <<Object("o1")>>]>>),
    Sui(<<[kind |-> "Publish", dependencies |-> {"escrow"}]>>),
    Sui(<<Run(deposit, << >>),
          [kind |-> "Upgrade", package |-> "other", dependencies |-> {"escrow"}, args |-> <<Object("o1")>>]>>),
    Sui(<< >>)}

Paid(amount, coin) == [kind |-> "transfer", recipient |-> "alice", amount |-> amount, coin |-> coin,
                       objects |-> {"o1"}, packages |-> {}]
InspectablePtbs == {[format |-> "inspectable", commands |-> c] :
                        c \in {<<Paid(1, "SUI"), Paid(1, "USDC")>>, <<Paid(2, "USDC")>>, <<OpaquePtb>>, << >>}}
MCPtbs == SuiPtbs \cup InspectablePtbs

\* What a manifest may say: the truth without a registry, with one part of it wrong.
Honest(ptb, expires) ==
    LET f == Inspection(ptb, PtbManifest(expires), [t \in Targets |-> None])
    IN  [PtbManifest(expires) EXCEPT !.semanticType = f.semanticType, !.risk = f.risk,
             !.value = f.value, !.target = IF DOMAIN f.calls = {} THEN None ELSE First(f.calls),
             !.objects = f.objects]
Amiss(m) == {[m EXCEPT !.semanticType = "swap"], [m EXCEPT !.semanticType = "unknown"],
             [m EXCEPT !.risk = "low"], [m EXCEPT !.risk = "critical"],
             [m EXCEPT !.value = None], [m EXCEPT !.value = [amount |-> 0, coin |-> "SUI"]],
             [m EXCEPT !.target = steal], [m EXCEPT !.objects = {}],
             [m EXCEPT !.requirements = {"recipient_allowlist"}],
             [m EXCEPT !.expires = 0]}
\* Mistakes about one transfer and one call of deposit, and what the builders of
\* packages/protocol make of them.
Payment == Sui(<<Split(gas, <<Pure(1)>>), SendTo(<<Nested(1, 1)>>, Pure("alice"))>>)
Deposit == Sui(<<Run(deposit, <<Object("o1")>>)>>)
Built(ptb) == IF ptb = Payment THEN {TransferManifest(1, "SUI", {"gas"}, 2)}
              ELSE {MoveCallManifest(deposit, {"o1"}, 2)}
MCManifests(ptb) == LET m == Honest(ptb, 2)
                    IN  {m} \cup (IF ptb \in {Payment, Deposit} THEN Amiss(m) \cup Built(ptb) ELSE {})

\* alice's address in upper case, and one that is too long.
MCAddressOf(written) == IF written = "alice..." THEN None ELSE "alice"
MCPlans == {[semanticType |-> t, risk |-> r, amount |-> n, recipient |-> a, requirements |-> q,
             padded |-> z] :
               t \in {"transfer", "unknown"}, r \in RiskLevels, n \in {0, 2, 4}, z \in BOOLEAN,
               a \in {"ALICE", "alice..."}, q \in {{}, {"slippage_limit"}}}

MCEntries == {[semanticType |-> "move_call", risk |-> "low", requirements |-> {}],
              [semanticType |-> "swap", risk |-> "critical", requirements |-> {"function_allowlist"}]}

max == MaxValueRule(2, "SUI")
unreadable == MaxValueRule(Unknown, None)
recipients == AllowlistRule("recipient_allowlist", {"alice"})
packages == AllowlistRule("package_allowlist", {"escrow"})
functions == AllowlistRule("function_allowlist", {deposit})
slippage == SlippageRule(1, "requires_confirmation")

MCPolicies == {DefaultPolicy(rules) :
                  rules \in {<< >>, <<max, recipients>>, <<packages, functions>>, <<slippage>>}}
              \cup {<<max, ExpirationRule(2)>>, <<recipients, unreadable, packages>>,
                    <<RiskRule("medium", "rejected"), unreadable>>}
MCRules == UNION {ToSet(p) : p \in MCPolicies}
MCTargets == {deposit, steal}
MCSlippages == {None, 2}
=============================================================================
