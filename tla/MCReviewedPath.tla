-------------------------- MODULE MCReviewedPath ---------------------------
(***************************************************************************)
(* ReviewedPath with a payment, one that is too large, and a call of code  *)
(* that the registry may come to know, under the default rules with limits *)
(* or without.                                                             *)
(***************************************************************************)
EXTENDS ReviewedPath, MCActionReview

CONSTANTS h1, h2, x1, a1

TwoPayments == Sui(<<Split(gas, <<Pure(1), Pure(2)>>),
                     SendTo(<<Nested(1, 1), Nested(1, 2)>>, Pure("alice"))>>)

PathPtbs == {TwoPayments, Deposit}
PathManifests(ptb) == {Honest(ptb, 1)}
PathPlans == {[semanticType |-> "transfer", risk |-> "low", amount |-> n, recipient |-> "ALICE",
               requirements |-> {}, padded |-> z] : z \in BOOLEAN, n \in {2, 4}}
PathPolicies == {DefaultPolicy(<<max, recipients>>), DefaultPolicy(<< >>)}
PathRules == UNION {ToSet(p) : p \in PathPolicies}
PathTargets == {deposit}
PathEntries == {[semanticType |-> "move_call", risk |-> "low", requirements |-> {}]}
=============================================================================
